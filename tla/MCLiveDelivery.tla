---------------------------- MODULE MCLiveDelivery ----------------------------
(* A page and one or two writers, with the smallest channel the publisher    *)
(* allows. Two voters vote for a candidate; one withdraws, or dies.          *)
EXTENDS LiveDelivery, TLC

CONSTANTS w1, w2, v1, v2, c1

Of(kind) == [kind |-> kind, ballots |-> NoBallots]
Vote(v, c) == [kind |-> "vote", ballots |-> [x \in {v} |-> c]]
Death(v) == [kind |-> "state", ballots |-> [x \in {v} |-> NoOne]]

VoteCommands == {Vote(v1, c1), Vote(v2, c1), Vote(v1, NoOne)}
DeliveredCommands == VoteCommands \cup {Of("post"), Of("surface"), Death(v1)}
RecoveryCommands == {Of("post"), Of("surface"), Of("silent"), Death(v1)}
CursorCommands == {Of("post"), Of("surface")}

WriterSymmetry == Permutations(Writers)

=============================================================================
