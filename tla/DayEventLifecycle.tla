-------------------------- MODULE DayEventLifecycle --------------------------
(***************************************************************************)
(* What a DayEvent promises, whoever moves it: host, player, clock, phase  *)
(* signal or automatic policy. Every event walks the state machine of      *)
(* DayEventState, players come and go only while it is open, the entrants  *)
(* are frozen by the lock, and a resolution names winners among them. One  *)
(* transaction may move several events, and one event several steps.       *)
(*                                                                         *)
(* DayRuntime implements this specification.                               *)
(***************************************************************************)
EXTENDS FiniteSets

CONSTANTS Events, Slots

VARIABLES
  state,      \* the lifecycle state of every event, "absent" before it exists
  entrants,   \* the slots that take part in it
  winners     \* the slots its resolution named

lifecycleVars == <<state, entrants, winners>>

\* DayEventState::can_transition_to, and the fact that creates the event.
CanTransition(a, b) ==
  \/ a = "absent" /\ b = "scheduled"
  \/ a = "scheduled" /\ b \in {"open", "cancelled"}
  \/ a = "open" /\ b \in {"locked", "cancelled"}
  \/ a = "locked" /\ b \in {"resolved", "cancelled"}

\* What one transaction can do: nothing, one transition, or open and lock.
CanMove(a, b) ==
  \/ a = b
  \/ CanTransition(a, b)
  \/ a = "scheduled" /\ b = "locked"

Init ==
  /\ state = [e \in Events |-> "absent"]
  /\ entrants = [e \in Events |-> {}]
  /\ winners = [e \in Events |-> {}]

Enter(e, s) ==
  /\ state[e] = "open"
  /\ entrants' = [entrants EXCEPT ![e] = @ \cup {s}]
  /\ UNCHANGED <<state, winners>>

Leave(e, s) ==
  /\ state[e] = "open"
  /\ entrants' = [entrants EXCEPT ![e] = @ \ {s}]
  /\ UNCHANGED <<state, winners>>

\* Winners appear with the resolution, among the entrants, and never change.
WinnersNamed(e) ==
  IF state[e] = "locked" /\ state'[e] = "resolved"
    THEN winners'[e] # {} /\ winners'[e] \subseteq entrants[e]
    ELSE winners'[e] = winners[e]

Advance ==
  /\ \A e \in Events : CanMove(state[e], state'[e]) /\ WinnersNamed(e)
  /\ UNCHANGED entrants

Next == Advance \/ \E e \in Events, s \in Slots : Enter(e, s) \/ Leave(e, s)

Spec == Init /\ [][Next]_lifecycleVars

=============================================================================
