--------------------------- MODULE MCPlayerCommands ---------------------------
(* A page of two projections: the slot's command state, which only refreshes *)
(* write, and the thread, which the live connection patches.                 *)
EXTENDS PlayerCommands

CONSTANTS commandState, thread

MCKeys == {commandState, thread}
MCLive == {thread}
MCAsks == {1}

=============================================================================
