-------------------------- MODULE MCProjectionStore --------------------------
(* Two private projections: the slot's command state, which only refreshes  *)
(* write and whose refused read is a value of its own, and the thread, which *)
(* the live connection patches and whose read makes further reads.          *)
EXTENDS ProjectionStore

CONSTANTS commandState, thread

MCKeys == {commandState, thread}
MCLive == {thread}
MCNormalized == {commandState}

=============================================================================
