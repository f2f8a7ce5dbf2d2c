--------------------------- MODULE MCKekRetirement ---------------------------
(* Three keys, so that a chain of rotations is possible, two sessions, one   *)
(* stream key and one direct column. The keyrings are those of a rolling     *)
(* rotation, before, during and after each of two steps, and of the way back *)
(* from the first one.                                                       *)
EXTENDS KekRetirement, TLC

CONSTANTS k1, k2, k3, p1, p2, streamKey, column

MCKeys == {k1, k2, k3}
MCProcesses == {p1, p2}
Sessions == Permutations(MCProcesses)
MCStreamKeys == {streamKey}
MCDirects == {column}

Keyring(active, held) == [active |-> active, held |-> held]

MCRings ==
  {Keyring(k1, {k1, k2}), Keyring(k2, {k1, k2}), Keyring(k2, {k2}),
   Keyring(k3, {k2, k3}), Keyring(k3, {k3})}

=============================================================================
