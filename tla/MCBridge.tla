------------------------------ MODULE MCBridge ------------------------------
(* Small instances of Bridge for TLC. *)
EXTENDS Bridge

CONSTANTS a, b, c, stereo, mono

\* a and b send from different addresses; c runs on a's address after it.
Addresses == [p \in Host |-> IF p = b THEN "bPort" ELSE "aPort"]

OneFormat == [p \in Host |-> stereo]

\* c asks for another format than a and b.
NewFormat == [p \in Host |-> IF p = c THEN mono ELSE stereo]
=============================================================================
