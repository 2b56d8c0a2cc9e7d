--------------------------- MODULE MCBridgeHosts ---------------------------
(* An instance of Bridge for TLC with a host of every kind. *)
EXTENDS Bridge

CONSTANTS a, b, c, d, e, stereo, mono, odd

\* c and e run on a's address after it, and d, which does not know the token,
\* on b's.
Addresses == [p \in Host |-> IF p \in {b, d} THEN "bPort" ELSE "aPort"]

\* c asks for another format than a and b, and e for one the VM cannot handle.
Asked == [p \in Host |->
    CASE p = c -> mono
      [] p = e -> odd
      [] OTHER -> stereo]
=============================================================================
