---------------------------- MODULE MCKeepAlive ----------------------------
(* KeepAlive with a history of whether anything but losses has gone wrong. *)
EXTENDS KeepAlive

VARIABLE calm       \* the VM was never restarted and the link never down

CalmSpec ==
    /\ calm = TRUE /\ Init
    /\ [][Next /\ calm' = (calm /\ ~Restart /\ ~Break)]_<<vars, calm>>

\* A link that loses a datagram now and then keeps its session: the pings alone
\* outlast both idle timeouts.
Stays == [][calm' /\ established => established' /\ session']_vars
=============================================================================
