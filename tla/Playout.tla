------------------------------ MODULE Playout -------------------------------
(***************************************************************************)
(* What the receiving side of a one-way stream promises a listener,        *)
(* whatever the network does to the packets: sound is heard in the order   *)
(* it was recorded, no piece of it twice, and never more than Cap frames   *)
(* behind the newest frame received.  Stream positions are counted in      *)
(* frames; Hush stands for silence and for concealment.                    *)
(***************************************************************************)
EXTENDS Integers

CONSTANT Cap        \* the largest lag, in frames, behind the newest frame

VARIABLES
    live,       \* a stream is being followed
    cursor,     \* position of the next frame to be heard
    end,        \* position after the newest frame known of
    heard       \* position of the frame heard last, or Hush

vars == <<live, cursor, end, heard>>

Hush == -1

Init ==
    /\ live = FALSE
    /\ cursor = 0
    /\ end = 0
    /\ heard = Hush

\* A cursor the listener may be at when the stream is known up to e.
WithinCap(c, e) == c <= e /\ e - c <= Cap

\* The first packet of a stream: nothing is known of what came before it.
Begin ==
    /\ ~live
    /\ live' = TRUE
    /\ cursor' \in Nat
    /\ end' \in Nat
    /\ WithinCap(cursor', end')
    /\ heard' = Hush

\* The stream grows; what is too old to be worth playing is skipped.
Extend ==
    /\ live
    /\ live' = TRUE
    /\ cursor' \in Nat
    /\ end' \in Nat
    /\ end < end'
    /\ cursor <= cursor'
    /\ WithinCap(cursor', end')
    /\ heard' \in {heard, Hush}

\* Some frames are played, or given up: the listener only moves forward.
Play ==
    /\ live
    /\ live' = TRUE
    /\ cursor' \in Nat
    /\ cursor <= cursor' /\ cursor' <= end
    /\ \/ heard' \in {heard, Hush}
       \/ cursor <= heard' /\ heard' < cursor'
    /\ end' = end

\* The stream is abandoned; positions mean nothing to the next one.
Stop ==
    /\ live' = FALSE
    /\ cursor' = 0
    /\ end' = 0
    /\ heard' = Hush

Next == Begin \/ Extend \/ Play \/ Stop

Spec == Init /\ [][Next]_vars
=============================================================================
