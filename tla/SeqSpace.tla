------------------------------ MODULE SeqSpace ------------------------------
(***************************************************************************)
(* The circular space of packet sequence numbers (a u32 in the code) and   *)
(* what a receiver concludes from one number about the next.  Both the     *)
(* jitter buffer and the two ends of a session are built on these          *)
(* operators.                                                              *)
(***************************************************************************)
EXTENDS Integers

CONSTANTS
    HalfSpace,      \* 2^31 in the code: half of the sequence space
    ResyncGap       \* RESYNC_GAP_PACKETS

ASSUME SeqSpaceAssumption ==
    /\ HalfSpace \in Nat \ {0}
    /\ ResyncGap \in Nat
    /\ ResyncGap < HalfSpace

SeqMod == 2 * HalfSpace

SeqNumbers == 0 .. SeqMod - 1

NoSeq == -1         \* `None`: no packet seen since the last reset

\* The number the n-th packet of a stream carries: the sender's counter wraps.
SeqOf(n) == n % SeqMod

\* `as i32`; the mutant forgets it.
SignedNever(d) == d
Signed(d) == IF d < HalfSpace THEN d ELSE d - SeqMod

\* `seq.wrapping_sub(expected) as i32`; the mutant measures from the packet
\* before the expected one.
DeltaFromLast(seq, expected) == Signed((seq - expected + 1) % SeqMod)
Delta(seq, expected) == Signed((seq - expected) % SeqMod)

\* The three verdicts of push on a number once a first packet has been seen.
\* The mutant takes in a repeat of the newest packet.
IsLate(seq, expected)    == Delta(seq, expected) < 0
IsRestart(seq, expected) == Delta(seq, expected) > ResyncGap
IsInStepOrRepeat(seq, expected) == Delta(seq, expected) \in -1 .. ResyncGap
IsInStep(seq, expected)  == Delta(seq, expected) \in 0 .. ResyncGap
=============================================================================
