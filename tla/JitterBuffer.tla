---------------------------- MODULE JitterBuffer ----------------------------
(***************************************************************************)
(* proto::JitterBuffer: the receive-side buffer of one PCM stream.         *)
(*                                                                         *)
(* A frame is represented by its position in the sender's stream: packet n *)
(* carries the frames n * FramesPerPacket and on.  Concealment and silence *)
(* are Filler.  Time between frames is measured in Unit-ths, so `rate` and *)
(* `frac`, which are f64 in the code, are integers here.                   *)
(*                                                                         *)
(* push, pull and reset run under the buffer's mutex in every caller, so   *)
(* each is one action; the network task and the audio thread interleave    *)
(* between them.                                                           *)
(***************************************************************************)
EXTENDS SeqSpace, Sequences

CONSTANTS
    FramesPerPacket,    \* rate * frame_ms / 1000, at least 1
    RequestedFrames,    \* rate * target_ms / 1000
    Unit,               \* 1.0
    MaxDeviation,       \* MAX_RATE_DEVIATION, in Unit-ths
    DriftGain,          \* DRIFT_GAIN, in Unit-ths
    PacketIndex,        \* the packets a sender may have in flight
    PullSizes,          \* how many frames a device asks for at a time
    MaxPushes           \* bound on the packets accepted and rejected

ASSUME JitterAssumption ==
    /\ FramesPerPacket \in Nat \ {0}
    /\ RequestedFrames \in Nat
    /\ Unit \in Nat \ {0}
    /\ MaxDeviation \in Nat /\ MaxDeviation < Unit
    /\ DriftGain \in Nat
    /\ PacketIndex \subseteq Nat
    /\ PullSizes \subseteq Nat \ {0}

TargetFrames ==
    IF RequestedFrames > 2 * FramesPerPacket THEN RequestedFrames
                                             ELSE 2 * FramesPerPacket

MaxFrames ==
    IF 4 * TargetFrames > 8 * FramesPerPacket THEN 4 * TargetFrames
                                              ELSE 8 * FramesPerPacket

VARIABLES
    queue,      \* the buffered frames, oldest first
    prev,       \* the frame the interpolator read last
    frac,       \* where the interpolator stands between prev and Head(queue)
    rate,       \* the playback rate
    warming,    \* silent until the buffer has filled to target
    expected,   \* expected_seq
    stats,      \* the JitterStats counters
    next,       \* history: the index of the packet `expected` stands for
    origin      \* history: next - accepted - lost when the stream began

buffered == <<queue, prev, frac, rate, warming>>
vars == <<queue, prev, frac, rate, warming, expected, stats, next, origin>>

Filler == -1

Frames == {Filler} \cup Nat

Stats == [accepted : Nat, late : Nat, lost : Nat,
          underruns : Nat, overruns : Nat, resyncs : Nat]

Init ==
    /\ queue = <<>>
    /\ prev = Filler
    /\ frac = 0
    /\ rate = Unit
    /\ warming = TRUE
    /\ expected = NoSeq
    /\ stats = [accepted |-> 0, late |-> 0, lost |-> 0,
                underruns |-> 0, overruns |-> 0, resyncs |-> 0]
    /\ next = 0
    /\ origin = 0

-----------------------------------------------------------------------------
(* push *)

PacketFrames(n) == [i \in 1 .. FramesPerPacket |-> n * FramesPerPacket + i - 1]

\* conceal: filler for the packets a gap says are missing.  The mutant counts
\* the packet that arrived among them.
ConcealedShort(packets) == [i \in 1 .. (packets - 1) * FramesPerPacket |-> Filler]
Concealed(packets) == [i \in 1 .. packets * FramesPerPacket |-> Filler]

\* queue.drain(..count)
DropFirst(q, count) == SubSeq(q, count + 1, Len(q))

\* trim: past the cap, everything but the newest TargetFrames goes.  The
\* mutants make room for one packet only, and drop the newest frames.
ExcessOfOne(q) == IF Len(q) > MaxFrames THEN FramesPerPacket ELSE 0
Excess(q) == IF Len(q) > MaxFrames THEN Len(q) - TargetFrames ELSE 0
TrimmedNewest(q) == SubSeq(q, 1, Len(q) - Excess(q))
Trimmed(q) == DropFirst(q, Excess(q))

\* The end of every push that is not rejected: packet n goes in behind q,
\* which already holds the filler for the `missing` packets before n.
Accept(n, q, missing, restarts) ==
    LET full == q \o PacketFrames(n)
    IN  /\ queue' = Trimmed(full)
        /\ expected' = SeqOf(SeqOf(n) + 1)
        /\ stats' = [stats EXCEPT !.accepted = @ + 1,
                                  !.lost = @ + missing,
                                  !.overruns = @ + Excess(full),
                                  !.resyncs = @ + restarts]
        /\ next' = n + 1

\* The numbers only mean something to a receiver that is less than half the
\* sequence space away from the sender (248 days of 10 ms packets).
InWindow(n) ==
    expected # NoSeq => n - next >= -HalfSpace /\ n - next < HalfSpace

MayPush(n) ==
    /\ InWindow(n)
    /\ stats.accepted + stats.late < MaxPushes

PushFirst(n) ==
    /\ MayPush(n)
    /\ expected = NoSeq
    /\ Accept(n, queue, 0, 0)
    /\ origin' = n - stats.accepted - stats.lost
    /\ UNCHANGED <<prev, frac, rate, warming>>

\* "Already played through this slot, or a duplicate."
PushLate(n) ==
    /\ MayPush(n)
    /\ expected # NoSeq
    /\ IsLate(SeqOf(n), expected)
    /\ stats' = [stats EXCEPT !.late = @ + 1]
    /\ UNCHANGED <<buffered, expected, next, origin>>

\* What reset and underrun both leave behind.  The mutant keeps the frame
\* read last.
FallSilentKeepingPrev == prev' = prev /\ frac' = 0 /\ warming' = TRUE
FallSilent            == prev' = Filler /\ frac' = 0 /\ warming' = TRUE

\* A jump too far to conceal: start again from this packet.
PushRestart(n) ==
    /\ MayPush(n)
    /\ expected # NoSeq
    /\ IsRestart(SeqOf(n), expected)
    /\ Accept(n, <<>>, 0, 1)
    /\ FallSilent
    /\ rate' = Unit
    /\ origin' = n - stats.accepted - stats.lost

\* The packet that was due, or a later one: conceal what lies between.
PushInStep(n) ==
    LET missing == Delta(SeqOf(n), expected)
    IN  /\ MayPush(n)
        /\ expected # NoSeq
        /\ IsInStep(SeqOf(n), expected)
        /\ Accept(n, queue \o Concealed(missing), missing, 0)
        /\ UNCHANGED <<prev, frac, rate, warming, origin>>

Push(n) == PushFirst(n) \/ PushLate(n) \/ PushRestart(n) \/ PushInStep(n)

-----------------------------------------------------------------------------
(* pull *)

Clamped(x, lo, hi) == IF x < lo THEN lo ELSE IF x > hi THEN hi ELSE x

\* The rate that would bring the fill level back to target.
Desired ==
    Clamped(Unit + ((Len(queue) - TargetFrames) * DriftGain) \div TargetFrames,
            Unit - MaxDeviation, Unit + MaxDeviation)

\* What waking up from warming leaves in frac and rate.
WokenFrac == IF warming THEN 0 ELSE frac
WokenRate == IF warming THEN Unit ELSE rate

\* update_rate moves the rate some of the way to Desired: smoothing is left
\* open, anything between the two is allowed.
NextRates ==
    {r \in Unit - MaxDeviation .. Unit + MaxDeviation :
        \/ WokenRate <= r /\ r <= Desired
        \/ Desired <= r /\ r <= WokenRate}

\* The loop of pull in closed form.  At rate r, output frame k (from 1) is
\* interpolated after Consumed(k, r) input frames have been popped, and needs
\* one more at the head of the queue to interpolate towards.  The mutants wait
\* for more than a whole frame, and do without the one at the head.
Position(k, r) == WokenFrac + (k - 1) * r
ConsumedTooLate(k, r) ==
    IF Position(k, r) = 0 THEN 0 ELSE (Position(k, r) - 1) \div Unit
Consumed(k, r) == Position(k, r) \div Unit
RunsDryTooLate(k, r) == Consumed(k, r) > Len(queue)
RunsDry(k, r) == Consumed(k, r) >= Len(queue)

PullSilence ==
    /\ warming
    /\ Len(queue) < TargetFrames
    /\ UNCHANGED vars

Awake == ~warming \/ Len(queue) >= TargetFrames

PullFrames(k, r) ==
    LET used == Consumed(k, r)
    IN  /\ Awake
        /\ r \in NextRates
        /\ ~RunsDry(k, r)
        /\ queue' = DropFirst(queue, used)
        /\ prev' = IF used = 0 THEN prev ELSE queue[used]
        /\ frac' = Position(k, r) - used * Unit + r
        /\ rate' = r
        /\ warming' = FALSE
        /\ UNCHANGED <<expected, stats, next, origin>>

\* Ran dry on the way: fade out and warm up again.
PullUnderrun(k, r) ==
    /\ Awake
    /\ r \in NextRates
    /\ RunsDry(k, r)
    /\ queue' = <<>>
    /\ FallSilent
    /\ rate' = r
    /\ stats' = [stats EXCEPT !.underruns = @ + 1]
    /\ UNCHANGED <<expected, next, origin>>

Pull(k) ==
    \/ PullSilence
    \/ \E r \in NextRates : PullFrames(k, r) \/ PullUnderrun(k, r)

-----------------------------------------------------------------------------
\* The session ended, was replaced, or the device went away under its thread.
Reset ==
    /\ queue' = <<>>
    /\ FallSilent
    /\ rate' = Unit
    /\ expected' = NoSeq
    /\ next' = 0
    /\ origin' = 0
    /\ UNCHANGED stats

Next ==
    \/ \E n \in PacketIndex : Push(n)
    \/ \E k \in PullSizes : Pull(k)
    \/ Reset

Spec == Init /\ [][Next]_vars

-----------------------------------------------------------------------------
(* Properties *)

TypeOK ==
    /\ queue \in Seq(Frames)
    /\ prev \in Frames
    /\ frac \in 0 .. 2 * Unit + MaxDeviation - 1
    /\ rate \in Unit - MaxDeviation .. Unit + MaxDeviation
    /\ warming \in BOOLEAN
    /\ expected \in SeqNumbers \cup {NoSeq}
    /\ stats \in Stats
    /\ next \in Nat
    /\ origin \in Int

\* Stream positions: after the newest packet, and of the i-th frame of a
\* queue that reaches up to position e.
End == next * FramesPerPacket
PositionIn(q, e, i) == e - Len(q) + i - 1

Aligned(q, e) == \A i \in 1 .. Len(q) : q[i] \in {Filler, PositionIn(q, e, i)}

\* Concealment keeps time: every buffered frame sits where the sender put it,
\* or is filler standing in for one that was lost.  push, conceal, trim and
\* pull together must never shift the stream by a frame.
SlotAligned == Aligned(queue, End)

\* Latency is bounded: whatever a gap adds, no push leaves more than the hard
\* cap buffered (max_frames).
FillBounded == Len(queue) <= MaxFrames

\* "One packet is always held back as interpolator lookahead": the frame at
\* the head of the queue.  A buffer that plays is never empty, and one that
\* ran dry plays nothing until it has refilled.
LookaheadHeld ==
    /\ warming \/ queue # <<>>
    /\ warming => prev = Filler /\ frac = 0

\* What was read last lies before everything that is still buffered.
NothingReplayed ==
    prev # Filler => prev < End - Len(queue)

\* The counters tell the truth about the stream: since it began, every packet
\* up to the newest was either accepted or reported lost, never both.
LossAccounted ==
    expected # NoSeq => stats.accepted + stats.lost = next - origin

\* What ties the number the code keeps to the stream it stands for: before
\* the first packet the buffer is silent and empty, afterwards `expected` is
\* the number of the packet after the newest one.
StreamTracked ==
    IF expected = NoSeq
    THEN warming /\ queue = <<>>
    ELSE expected = SeqOf(next) /\ Len(queue) <= End

\* A packet is refused as late only when its slot is gone: played, dropped,
\* or already holding that packet.  JitterStats documents `late` as "packets
\* that arrived after their slot had already been played".
LateMeansPlayed ==
    [][\A n \in PacketIndex :
          PushLate(n) =>
              \A i \in 1 .. Len(queue) :
                  PositionIn(queue, End, i) \div FramesPerPacket = n
                  => queue[i] # Filler]_vars

\* What the listener hears is a playout of the stream in order.
Listener == INSTANCE Playout WITH
    Cap    <- MaxFrames,
    live   <- expected # NoSeq,
    cursor <- IF expected = NoSeq THEN 0 ELSE End - Len(queue),
    end    <- IF expected = NoSeq THEN 0 ELSE End,
    heard  <- prev

ListenerInOrder == Listener!Spec
=============================================================================
