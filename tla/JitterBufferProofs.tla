------------------------- MODULE JitterBufferProofs -------------------------
(***************************************************************************)
(* The safety of the jitter buffer, for every packet size, target, cap,    *)
(* sequence space and pull size.                                           *)
(***************************************************************************)
EXTENDS JitterBuffer, SeqSpaceProofs, SequenceTheorems

-----------------------------------------------------------------------------
(* Sizes and positions *)

\* The sizes the constants have.
LEMMA Sizes ==
    /\ FramesPerPacket \in Nat /\ 0 < FramesPerPacket
    /\ TargetFrames \in Nat /\ 2 <= TargetFrames
    /\ MaxFrames \in Nat /\ TargetFrames <= MaxFrames
  BY JitterAssumption DEF TargetFrames, MaxFrames

\* Counting in packets or in frames comes to the same.
LEMMA Distributes ==
    ASSUME NEW a \in Int, NEW b \in Int
    PROVE  /\ a * FramesPerPacket \in Int
           /\ (a + b) * FramesPerPacket = a * FramesPerPacket + b * FramesPerPacket
           /\ (a + 1) * FramesPerPacket = a * FramesPerPacket + FramesPerPacket
           /\ a \in Nat => a * FramesPerPacket \in Nat
           /\ 0 < a => FramesPerPacket <= a * FramesPerPacket
  BY Sizes

-----------------------------------------------------------------------------
(* Operations on the queue *)

\* Dropping frames from the front leaves the others where they were.
LEMMA DropFirstKeepsSlots ==
    ASSUME NEW q \in Seq(Frames), NEW count \in 0 .. Len(q)
    PROVE  /\ DropFirst(q, count) \in Seq(Frames)
           /\ Len(DropFirst(q, count)) = Len(q) - count
           /\ \A e \in Int : Aligned(q, e) => Aligned(DropFirst(q, count), e)
  <1>1. Len(q) \in Nat /\ count \in Nat /\ count <= Len(q)
    BY LenProperties
  <1>2. \A i \in count + 1 .. Len(q) : q[i] \in Frames
    BY <1>1, ElementOfSeq
  <1> DEFINE d == DropFirst(q, count)
  <1>3. /\ d \in Seq(Frames)
        /\ Len(d) = IF count + 1 <= Len(q) THEN Len(q) - (count + 1) + 1 ELSE 0
        /\ \A i \in 1 .. Len(q) - (count + 1) + 1 : d[i] = q[count + 1 + i - 1]
    <2>1. count + 1 \in Int /\ Len(q) \in Int
      BY <1>1
    <2> QED
      BY <1>2, <2>1, SubSeqProperties DEF DropFirst
  <1> HIDE DEF d
  <1>4. Len(d) = Len(q) - count
    BY <1>1, <1>3
  <1>5. \A i \in 1 .. Len(d) : d[i] = q[i + count]
    BY <1>1, <1>3, <1>4
  <1>6. ASSUME NEW e \in Int, Aligned(q, e)
        PROVE  Aligned(d, e)
    <2> SUFFICES ASSUME NEW i \in 1 .. Len(d)
                 PROVE  d[i] \in {Filler, PositionIn(d, e, i)}
      BY DEF Aligned
    <2>1. i + count \in 1 .. Len(q)
      BY <1>1, <1>4
    <2>2. q[i + count] \in {Filler, PositionIn(q, e, i + count)}
      BY <1>6, <2>1 DEF Aligned
    <2>3. PositionIn(q, e, i + count) = PositionIn(d, e, i)
      BY <1>1, <1>4 DEF PositionIn
    <2> QED
      BY <1>5, <2>2, <2>3
  <1> QED
    BY <1>3, <1>4, <1>6 DEF d

\* Trimming bounds the queue, never empties it and moves nothing.
LEMMA TrimBounds ==
    ASSUME NEW q \in Seq(Frames)
    PROVE  /\ Excess(q) \in Nat
           /\ Trimmed(q) \in Seq(Frames)
           /\ Len(Trimmed(q)) \in Nat
           /\ Len(Trimmed(q)) <= Len(q)
           /\ Len(Trimmed(q)) <= MaxFrames
           /\ 0 < Len(q) => 0 < Len(Trimmed(q))
           /\ \A e \in Int : Aligned(q, e) => Aligned(Trimmed(q), e)
  <1>1. Len(q) \in Nat
    BY LenProperties
  <1>2. Excess(q) \in 0 .. Len(q)
    BY <1>1, Sizes DEF Excess
  <1>3. Len(Trimmed(q)) = Len(q) - Excess(q)
    BY <1>2, DropFirstKeepsSlots DEF Trimmed
  <1>4. /\ Trimmed(q) \in Seq(Frames)
        /\ \A e \in Int : Aligned(q, e) => Aligned(Trimmed(q), e)
    BY <1>2, DropFirstKeepsSlots DEF Trimmed
  <1>5. /\ Len(q) - Excess(q) <= MaxFrames
        /\ 0 < Len(q) => 0 < Len(q) - Excess(q)
    BY <1>1, Sizes DEF Excess
  <1> QED
    BY <1>1, <1>2, <1>3, <1>4, <1>5

\* A packet continues a queue that reaches up to it.
LEMMA AppendKeepsSlots ==
    ASSUME NEW q \in Seq(Frames), NEW n \in Nat,
           Aligned(q, n * FramesPerPacket)
    PROVE  LET full == q \o PacketFrames(n)
           IN  /\ full \in Seq(Frames)
               /\ Len(full) = Len(q) + FramesPerPacket
               /\ Aligned(full, (n + 1) * FramesPerPacket)
  <1> DEFINE p == PacketFrames(n)
             full == q \o p
             base == n * FramesPerPacket
  <1>1. base \in Nat /\ (n + 1) * FramesPerPacket = base + FramesPerPacket
    BY Distributes
  <1> HIDE DEF base
  <1>2. /\ p \in Seq(Frames)
        /\ Len(p) = FramesPerPacket
        /\ \A i \in 1 .. FramesPerPacket : p[i] = base + i - 1
    <2>1. \A i \in 1 .. FramesPerPacket : base + i - 1 \in Frames
      BY <1>1, Sizes DEF Frames
    <2>2. p = [i \in 1 .. FramesPerPacket |-> base + i - 1]
      BY DEF PacketFrames, base
    <2>3. p \in [1 .. FramesPerPacket -> Frames]
      BY <2>1, <2>2
    <2> QED
      BY <2>2, <2>3, Sizes
  <1>3. Len(q) \in Nat
    BY LenProperties
  <1> HIDE DEF p
  <1>4. /\ full \in Seq(Frames)
        /\ Len(full) = Len(q) + FramesPerPacket
        /\ \A i \in 1 .. Len(q) + FramesPerPacket :
              full[i] = IF i <= Len(q) THEN q[i] ELSE p[i - Len(q)]
    BY <1>2, ConcatProperties
  <1> HIDE DEF full
  <1>5. Aligned(full, base + FramesPerPacket)
    <2> SUFFICES ASSUME NEW i \in 1 .. Len(full)
                 PROVE  full[i] \in {Filler, PositionIn(full, base + FramesPerPacket, i)}
      BY DEF Aligned
    <2>1. PositionIn(full, base + FramesPerPacket, i) = base - Len(q) + i - 1
      BY <1>1, <1>3, <1>4, Sizes DEF PositionIn
    <2>2. CASE i <= Len(q)
      <3>1. q[i] \in {Filler, PositionIn(q, base, i)}
        BY <1>3, <2>2 DEF Aligned, base
      <3> QED
        BY <1>4, <2>1, <2>2, <3>1 DEF PositionIn
    <2>3. CASE i > Len(q)
      <3>1. i - Len(q) \in 1 .. FramesPerPacket
        BY <1>3, <1>4, <2>3, Sizes
      <3>2. full[i] = base + (i - Len(q)) - 1
        BY <1>2, <1>3, <1>4, <2>3, <3>1
      <3> QED
        BY <1>1, <1>3, <2>1, <3>1, <3>2
    <2> QED
      BY <1>3, <2>2, <2>3
  <1> QED
    BY <1>1, <1>4, <1>5 DEF full, p

\* Filler for m packets moves the end of the queue by exactly m packets.
LEMMA ConcealKeepsSlots ==
    ASSUME NEW q \in Seq(Frames), NEW m \in Nat, NEW e \in Int,
           Aligned(q, e)
    PROVE  LET full == q \o Concealed(m)
           IN  /\ full \in Seq(Frames)
               /\ Len(full) = Len(q) + m * FramesPerPacket
               /\ Aligned(full, e + m * FramesPerPacket)
  <1> DEFINE size == m * FramesPerPacket
             p == Concealed(m)
             full == q \o p
  <1>1. size \in Nat
    <2>1. m \in Int
      OBVIOUS
    <2> QED
      BY <2>1, Distributes
  <1> HIDE DEF size
  <1>2. /\ p \in Seq(Frames)
        /\ Len(p) = size
        /\ \A i \in 1 .. size : p[i] = Filler
    <2>1. p = [i \in 1 .. size |-> Filler]
      BY DEF Concealed, size
    <2>2. p \in [1 .. size -> Frames]
      BY <2>1 DEF Frames
    <2> QED
      BY <1>1, <2>1, <2>2
  <1>3. Len(q) \in Nat
    BY LenProperties
  <1> HIDE DEF p
  <1>4. /\ full \in Seq(Frames)
        /\ Len(full) = Len(q) + size
        /\ \A i \in 1 .. Len(q) + size :
              full[i] = IF i <= Len(q) THEN q[i] ELSE p[i - Len(q)]
    BY <1>2, ConcatProperties
  <1> HIDE DEF full
  <1>5. Aligned(full, e + size)
    <2> SUFFICES ASSUME NEW i \in 1 .. Len(full)
                 PROVE  full[i] \in {Filler, PositionIn(full, e + size, i)}
      BY DEF Aligned
    <2>1. PositionIn(full, e + size, i) = e - Len(q) + i - 1
      BY <1>1, <1>3, <1>4 DEF PositionIn
    <2>2. CASE i <= Len(q)
      <3>1. q[i] \in {Filler, PositionIn(q, e, i)}
        BY <1>3, <2>2 DEF Aligned
      <3> QED
        BY <1>4, <2>1, <2>2, <3>1 DEF PositionIn
    <2>3. CASE i > Len(q)
      BY <1>1, <1>2, <1>3, <1>4, <2>3
    <2> QED
      BY <1>3, <2>2, <2>3
  <1> QED
    BY <1>4, <1>5 DEF full, p, size

-----------------------------------------------------------------------------
(* push *)

\* What every accepted packet leaves behind, whatever went into q before it.
LEMMA AcceptEffect ==
    ASSUME NEW n \in Nat, NEW q \in Seq(Frames), NEW missing \in Nat,
           NEW restarts \in Nat, stats \in Stats,
           Aligned(q, n * FramesPerPacket),
           Accept(n, q, missing, restarts)
    PROVE  /\ queue' \in Seq(Frames)
           /\ Len(queue') \in Nat /\ 0 < Len(queue')
           /\ Len(queue') <= MaxFrames
           /\ Len(queue') <= Len(q) + FramesPerPacket
           /\ SlotAligned'
           /\ next' = n + 1
           /\ End' = n * FramesPerPacket + FramesPerPacket
           /\ expected' = SeqOf(next')
           /\ expected' \in SeqNumbers /\ expected' # NoSeq
           /\ stats' \in Stats
           /\ stats'.accepted = stats.accepted + 1
           /\ stats'.lost = stats.lost + missing
  <1> DEFINE full == q \o PacketFrames(n)
  <1>1. /\ full \in Seq(Frames)
        /\ Len(full) = Len(q) + FramesPerPacket
        /\ Aligned(full, (n + 1) * FramesPerPacket)
    BY AppendKeepsSlots
  <1>2. Len(q) \in Nat
    BY LenProperties
  <1>3. /\ queue' = Trimmed(full)
        /\ expected' = SeqOf(SeqOf(n) + 1)
        /\ stats' = [stats EXCEPT !.accepted = @ + 1,
                                  !.lost = @ + missing,
                                  !.overruns = @ + Excess(full),
                                  !.resyncs = @ + restarts]
        /\ next' = n + 1
    BY DEF Accept
  <1> HIDE DEF full
  <1>4. n \in Int /\ n + 1 \in Int
    OBVIOUS
  <1>5. /\ n * FramesPerPacket \in Int
        /\ (n + 1) * FramesPerPacket = n * FramesPerPacket + FramesPerPacket
        /\ (n + 1) * FramesPerPacket \in Int
    BY <1>4, Distributes
  <1>6. /\ queue' \in Seq(Frames)
        /\ Len(queue') \in Nat /\ 0 < Len(queue')
        /\ Len(queue') <= MaxFrames
        /\ Len(queue') <= Len(q) + FramesPerPacket
        /\ Aligned(queue', (n + 1) * FramesPerPacket)
        /\ Excess(full) \in Nat
    <2>1. 0 < Len(full) /\ Len(full) = Len(q) + FramesPerPacket
      BY <1>1, <1>2, Sizes
    <2>2. /\ Trimmed(full) \in Seq(Frames)
          /\ Len(Trimmed(full)) \in Nat /\ 0 < Len(Trimmed(full))
          /\ Len(Trimmed(full)) <= MaxFrames
          /\ Len(Trimmed(full)) <= Len(full)
          /\ Aligned(Trimmed(full), (n + 1) * FramesPerPacket)
          /\ Excess(full) \in Nat
      BY <1>1, <1>5, <2>1, TrimBounds
    <2> QED
      BY <1>3, <2>1, <2>2
  <1>7. End' = (n + 1) * FramesPerPacket /\ SlotAligned'
    BY <1>3, <1>6 DEF End, SlotAligned
  <1>8. /\ expected' = SeqOf(next')
        /\ expected' \in SeqNumbers /\ expected' # NoSeq
    BY <1>3, <1>4, SeqOfSuccessor, SeqOfType
  <1>9. /\ stats' \in Stats
        /\ stats'.accepted = stats.accepted + 1
        /\ stats'.lost = stats.lost + missing
    <2>1. stats' = [accepted  |-> stats.accepted + 1,
                    late      |-> stats.late,
                    lost      |-> stats.lost + missing,
                    underruns |-> stats.underruns,
                    overruns  |-> stats.overruns + Excess(full),
                    resyncs   |-> stats.resyncs + restarts]
      BY <1>3 DEF Stats
    <2>2. stats.accepted + 1 \in Nat /\ stats.late \in Nat
      BY DEF Stats
    <2>3. stats.lost + missing \in Nat /\ stats.underruns \in Nat
      BY DEF Stats
    <2>4. stats.overruns + Excess(full) \in Nat
      BY <1>6 DEF Stats
    <2>5. stats.resyncs + restarts \in Nat
      BY DEF Stats
    <2>6. stats' \in Stats
      BY <2>1, <2>2, <2>3, <2>4, <2>5 DEF Stats
    <2> QED
      BY <2>1, <2>6
  <1> QED
    BY <1>3, <1>5, <1>6, <1>7, <1>8, <1>9

\* The same for a packet that starts a stream: nothing lies in front of it.
LEMMA AcceptFresh ==
    ASSUME NEW n \in Nat, NEW restarts \in Nat, stats \in Stats,
           Accept(n, <<>>, 0, restarts)
    PROVE  /\ queue' \in Seq(Frames)
           /\ Len(queue') \in Nat /\ 0 < Len(queue')
           /\ Len(queue') <= MaxFrames
           /\ Len(queue') <= FramesPerPacket
           /\ SlotAligned'
           /\ next' = n + 1
           /\ End' = n * FramesPerPacket + FramesPerPacket
           /\ expected' = SeqOf(next')
           /\ expected' \in SeqNumbers /\ expected' # NoSeq
           /\ stats' \in Stats
           /\ stats'.accepted = stats.accepted + 1
           /\ stats'.lost = stats.lost
  <1>1. <<>> \in Seq(Frames) /\ Len(<<>>) = 0
    BY EmptySeq
  <1>2. Aligned(<<>>, n * FramesPerPacket)
    BY <1>1 DEF Aligned
  <1>3. stats.lost + 0 = stats.lost
    BY DEF Stats
  <1>4. Len(<<>>) + FramesPerPacket = FramesPerPacket
    BY <1>1, Sizes
  <1>5. 0 \in Nat
    OBVIOUS
  <1>6. /\ queue' \in Seq(Frames)
        /\ Len(queue') \in Nat /\ 0 < Len(queue')
        /\ Len(queue') <= MaxFrames
        /\ Len(queue') <= Len(<<>>) + FramesPerPacket
        /\ SlotAligned'
        /\ next' = n + 1
        /\ End' = n * FramesPerPacket + FramesPerPacket
        /\ expected' = SeqOf(next')
        /\ expected' \in SeqNumbers /\ expected' # NoSeq
        /\ stats' \in Stats
        /\ stats'.accepted = stats.accepted + 1
        /\ stats'.lost = stats.lost + 0
    BY <1>1, <1>2, <1>5, AcceptEffect
  <1> QED
    BY <1>3, <1>4, <1>6

-----------------------------------------------------------------------------
(* pull *)

\* Reading k frames at an allowed rate leaves the interpolator within two
\* input frames of prev.
LEMMA ReadPosition ==
    ASSUME TypeOK, NEW k \in PullSizes, NEW r \in NextRates
    PROVE  /\ r \in Unit - MaxDeviation .. Unit + MaxDeviation
           /\ Consumed(k, r) \in Nat
           /\ Position(k, r) - Consumed(k, r) * Unit + r
                  \in 0 .. 2 * Unit + MaxDeviation - 1
  <1>1. Unit \in Nat /\ 0 < Unit /\ MaxDeviation \in Nat /\ MaxDeviation < Unit
    BY JitterAssumption
  <1>2. r \in Unit - MaxDeviation .. Unit + MaxDeviation
    BY DEF NextRates
  <1>3. k - 1 \in Nat /\ r \in Nat
    BY <1>1, <1>2, JitterAssumption
  <1>4. (k - 1) * r \in Nat
    BY <1>3
  <1>5. WokenFrac \in Nat
    BY <1>1 DEF TypeOK, WokenFrac
  <1> DEFINE p == Position(k, r)
  <1>6. p \in Nat
    BY <1>4, <1>5 DEF Position
  <1> HIDE DEF p
  <1>7. /\ p \div Unit \in Nat
        /\ p - (p \div Unit) * Unit \in 0 .. Unit - 1
    BY <1>1, <1>6
  <1>8. p - (p \div Unit) * Unit + r \in 0 .. 2 * Unit + MaxDeviation - 1
    <2> DEFINE x == p - (p \div Unit) * Unit
    <2>1. x \in 0 .. Unit - 1
      BY <1>7
    <2> HIDE DEF x
    <2>2. x + r \in 0 .. 2 * Unit + MaxDeviation - 1
      BY <1>1, <1>2, <2>1
    <2> QED
      BY <2>2 DEF x
  <1> QED
    BY <1>2, <1>7, <1>8 DEF Consumed, p

-----------------------------------------------------------------------------
(* The inductive invariant *)

IInv ==
    /\ TypeOK
    /\ SlotAligned
    /\ FillBounded
    /\ LookaheadHeld
    /\ NothingReplayed
    /\ LossAccounted
    /\ StreamTracked

\* A new buffer satisfies the invariant.
LEMMA InitEstablishes == Init => IInv
  <1> SUFFICES ASSUME Init PROVE IInv
    OBVIOUS
  <1>1. Unit \in Nat /\ 0 < Unit /\ MaxDeviation \in Nat
    BY JitterAssumption
  <1>2. queue = <<>> /\ queue \in Seq(Frames) /\ Len(queue) = 0
    BY EmptySeq DEF Init
  <1>3. TypeOK
    BY <1>1, <1>2 DEF Init, TypeOK, Frames, Filler, Stats, NoSeq
  <1>4. SlotAligned
    BY <1>2 DEF SlotAligned, Aligned
  <1>5. FillBounded
    BY <1>2, Sizes DEF FillBounded
  <1> QED
    BY <1>3, <1>4, <1>5 DEF Init, IInv, LookaheadHeld, NothingReplayed,
                            LossAccounted, StreamTracked

\* An empty buffer that waits to warm up satisfies every part that speaks of
\* its contents.
LEMMA SilentBuffer ==
    ASSUME queue' = <<>>, prev' = Filler, frac' = 0, warming' = TRUE
    PROVE  /\ queue' \in Seq(Frames)
           /\ Len(queue') = 0
           /\ prev' \in Frames
           /\ frac' \in 0 .. 2 * Unit + MaxDeviation - 1
           /\ SlotAligned' /\ FillBounded' /\ LookaheadHeld' /\ NothingReplayed'
  <1>1. queue' \in Seq(Frames) /\ Len(queue') = 0
    BY EmptySeq
  <1>2. Unit \in Nat /\ 0 < Unit /\ MaxDeviation \in Nat
    BY JitterAssumption
  <1>3. SlotAligned'
    BY <1>1 DEF SlotAligned, Aligned
  <1> QED
    BY <1>1, <1>2, <1>3, Sizes DEF Frames, FillBounded, LookaheadHeld, NothingReplayed

\* The first packet of a stream.
LEMMA PushFirstPreserves ==
    ASSUME IInv, NEW n \in PacketIndex, PushFirst(n)
    PROVE  IInv'
  <1>1. n \in Nat
    BY JitterAssumption
  <1>2. /\ queue = <<>> /\ warming /\ prev = Filler /\ frac = 0
        /\ queue \in Seq(Frames) /\ Len(queue) = 0 /\ stats \in Stats
    BY EmptySeq DEF IInv, TypeOK, StreamTracked, LookaheadHeld, PushFirst
  <1>3. Accept(n, <<>>, 0, 0)
    BY <1>2 DEF PushFirst
  <1>4. /\ queue' \in Seq(Frames)
        /\ Len(queue') \in Nat /\ 0 < Len(queue')
        /\ Len(queue') <= MaxFrames
        /\ Len(queue') <= FramesPerPacket
        /\ SlotAligned'
        /\ next' = n + 1
        /\ End' = n * FramesPerPacket + FramesPerPacket
        /\ expected' = SeqOf(next')
        /\ expected' \in SeqNumbers /\ expected' # NoSeq
        /\ stats' \in Stats
        /\ stats'.accepted = stats.accepted + 1
        /\ stats'.lost = stats.lost
    BY <1>1, <1>2, <1>3, AcceptFresh
  <1>5. origin' = n - stats.accepted - stats.lost
    BY DEF PushFirst
  <1>6. /\ stats.accepted \in Nat /\ stats.lost \in Nat
    BY <1>2 DEF Stats
  <1>7. TypeOK'
    BY <1>1, <1>4, <1>5, <1>6 DEF IInv, TypeOK, PushFirst
  <1>8. LossAccounted'
    <2>1. stats'.accepted = stats.accepted + 1 /\ stats'.lost = stats.lost /\ next' = n + 1
      BY <1>4
    <2> QED
      BY <1>1, <1>5, <1>6, <2>1 DEF LossAccounted
  <1>9. StreamTracked'
    BY <1>1, <1>4, Distributes, Sizes DEF StreamTracked
  <1>10. LookaheadHeld' /\ NothingReplayed'
    BY <1>2 DEF PushFirst, LookaheadHeld, NothingReplayed
  <1> QED
    BY <1>4, <1>7, <1>8, <1>9, <1>10 DEF IInv, FillBounded

\* A packet that is refused changes a counter only.
LEMMA PushLatePreserves ==
    ASSUME IInv, NEW n \in PacketIndex, PushLate(n)
    PROVE  IInv'
  <1>1. stats \in Stats
    BY DEF IInv, TypeOK
  <1>2. /\ stats' \in Stats
        /\ stats'.accepted = stats.accepted
        /\ stats'.lost = stats.lost
    BY <1>1 DEF PushLate, Stats
  <1>3. UNCHANGED <<queue, prev, frac, rate, warming, expected, next, origin>>
    BY DEF PushLate, buffered
  <1> QED
    BY <1>2, <1>3 DEF IInv, TypeOK, SlotAligned, Aligned, PositionIn, End, FillBounded,
                      LookaheadHeld, NothingReplayed, LossAccounted, StreamTracked

\* A jump too far to conceal starts a new stream.
LEMMA PushRestartPreserves ==
    ASSUME IInv, NEW n \in PacketIndex, PushRestart(n)
    PROVE  IInv'
  <1>1. n \in Nat
    BY JitterAssumption
  <1>2. stats \in Stats /\ stats.accepted \in Nat /\ stats.lost \in Nat
    BY DEF IInv, TypeOK, Stats
  <1>3. Accept(n, <<>>, 0, 1)
    BY DEF PushRestart, FallSilent
  <1>4. /\ queue' \in Seq(Frames)
        /\ Len(queue') \in Nat /\ 0 < Len(queue')
        /\ Len(queue') <= MaxFrames
        /\ Len(queue') <= FramesPerPacket
        /\ SlotAligned'
        /\ next' = n + 1
        /\ End' = n * FramesPerPacket + FramesPerPacket
        /\ expected' = SeqOf(next')
        /\ expected' \in SeqNumbers /\ expected' # NoSeq
        /\ stats' \in Stats
        /\ stats'.accepted = stats.accepted + 1
        /\ stats'.lost = stats.lost
    BY <1>1, <1>2, <1>3, AcceptFresh
  <1>5. /\ origin' = n - stats.accepted - stats.lost
        /\ prev' = Filler /\ frac' = 0 /\ rate' = Unit /\ warming' = TRUE
    BY DEF PushRestart, FallSilent
  <1>6. Unit \in Nat /\ 0 < Unit /\ MaxDeviation \in Nat
    BY JitterAssumption
  <1>7. TypeOK'
    BY <1>1, <1>2, <1>4, <1>5, <1>6 DEF TypeOK, Frames
  <1>8. LossAccounted'
    <2>1. stats'.accepted = stats.accepted + 1 /\ stats'.lost = stats.lost /\ next' = n + 1
      BY <1>4
    <2> QED
      BY <1>1, <1>2, <1>5, <2>1 DEF LossAccounted
  <1>9. StreamTracked'
    BY <1>1, <1>4, Distributes, Sizes DEF StreamTracked
  <1>10. LookaheadHeld' /\ NothingReplayed'
    BY <1>5 DEF LookaheadHeld, NothingReplayed
  <1> QED
    BY <1>4, <1>7, <1>8, <1>9, <1>10 DEF IInv, FillBounded

\* A packet that was due, or a gap before it filled in.
LEMMA PushInStepPreserves ==
    ASSUME IInv, NEW n \in PacketIndex, PushInStep(n)
    PROVE  IInv' /\ End < End' /\ End - Len(queue) <= End' - Len(queue')
  <1> DEFINE missing == Delta(SeqOf(n), expected)
             filled == queue \o Concealed(missing)
  <1>1. n \in Nat /\ next \in Nat /\ HalfSpace \in Nat
    BY JitterAssumption, SeqSpaceAssumption DEF IInv, TypeOK
  <1>2. /\ expected # NoSeq /\ expected = SeqOf(next) /\ Len(queue) <= End
        /\ -HalfSpace <= n - next /\ n - next < HalfSpace
    BY <1>1 DEF IInv, StreamTracked, PushInStep, MayPush, InWindow
  <1>3. missing = n - next /\ missing \in Nat
    <2>1. missing = n - next
      BY <1>1, <1>2, DeltaIsDistance
    <2>2. missing \in 0 .. ResyncGap
      BY DEF PushInStep, IsInStep
    <2> QED
      BY <2>1, <2>2, SeqSpaceAssumption
  <1>4. Accept(n, filled, missing, 0)
    BY DEF PushInStep
  <1> HIDE DEF missing
  <1>5. queue \in Seq(Frames) /\ Len(queue) \in Nat /\ stats \in Stats
    BY LenProperties DEF IInv, TypeOK
  <1>6. /\ End \in Int /\ missing * FramesPerPacket \in Nat
        /\ n * FramesPerPacket = End + missing * FramesPerPacket
        /\ n * FramesPerPacket \in Int
    <2>1. missing \in Int /\ next \in Int /\ n = next + missing
      BY <1>1, <1>3
    <2>2. /\ next * FramesPerPacket \in Int
          /\ (next + missing) * FramesPerPacket
                 = next * FramesPerPacket + missing * FramesPerPacket
          /\ missing * FramesPerPacket \in Nat
      BY <1>3, <2>1, Distributes
    <2> QED
      BY <2>1, <2>2 DEF End
  <1>7. /\ filled \in Seq(Frames)
        /\ Len(filled) = Len(queue) + missing * FramesPerPacket
        /\ Aligned(filled, n * FramesPerPacket)
    <2>1. Aligned(queue, End)
      BY DEF IInv, SlotAligned
    <2> QED
      BY <1>3, <1>5, <1>6, <2>1, ConcealKeepsSlots
  <1> HIDE DEF filled
  <1>8. /\ queue' \in Seq(Frames)
        /\ Len(queue') \in Nat /\ 0 < Len(queue')
        /\ Len(queue') <= MaxFrames
        /\ Len(queue') <= Len(filled) + FramesPerPacket
        /\ SlotAligned'
        /\ next' = n + 1
        /\ End' = n * FramesPerPacket + FramesPerPacket
        /\ expected' = SeqOf(next')
        /\ expected' \in SeqNumbers /\ expected' # NoSeq
        /\ stats' \in Stats
        /\ stats'.accepted = stats.accepted + 1
        /\ stats'.lost = stats.lost + missing
    BY <1>1, <1>3, <1>4, <1>5, <1>7, AcceptEffect
  <1>9. UNCHANGED <<prev, frac, rate, warming, origin>>
    BY DEF PushInStep
  <1>10. End < End' /\ End - Len(queue) <= End' - Len(queue') /\ Len(queue') <= End'
    <2> DEFINE gap == missing * FramesPerPacket
    <2>1. gap \in Nat /\ End' = End + gap + FramesPerPacket
      BY <1>6, <1>8
    <2>2. /\ FramesPerPacket \in Nat \ {0}
          /\ Len(queue') <= Len(queue) + gap + FramesPerPacket
      BY <1>7, <1>8, Sizes
    <2>3. End \in Int /\ Len(queue) \in Nat /\ Len(queue) <= End
      BY <1>2, <1>5, <1>6
    <2>4. Len(queue') \in Nat
      BY <1>8
    <2> HIDE DEF gap
    <2> QED
      BY <2>1, <2>2, <2>3, <2>4
  <1>11. TypeOK'
    BY <1>1, <1>8, <1>9 DEF IInv, TypeOK
  <1>12. LossAccounted'
    <2>1. stats.accepted + stats.lost = next - origin
      BY <1>2 DEF IInv, LossAccounted
    <2>2. stats.accepted \in Nat /\ stats.lost \in Nat /\ origin \in Int
      BY DEF IInv, TypeOK, Stats
    <2>3. /\ next' = n + 1 /\ origin' = origin
          /\ stats'.accepted = stats.accepted + 1
          /\ stats'.lost = stats.lost + missing
      BY <1>8, <1>9
    <2>4. stats'.accepted + stats'.lost = next' - origin'
      BY <1>1, <1>3, <2>1, <2>2, <2>3
    <2> QED
      BY <2>4 DEF LossAccounted
  <1>13. LookaheadHeld'
    <2>1. queue' # <<>>
      BY <1>8, EmptySeq
    <2> QED
      BY <1>9, <2>1 DEF IInv, LookaheadHeld
  <1>14. NothingReplayed'
    <2>1. prev = Filler \/ prev < End - Len(queue)
      BY DEF IInv, NothingReplayed
    <2>2. prev \in Int
      BY DEF IInv, TypeOK, Frames, Filler
    <2>3. End' \in Int
      BY <1>6, <1>8, Sizes
    <2> QED
      BY <1>5, <1>6, <1>8, <1>9, <1>10, <2>1, <2>2, <2>3 DEF NothingReplayed
  <1> QED
    BY <1>8, <1>10, <1>11, <1>12, <1>13, <1>14 DEF IInv, FillBounded, StreamTracked

\* A buffer that is awake follows a stream.
LEMMA AwakeIsLive ==
    ASSUME IInv, Awake
    PROVE  expected # NoSeq
  <1> SUFFICES ASSUME expected = NoSeq PROVE FALSE
    OBVIOUS
  <1>1. warming /\ queue = <<>> /\ Len(queue) = 0
    BY EmptySeq DEF IInv, StreamTracked
  <1> QED
    BY <1>1, Sizes DEF Awake

\* A device gets all the frames it asked for.
LEMMA PullFramesPreserves ==
    ASSUME IInv, NEW k \in PullSizes, NEW r \in NextRates, PullFrames(k, r)
    PROVE  /\ IInv'
           /\ End' = End /\ End - Len(queue) <= End' - Len(queue')
           /\ \/ prev' = prev
              \/ prev' = Filler
              \/ End - Len(queue) <= prev' /\ prev' < End' - Len(queue')
           /\ expected # NoSeq
  <1> DEFINE used == Consumed(k, r)
  <1>1. /\ used \in Nat
        /\ r \in Unit - MaxDeviation .. Unit + MaxDeviation
        /\ frac' \in 0 .. 2 * Unit + MaxDeviation - 1
    BY ReadPosition DEF IInv, PullFrames
  <1>2. /\ Awake
        /\ used < Len(queue)
        /\ queue' = DropFirst(queue, used)
        /\ prev' = IF used = 0 THEN prev ELSE queue[used]
        /\ rate' = r /\ warming' = FALSE
        /\ UNCHANGED <<expected, stats, next, origin>>
    <2>1. used \in Int /\ Len(queue) \in Int
      BY <1>1, LenProperties DEF IInv, TypeOK
    <2> QED
      BY <2>1 DEF PullFrames, RunsDry
  <1> HIDE DEF used
  <1>3. queue \in Seq(Frames) /\ Len(queue) \in Nat
    BY LenProperties DEF IInv, TypeOK
  <1>4. expected # NoSeq /\ expected = SeqOf(next) /\ Len(queue) <= End
    BY <1>2, AwakeIsLive DEF IInv, StreamTracked
  <1>5. End \in Int /\ End' = End
    <2>1. next \in Int
      BY DEF IInv, TypeOK
    <2> QED
      BY <1>2, <2>1, Distributes DEF End
  <1>6. /\ queue' \in Seq(Frames)
        /\ Len(queue') = Len(queue) - used
        /\ Aligned(queue', End)
    <2>1. used \in 0 .. Len(queue)
      BY <1>1, <1>2, <1>3
    <2>2. Aligned(queue, End)
      BY DEF IInv, SlotAligned
    <2> QED
      BY <1>2, <1>3, <1>5, <2>1, <2>2, DropFirstKeepsSlots
  <1>7. /\ prev' \in Frames
        /\ \/ prev' = prev
           \/ prev' = Filler
           \/ End - Len(queue) <= prev' /\ prev' < End - Len(queue')
    <2>1. CASE used = 0
      BY <1>2, <2>1 DEF IInv, TypeOK
    <2>2. CASE used # 0
      <3>1. used \in 1 .. Len(queue)
        BY <1>1, <1>2, <1>3, <2>2
      <3>2. queue[used] \in Frames
        BY <1>3, <3>1, ElementOfSeq
      <3>3. queue[used] \in {Filler, End - Len(queue) + used - 1}
        BY <3>1 DEF IInv, SlotAligned, Aligned, PositionIn
      <3> QED
        BY <1>2, <1>3, <1>5, <1>6, <2>2, <3>1, <3>2, <3>3
    <2> QED
      BY <2>1, <2>2
  <1>8. TypeOK'
    BY <1>1, <1>2, <1>6, <1>7 DEF IInv, TypeOK
  <1>9. SlotAligned'
    BY <1>5, <1>6 DEF SlotAligned
  <1>10. FillBounded'
    BY <1>1, <1>3, <1>6, Sizes DEF IInv, FillBounded
  <1>11. LookaheadHeld'
    <2>1. 0 < Len(queue')
      BY <1>1, <1>2, <1>3, <1>6
    <2>2. queue' # <<>>
      BY <2>1, <1>6, EmptySeq
    <2> QED
      BY <1>2, <2>2 DEF LookaheadHeld
  <1>12. NothingReplayed'
    <2>1. prev = Filler \/ prev < End - Len(queue)
      BY DEF IInv, NothingReplayed
    <2>2. prev \in Int
      BY DEF IInv, TypeOK, Frames, Filler
    <2> QED
      BY <1>1, <1>3, <1>5, <1>6, <1>7, <2>1, <2>2 DEF NothingReplayed
  <1>13. LossAccounted'
    BY <1>2 DEF IInv, LossAccounted
  <1>14. StreamTracked'
    BY <1>1, <1>2, <1>3, <1>4, <1>5, <1>6 DEF StreamTracked
  <1>15. End - Len(queue) <= End' - Len(queue')
    BY <1>1, <1>3, <1>5, <1>6
  <1> QED
    BY <1>4, <1>5, <1>7, <1>8, <1>9, <1>10, <1>11, <1>12, <1>13, <1>14, <1>15 DEF IInv

\* A device asks for more than there is.
LEMMA PullUnderrunPreserves ==
    ASSUME IInv, NEW k \in PullSizes, NEW r \in NextRates, PullUnderrun(k, r)
    PROVE  IInv' /\ expected # NoSeq
  <1>1. /\ Awake
        /\ queue' = <<>> /\ prev' = Filler /\ frac' = 0 /\ warming' = TRUE
        /\ rate' = r
        /\ UNCHANGED <<expected, next, origin>>
    BY DEF PullUnderrun, FallSilent
  <1>2. /\ queue' \in Seq(Frames)
        /\ Len(queue') = 0
        /\ prev' \in Frames
        /\ frac' \in 0 .. 2 * Unit + MaxDeviation - 1
        /\ SlotAligned' /\ FillBounded' /\ LookaheadHeld' /\ NothingReplayed'
    BY <1>1, SilentBuffer
  <1>3. r \in Unit - MaxDeviation .. Unit + MaxDeviation
    BY DEF NextRates
  <1>4. /\ stats' \in Stats
        /\ stats'.accepted = stats.accepted
        /\ stats'.lost = stats.lost
    <2>1. stats \in Stats
      BY DEF IInv, TypeOK
    <2>2. stats' = [stats EXCEPT !.underruns = @ + 1]
      BY DEF PullUnderrun
    <2> QED
      BY <2>1, <2>2 DEF Stats
  <1>5. TypeOK'
    BY <1>1, <1>2, <1>3, <1>4 DEF IInv, TypeOK
  <1>6. LossAccounted'
    BY <1>1, <1>4 DEF IInv, LossAccounted
  <1>7. expected # NoSeq
    BY <1>1, AwakeIsLive
  <1>8. StreamTracked'
    <2>1. expected = SeqOf(next) /\ Len(queue) <= End
      BY <1>7 DEF IInv, StreamTracked
    <2>2. Len(queue) \in Nat /\ next \in Int
      BY LenProperties DEF IInv, TypeOK
    <2>3. End \in Int /\ End' = End
      BY <1>1, <2>2, Distributes DEF End
    <2> QED
      BY <1>1, <1>2, <1>7, <2>1, <2>2, <2>3 DEF StreamTracked
  <1> QED
    BY <1>2, <1>5, <1>6, <1>7, <1>8 DEF IInv

\* A reset buffer is as good as new.
LEMMA ResetPreserves ==
    ASSUME IInv, Reset
    PROVE  IInv'
  <1>1. /\ queue' = <<>> /\ prev' = Filler /\ frac' = 0 /\ warming' = TRUE
        /\ rate' = Unit /\ expected' = NoSeq /\ next' = 0 /\ origin' = 0
        /\ stats' = stats
    BY DEF Reset, FallSilent
  <1>2. /\ queue' \in Seq(Frames)
        /\ prev' \in Frames
        /\ frac' \in 0 .. 2 * Unit + MaxDeviation - 1
        /\ SlotAligned' /\ FillBounded' /\ LookaheadHeld' /\ NothingReplayed'
    BY <1>1, SilentBuffer
  <1>3. Unit \in Nat /\ MaxDeviation \in Nat
    BY JitterAssumption
  <1>4. TypeOK'
    BY <1>1, <1>2, <1>3 DEF IInv, TypeOK
  <1>5. LossAccounted' /\ StreamTracked'
    BY <1>1 DEF LossAccounted, StreamTracked
  <1> QED
    BY <1>2, <1>4, <1>5 DEF IInv

\* A step of something else.
LEMMA StutterPreserves ==
    ASSUME IInv, UNCHANGED vars
    PROVE  IInv'
  BY DEF IInv, vars, TypeOK, SlotAligned, Aligned, PositionIn, End, FillBounded,
         LookaheadHeld, NothingReplayed, LossAccounted, StreamTracked

\* The invariant is inductive.
LEMMA NextPreserves == IInv /\ [Next]_vars => IInv'
  <1> SUFFICES ASSUME IInv, [Next]_vars PROVE IInv'
    OBVIOUS
  <1>1. ASSUME NEW n \in PacketIndex, Push(n) PROVE IInv'
    BY <1>1, PushFirstPreserves, PushLatePreserves, PushRestartPreserves,
       PushInStepPreserves DEF Push
  <1>2. ASSUME NEW k \in PullSizes, Pull(k) PROVE IInv'
    BY <1>2, PullFramesPreserves, PullUnderrunPreserves, StutterPreserves
       DEF Pull, PullSilence
  <1>3. CASE Reset
    BY <1>3, ResetPreserves
  <1>4. CASE UNCHANGED vars
    BY <1>4, StutterPreserves
  <1> QED
    BY <1>1, <1>2, <1>3, <1>4 DEF Next

-----------------------------------------------------------------------------
(* Theorems *)

\* Every reachable state of the buffer satisfies the inductive invariant.
THEOREM Invariance == Spec => []IInv
  BY InitEstablishes, NextPreserves, PTL DEF Spec

\* The variables keep their types; the interpolator never stands more than
\* two input frames and one rate correction past `prev`.
THEOREM TypeCorrect == Spec => []TypeOK
  <1>1. IInv => TypeOK
    BY DEF IInv
  <1> QED
    BY <1>1, Invariance, PTL

\* Concealment, trimming, resynchronising and playing keep every buffered
\* frame in the slot the sender recorded it for.
THEOREM SlotsStayAligned == Spec => []SlotAligned
  <1>1. IInv => SlotAligned
    BY DEF IInv
  <1> QED
    BY <1>1, Invariance, PTL

\* No packet, and no gap however long, leaves more than max_frames buffered.
THEOREM LatencyIsBounded == Spec => []FillBounded
  <1>1. IInv => FillBounded
    BY DEF IInv
  <1> QED
    BY <1>1, Invariance, PTL

\* A buffer that plays always has a frame to interpolate towards, and one that
\* ran dry plays nothing old.
THEOREM LookaheadIsHeld == Spec => []LookaheadHeld
  <1>1. IInv => LookaheadHeld
    BY DEF IInv
  <1> QED
    BY <1>1, Invariance, PTL

\* No frame is played that a later pull will meet again.
THEOREM NothingIsReplayed == Spec => []NothingReplayed
  <1>1. IInv => NothingReplayed
    BY DEF IInv
  <1> QED
    BY <1>1, Invariance, PTL

\* accepted and lost together count every packet of the stream once.
THEOREM CountersAreExact == Spec => []LossAccounted
  <1>1. IInv => LossAccounted
    BY DEF IInv
  <1> QED
    BY <1>1, Invariance, PTL

-----------------------------------------------------------------------------
(* The buffer implements Playout *)

\* The mapped positions are numbers, and the lag is within the cap.
Mapped ==
    /\ End \in Nat /\ Len(queue) \in Nat
    /\ End - Len(queue) \in Nat
    /\ End - (End - Len(queue)) <= MaxFrames
    /\ End - Len(queue) <= End

\* What the refinement mapping makes of a state that follows a stream ...
LEMMA MappedState == IInv /\ expected # NoSeq => Mapped
  <1> SUFFICES ASSUME IInv, expected # NoSeq PROVE Mapped
    OBVIOUS
  <1>1. Len(queue) \in Nat /\ Len(queue) <= End /\ Len(queue) <= MaxFrames
    BY LenProperties DEF IInv, TypeOK, StreamTracked, FillBounded
  <1>2. next \in Nat /\ next \in Int
    BY DEF IInv, TypeOK
  <1>3. End \in Nat
    BY <1>2, Distributes DEF End
  <1> QED
    BY <1>1, <1>3, Sizes DEF Mapped

\* ... and of the state after a step.
LEMMA MappedNext == IInv' /\ (expected # NoSeq)' => Mapped'
  BY MappedState, PTL

\* A new buffer maps to a listener who hears nothing.
LEMMA InitMaps == Init => Listener!Init
  BY DEF Init, Listener!Init, Listener!Hush, Filler

\* A push that is accepted begins or extends what can be heard.
LEMMA PushMaps ==
    ASSUME IInv, IInv', NEW n \in PacketIndex, Push(n)
    PROVE  [Listener!Next]_(Listener!vars)
  <1>1. CASE PushFirst(n)
    <2>1. n \in Nat /\ expected = NoSeq
      BY <1>1, JitterAssumption DEF PushFirst
    <2>2. expected' # NoSeq /\ prev' = Filler
      <3>1. n + 1 \in Int /\ n \in Int
        BY <2>1
      <3>2. expected' # NoSeq
        BY <1>1, <3>1, SeqOfSuccessor, SeqOfType DEF PushFirst, Accept
      <3> QED
        BY <1>1, <2>1, <3>2 DEF PushFirst, IInv, StreamTracked, LookaheadHeld
    <2>3. /\ End' \in Nat /\ End' - Len(queue') \in Nat
          /\ End' - (End' - Len(queue')) <= MaxFrames
          /\ End' - Len(queue') <= End'
      BY <2>2, MappedNext DEF Mapped
    <2>4. Listener!Begin
      BY <2>1, <2>2, <2>3 DEF Listener!Begin, Listener!WithinCap, Listener!Hush, Filler
    <2> QED
      BY <2>4 DEF Listener!Next
  <1>2. CASE PushLate(n)
    <2>1. UNCHANGED <<queue, prev, expected, next>>
      BY <1>2 DEF PushLate, buffered
    <2> QED
      BY <2>1 DEF Listener!vars, End
  <1>3. CASE PushRestart(n)
    <2>1. n \in Nat /\ expected # NoSeq /\ prev' = Filler
      BY <1>3, JitterAssumption DEF PushRestart, FallSilent
    <2>2. /\ expected' # NoSeq
          /\ End' = n * FramesPerPacket + FramesPerPacket
          /\ Len(queue') <= FramesPerPacket
      <3>1. stats \in Stats /\ Accept(n, <<>>, 0, 1) /\ 1 \in Nat
        BY <1>3 DEF IInv, TypeOK, PushRestart, FallSilent
      <3> QED
        BY <2>1, <3>1, AcceptFresh
    <2>3. next < n /\ next \in Nat
      <3>1. next \in Nat /\ HalfSpace \in Nat /\ ResyncGap \in Nat
        BY SeqSpaceAssumption DEF IInv, TypeOK
      <3>2. expected = SeqOf(next) /\ -HalfSpace <= n - next /\ n - next < HalfSpace
        BY <1>3, <2>1, <3>1 DEF IInv, StreamTracked, PushRestart, FallSilent, MayPush, InWindow
      <3>3. Delta(SeqOf(n), expected) = n - next
        BY <2>1, <3>1, <3>2, DeltaIsDistance
      <3>4. ResyncGap < n - next
        BY <1>3, <3>3 DEF PushRestart, FallSilent, IsRestart
      <3> QED
        BY <2>1, <3>1, <3>4
    <2>4. End <= n * FramesPerPacket
      <3>1. next \in Int /\ n - next \in Int /\ 0 < n - next /\ n = next + (n - next)
        BY <2>1, <2>3
      <3>2. /\ (next + (n - next)) * FramesPerPacket
                   = next * FramesPerPacket + (n - next) * FramesPerPacket
            /\ FramesPerPacket <= (n - next) * FramesPerPacket
            /\ next * FramesPerPacket \in Int
            /\ (n - next) * FramesPerPacket \in Int
        BY <3>1, Distributes
      <3> QED
        BY <3>1, <3>2, Sizes DEF End
    <2>5. /\ End' \in Nat /\ End' - Len(queue') \in Nat
          /\ Len(queue') \in Nat
          /\ End' - (End' - Len(queue')) <= MaxFrames
          /\ End' - Len(queue') <= End'
      BY <2>2, MappedNext DEF Mapped
    <2>6. End \in Nat /\ Len(queue) \in Nat /\ End - Len(queue) <= End
      BY <2>1, MappedState DEF Mapped
    <2>7. n * FramesPerPacket \in Int
      BY <2>1, Distributes
    <2>8. End < End' /\ End - Len(queue) <= End' - Len(queue')
      <3> DEFINE base == n * FramesPerPacket
                 e2   == End'
                 len2 == Len(queue')
      <3>1. /\ base \in Int /\ e2 = base + FramesPerPacket
            /\ e2 \in Nat /\ len2 \in Nat
            /\ len2 <= FramesPerPacket /\ End <= base
        BY <2>2, <2>4, <2>5, <2>7
      <3> HIDE DEF base, e2, len2
      <3>2. End < e2 /\ End - Len(queue) <= e2 - len2
        BY <2>6, <3>1, Sizes
      <3> QED
        BY <3>2 DEF e2, len2
    <2>9. Listener!Extend
      BY <2>1, <2>2, <2>5, <2>8
         DEF Listener!Extend, Listener!WithinCap, Listener!Hush, Filler
    <2> QED
      BY <2>9 DEF Listener!Next
  <1>4. CASE PushInStep(n)
    <2>1. expected # NoSeq /\ prev' = prev
      BY <1>4 DEF PushInStep
    <2>2. End < End' /\ End - Len(queue) <= End' - Len(queue')
      BY <1>4, PushInStepPreserves
    <2>3. expected' # NoSeq
      <3>1. n \in Int /\ n + 1 \in Int
        BY JitterAssumption
      <3> QED
        BY <1>4, <3>1, SeqOfSuccessor, SeqOfType DEF PushInStep, Accept
    <2>4. /\ End' \in Nat /\ End' - Len(queue') \in Nat
          /\ End' - (End' - Len(queue')) <= MaxFrames
          /\ End' - Len(queue') <= End'
      BY <2>3, MappedNext DEF Mapped
    <2>5. Listener!Extend
      BY <2>1, <2>2, <2>3, <2>4 DEF Listener!Extend, Listener!WithinCap
    <2> QED
      BY <2>5 DEF Listener!Next
  <1> QED
    BY <1>1, <1>2, <1>3, <1>4 DEF Push

\* A pull moves the listener forward, or leaves it in silence.
LEMMA PullMaps ==
    ASSUME IInv, IInv', NEW k \in PullSizes, Pull(k)
    PROVE  [Listener!Next]_(Listener!vars)
  <1>1. CASE PullSilence
    BY <1>1 DEF PullSilence, vars, Listener!vars, End
  <1>2. ASSUME NEW r \in NextRates, PullFrames(k, r)
        PROVE  Listener!Play
    <2>1. /\ End' = End /\ End - Len(queue) <= End' - Len(queue')
          /\ \/ prev' = prev
             \/ prev' = Filler
             \/ End - Len(queue) <= prev' /\ prev' < End' - Len(queue')
          /\ expected # NoSeq
      BY <1>2, PullFramesPreserves
    <2>2. expected' # NoSeq
      BY <1>2, <2>1 DEF PullFrames
    <2>3. End' - Len(queue') \in Nat /\ End' - Len(queue') <= End'
      BY <2>2, MappedNext DEF Mapped
    <2> QED
      BY <2>1, <2>2, <2>3 DEF Listener!Play, Listener!Hush, Filler
  <1>3. ASSUME NEW r \in NextRates, PullUnderrun(k, r)
        PROVE  Listener!Play
    <2>1. expected # NoSeq
      BY <1>3, PullUnderrunPreserves
    <2>2. expected' # NoSeq /\ prev' = Filler /\ queue' = <<>> /\ End' = End
      BY <1>3, <2>1 DEF PullUnderrun, FallSilent, End
    <2>3. End \in Nat /\ Len(queue) \in Nat /\ End - Len(queue) <= End
      BY <2>1, MappedState DEF Mapped
    <2>4. End' - Len(queue') \in Nat /\ End' - Len(queue') <= End'
      BY <2>2, MappedNext DEF Mapped
    <2>5. End' - Len(queue') = End
      BY <2>2, <2>3, EmptySeq
    <2> QED
      BY <2>1, <2>2, <2>3, <2>4, <2>5 DEF Listener!Play, Listener!Hush, Filler
  <1> QED
    BY <1>1, <1>2, <1>3 DEF Pull, Listener!Next

\* A reset is a Stop.
LEMMA ResetMaps == ASSUME Reset PROVE [Listener!Next]_(Listener!vars)
  BY DEF Reset, FallSilent, Listener!Next, Listener!Stop, Listener!Hush, Filler

\* The jitter buffer implements Playout: whatever arrives and in whatever
\* order, the listener hears positions in order, none twice, and stays within
\* max_frames of the newest packet.
THEOREM ImplementsPlayout == Spec => ListenerInOrder
  <1>1. IInv /\ IInv' /\ [Next]_vars => [Listener!Next]_(Listener!vars)
    <2> SUFFICES ASSUME IInv, IInv', [Next]_vars
                 PROVE  [Listener!Next]_(Listener!vars)
      OBVIOUS
    <2>1. CASE UNCHANGED vars
      BY <2>1 DEF vars, Listener!vars, End
    <2> QED
      BY <2>1, PushMaps, PullMaps, ResetMaps DEF Next
  <1> QED
    BY <1>1, InitMaps, Invariance, PTL DEF Spec, ListenerInOrder, Listener!Spec
=============================================================================
