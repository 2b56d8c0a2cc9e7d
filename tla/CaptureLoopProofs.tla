------------------------- MODULE CaptureLoopProofs -------------------------
(***************************************************************************)
(* Proofs about CaptureLoop.  The schedule: what was offered lies a packet *)
(* behind the next due time, which lies at most a packet after the last    *)
(* poll.  The steady endpoint: how far the queue is behind the schedule.   *)
(***************************************************************************)
EXTENDS CaptureLoop, SequenceTheorems, TLAPS

\* Type correctness: the channel never holds more than CAPTURE_QUEUE packets
\* and the queue never hands out a frame it has not read.
THEOREM CaptureTypeCorrect == Spec => []TypeOK
<1> USE CaptureAssumption DEF TypeOK
<1>1. Init => TypeOK
  BY DEF Init
<1>2. TypeOK /\ [Next]_vars => TypeOK'
  <2> SUFFICES ASSUME TypeOK, [Next]_vars PROVE TypeOK'
    OBVIOUS
  <2>1. CASE Open
    <3>1. steady' \in BOOLEAN
      BY <2>1 DEF Open, InTime
    <3> QED BY <2>1, <3>1 DEF Open, FirstDue
  <2>2. CASE LoseEndpoint
    BY <2>2 DEF LoseEndpoint
  <2>3. CASE Drain
    BY <2>3 DEF Drain, DrainKeeping, MaxQueue
  <2>4. CASE Schedule
    BY <2>4 DEF Schedule, Resynchronised
  <2>5. CASE EmitAudio
    BY <2>5 DEF EmitAudio, Offer, Queued
  <2>6. CASE EmitSilence
    BY <2>6 DEF EmitSilence, Offer, Silence
  <2>7. CASE Rest
    BY <2>7 DEF Rest
  <2>8. CASE Receive
    <3>1. channel' \in Seq(Nat) /\ Len(channel') <= CaptureQueue
      BY <2>8 DEF Receive
    <3>2. heard' \in Nat
      BY <2>8 DEF Receive
    <3> QED BY <2>8, <3>1, <3>2 DEF Receive
  <2>9. CASE Tick
    <3>1. steady' \in BOOLEAN
      BY <2>9 DEF Tick
    <3> QED BY <2>9, <3>1 DEF Tick
  <2>10. CASE UNCHANGED vars
    BY <2>10 DEF vars
  <2> QED
    BY <2>1, <2>2, <2>3, <2>4, <2>5, <2>6, <2>7, <2>8, <2>9, <2>10 DEF Next
<1> QED
  BY <1>1, <1>2, PTL DEF Spec

-----------------------------------------------------------------------------
(* The schedule *)

\* The next packet is due a duration after all that was offered would have
\* been played, and at most a duration after the last poll.
OnSchedule ==
    /\ offered <= clock
    /\ pc # "closed" => /\ offered + FrameDuration <= due
                        /\ due <= now + FrameDuration

\* What is left of a poll: at most what is due and not yet offered.
CatchingUp ==
    /\ burst <= ScheduleReset + FrameDuration
    /\ pc = "emitting" => burst + now <= due + ScheduleReset

ScheduleInv == TypeOK /\ OnSchedule /\ CatchingUp

\* No step disturbs the schedule.
THEOREM ScheduleInvariant == Spec => []ScheduleInv
<1> USE CaptureAssumption DEF TypeOK, OnSchedule, CatchingUp
<1>1. Init => OnSchedule /\ CatchingUp
  BY DEF Init
<1>2. TypeOK /\ OnSchedule /\ CatchingUp /\ [Next]_vars
        => OnSchedule' /\ CatchingUp'
  <2> SUFFICES ASSUME TypeOK, OnSchedule, CatchingUp, [Next]_vars
               PROVE  OnSchedule' /\ CatchingUp'
    OBVIOUS
  <2>1. CASE Open
    BY <2>1 DEF Open, FirstDue
  <2>2. CASE LoseEndpoint
    BY <2>2 DEF LoseEndpoint
  <2>3. CASE Drain
    BY <2>3 DEF Drain, DrainKeeping
  <2>4. CASE Schedule
    BY <2>4 DEF Schedule, Resynchronised
  <2>5. CASE EmitAudio
    BY <2>5 DEF EmitAudio, Offer
  <2>6. CASE EmitSilence
    BY <2>6 DEF EmitSilence, Offer
  <2>7. CASE Rest
    BY <2>7 DEF Rest
  <2>8. CASE Receive
    BY <2>8 DEF Receive
  <2>9. CASE Tick
    BY <2>9 DEF Tick
  <2>10. CASE UNCHANGED vars
    BY <2>10 DEF vars
  <2> QED
    BY <2>1, <2>2, <2>3, <2>4, <2>5, <2>6, <2>7, <2>8, <2>9, <2>10 DEF Next
<1> QED
  BY <1>1, <1>2, CaptureTypeCorrect, PTL DEF Spec, ScheduleInv

\* No more audio is offered than time has passed, whatever happens.
THEOREM CaptureNeverAhead == Spec => []NeverAhead
<1>1. ScheduleInv => NeverAhead
  BY DEF ScheduleInv, OnSchedule, NeverAhead
<1> QED
  BY <1>1, ScheduleInvariant, PTL

\* A late poll makes up for at most SCHEDULE_RESET.
THEOREM CaptureBurstBounded == Spec => []BurstBounded
<1>1. ScheduleInv => BurstBounded
  BY DEF ScheduleInv, CatchingUp, BurstBounded
<1> QED
  BY <1>1, ScheduleInvariant, PTL

-----------------------------------------------------------------------------
(* The order of the audio *)

\* A packet of audio starts after the last one before it ended.
AfterPackets(packets, last, i) ==
    packets[i] # Silence =>
        /\ last < packets[i]
        /\ \A j \in 1 .. i - 1 : packets[j] # Silence =>
               packets[j] + PacketFrames <= packets[i]

\* InOrder of any packets, of which the last before them ended at `last` and
\* of which none reaches beyond `end`.
Ordered(packets, last, end) ==
    /\ last <= end
    /\ \A i \in 1 .. Len(packets) :
          /\ AfterPackets(packets, last, i)
          /\ packets[i] # Silence => packets[i] + PacketFrames <= end + 1

\* Packets stay ordered when the queue moves on, ...
LEMMA OrderedLater ==
    ASSUME NEW packets \in Seq(Nat), NEW last \in Nat, NEW end \in Nat,
           NEW end1 \in Nat, Ordered(packets, last, end), end <= end1
    PROVE  Ordered(packets, last, end1)
  BY CaptureAssumption, LenProperties, ElementOfSeq DEF Ordered

\* ... when silence or the next packet of the queue joins them, ...
LEMMA OrderedAppend ==
    ASSUME NEW packets \in Seq(Nat), NEW last \in Nat, NEW end \in Nat,
           NEW end1 \in Nat, NEW packet \in Nat,
           Ordered(packets, last, end), end <= end1,
           packet = Silence \/ (packet = end + 1 /\ end1 = end + PacketFrames)
    PROVE  Ordered(Append(packets, packet), last, end1)
  <1> DEFINE longer == Append(packets, packet)
  <1>1. /\ Len(longer) = Len(packets) + 1 /\ Len(packets) \in Nat
        /\ longer[Len(packets) + 1] = packet
        /\ \A i \in 1 .. Len(packets) :
              longer[i] = packets[i] /\ packets[i] \in Nat
    BY AppendProperties, LenProperties, ElementOfSeq
  <1> HIDE DEF longer
  <1>2. ASSUME NEW i \in 1 .. Len(longer)
        PROVE  /\ AfterPackets(longer, last, i)
               /\ longer[i] # Silence =>
                     longer[i] + PacketFrames <= end1 + 1
    <2>1. CASE i \in 1 .. Len(packets)
      <3>1. /\ AfterPackets(packets, last, i)
            /\ packets[i] # Silence => packets[i] + PacketFrames <= end + 1
        BY <2>1 DEF Ordered
      <3>2. \A j \in 1 .. i - 1 : longer[j] = packets[j]
        BY <1>1, <2>1
      <3>3. longer[i] = packets[i] /\ packets[i] \in Nat
        BY <1>1, <2>1
      <3>4. AfterPackets(longer, last, i)
        BY <3>1, <3>2, <3>3 DEF AfterPackets
      <3>5. longer[i] # Silence => longer[i] + PacketFrames <= end1 + 1
        BY <3>1, <3>3, CaptureAssumption
      <3> QED
        BY <3>4, <3>5
    <2>2. CASE i = Len(packets) + 1
      <3>1. \A j \in 1 .. i - 1 : longer[j] # Silence =>
               longer[j] + PacketFrames <= end + 1
        <4> SUFFICES ASSUME NEW j \in 1 .. i - 1, longer[j] # Silence
                     PROVE  longer[j] + PacketFrames <= end + 1
          OBVIOUS
        <4>1. j \in 1 .. Len(packets)
          BY <1>1, <2>2
        <4>2. longer[j] = packets[j]
          BY <1>1, <4>1
        <4> QED
          BY <4>1, <4>2 DEF Ordered
      <3>2. longer[i] = packet
        BY <1>1, <2>2
      <3>3. CASE packet = Silence
        BY <3>2, <3>3 DEF AfterPackets
      <3>4. CASE packet = end + 1 /\ end1 = end + PacketFrames
        <4>1. last <= end
          BY DEF Ordered
        <4>2. last < longer[i] /\ longer[i] + PacketFrames <= end1 + 1
          BY <3>2, <3>4, <4>1, CaptureAssumption
        <4>3. \A j \in 1 .. i - 1 : longer[j] # Silence =>
                 longer[j] + PacketFrames <= longer[i]
          BY <3>1, <3>2, <3>4
        <4> QED
          BY <4>2, <4>3 DEF AfterPackets
      <3> QED
        BY <3>3, <3>4
    <2> QED
      BY <1>1, <1>2, <2>1, <2>2
  <1> QED
    BY <1>2 DEF Ordered, longer

\* ... and when the first of them is received.
LEMMA OrderedTail ==
    ASSUME NEW packets \in Seq(Nat), packets # <<>>, NEW last \in Nat,
           NEW end \in Nat, Ordered(packets, last, end)
    PROVE  Ordered(Tail(packets),
                   IF Head(packets) = Silence THEN last
                   ELSE Head(packets) + PacketFrames - 1, end)
  <1> DEFINE fewer == Tail(packets)
             first == Head(packets)
             last1 == IF first = Silence THEN last
                      ELSE first + PacketFrames - 1
  <1>1. /\ Len(fewer) = Len(packets) - 1 /\ Len(packets) \in Nat \ {0}
        /\ first = packets[1]
        /\ \A i \in 1 .. Len(fewer) : fewer[i] = packets[i + 1]
        /\ \A i \in 1 .. Len(packets) : packets[i] \in Nat
    BY HeadTailProperties, LenProperties, ElementOfSeq, EmptySeq
  <1> HIDE DEF fewer, first
  <1>2. AfterPackets(packets, last, 1) /\
        (first # Silence => first + PacketFrames <= end + 1)
    BY <1>1 DEF Ordered
  <1>3. last1 <= end
    BY <1>1, <1>2, CaptureAssumption DEF Ordered
  <1>4. ASSUME NEW i \in 1 .. Len(fewer)
        PROVE  /\ AfterPackets(fewer, last1, i)
               /\ fewer[i] # Silence => fewer[i] + PacketFrames <= end + 1
    <2>0. i + 1 \in 1 .. Len(packets)
      BY <1>1
    <2>1. /\ AfterPackets(packets, last, i + 1)
          /\ packets[i + 1] # Silence =>
                packets[i + 1] + PacketFrames <= end + 1
      BY <2>0 DEF Ordered
    <2>2. packets[i + 1] # Silence /\ first # Silence =>
             first + PacketFrames <= packets[i + 1]
      <3>1. 1 \in 1 .. (i + 1) - 1
        BY <1>1
      <3> QED
        BY <1>1, <2>1, <3>1 DEF AfterPackets
    <2>3. packets[i + 1] # Silence => last1 < packets[i + 1]
      <3>1. packets[i + 1] \in Nat /\ packets[1] \in Nat
        BY <1>1, <2>0
      <3>2. first \in Nat
        BY <1>1, <3>1
      <3>3. packets[i + 1] # Silence => last < packets[i + 1]
        BY <2>1 DEF AfterPackets
      <3>4. packets[i + 1] # Silence /\ first # Silence =>
               first + PacketFrames - 1 < packets[i + 1]
        BY <2>2, <3>1, <3>2, CaptureAssumption
      <3> QED
        BY <3>3, <3>4
    <2>4. ASSUME NEW j \in 1 .. i - 1
          PROVE  fewer[j] = packets[j + 1] /\ j + 1 \in 1 .. (i + 1) - 1
      <3>1. j \in 1 .. Len(fewer) /\ j + 1 \in 1 .. (i + 1) - 1
        BY <1>1, <1>4, <2>4
      <3> QED
        BY <1>1, <3>1
    <2> QED
      BY <1>1, <2>1, <2>3, <2>4 DEF AfterPackets
  <1> QED
    BY <1>3, <1>4 DEF Ordered, fewer, first

OrderInv == TypeOK /\ Ordered(channel, heard, head)

\* What the network loop receives is in order and no frame of it comes twice.
THEOREM CaptureInOrder == Spec => []InOrder
<1>1. Init => OrderInv
  <2> SUFFICES ASSUME Init PROVE OrderInv
    OBVIOUS
  <2>1. channel = <<>> /\ heard = 0 /\ head = 0 /\ Len(channel) = 0
    BY DEF Init
  <2>2. TypeOK
    BY CaptureAssumption DEF Init, TypeOK
  <2> QED
    BY <2>1, <2>2 DEF OrderInv, Ordered
<1>2. OrderInv /\ TypeOK' /\ [Next]_vars => OrderInv'
  <2> SUFFICES ASSUME OrderInv, TypeOK', [Next]_vars
               PROVE  Ordered(channel', heard', head')
    BY DEF OrderInv
  <2>0. /\ channel \in Seq(Nat) /\ heard \in Nat /\ head \in Nat
        /\ head' \in Nat /\ drained \in Nat /\ recorded \in Nat
        /\ head <= drained /\ drained <= recorded
        /\ Ordered(channel, heard, head)
    BY DEF OrderInv, TypeOK
  <2>a. ASSUME channel' = channel, heard' = heard, head <= head'
        PROVE  Ordered(channel', heard', head')
    BY <2>0, <2>a, OrderedLater
  <2>b. ASSUME NEW packet \in Nat, Offer(packet), heard' = heard,
               \/ packet = Silence /\ head' = head
               \/ packet = head + 1 /\ head' = head + PacketFrames
        PROVE  Ordered(channel', heard', head')
    <3>1. head <= head'
      BY <2>0, <2>b, CaptureAssumption
    <3>2. CASE channel' = channel
      BY <2>a, <2>b, <3>1, <3>2
    <3>3. CASE channel' = Append(channel, packet)
      BY <2>0, <2>b, <3>1, <3>3, OrderedAppend
    <3> QED
      BY <2>b, <3>2, <3>3 DEF Offer
  <2>1. CASE Open
    BY <2>0, <2>1, <2>a DEF Open
  <2>2. CASE LoseEndpoint
    BY <2>0, <2>2, <2>a DEF LoseEndpoint
  <2>3. CASE Drain
    <3>1. channel' = channel /\ heard' = heard
      BY <2>3 DEF Drain, DrainKeeping
    <3>2. head <= head'
      BY <2>0, <2>3, CaptureAssumption DEF Drain, DrainKeeping, MaxQueue
    <3> QED
      BY <2>a, <3>1, <3>2
  <2>4. CASE Schedule
    BY <2>0, <2>4, <2>a DEF Schedule
  <2>5. CASE EmitAudio
    BY <2>0, <2>5, <2>b DEF EmitAudio
  <2>6. CASE EmitSilence
    BY <2>0, <2>6, <2>b DEF EmitSilence, Silence
  <2>7. CASE Rest
    BY <2>0, <2>7, <2>a DEF Rest
  <2>8. CASE Receive
    BY <2>0, <2>8, OrderedTail DEF Receive
  <2>9. CASE Tick
    BY <2>0, <2>9, <2>a DEF Tick
  <2>10. CASE UNCHANGED vars
    BY <2>0, <2>10, <2>a DEF vars
  <2> QED
    BY <2>1, <2>2, <2>3, <2>4, <2>5, <2>6, <2>7, <2>8, <2>9, <2>10 DEF Next
<1>3. OrderInv => InOrder
  <2> SUFFICES ASSUME OrderInv PROVE InOrder
    OBVIOUS
  <2>1. DOMAIN channel = 1 .. Len(channel)
    BY LenProperties DEF OrderInv, TypeOK
  <2> QED
    BY <2>1 DEF OrderInv, Ordered, AfterPackets, InOrder
<1> QED
  BY <1>1, <1>2, <1>3, CaptureTypeCorrect, PTL DEF Spec

-----------------------------------------------------------------------------
(* The steady endpoint *)

\* Polled often enough for the chunks of its endpoint.
Polled == 2 * SteadyPoll + SteadyBehind <= 2 * PacketFrames

\* The poll comes before what is due, and the recording stays with the clock.
Prompt ==
    pc \in {"draining", "scheduling"} => now < due

KeepsUp ==
    steady =>
        /\ InTime(recorded, clock)
        /\ pc # "closed" => clock <= now + SteadyPoll
        /\ pc = "scheduling" => now <= drained + SteadyBehind
        /\ pc = "emitting" => now <= drained + SteadyPoll + SteadyBehind

\* How far the schedule is ahead of the queue: by the silence offered, or, once
\* audio was dropped, by more than makes the endpoint look late.
Lead ==
    steady /\ pc # "closed" =>
        \/ lost = 0 /\ head + silenced + FrameDuration <= due
        \/ head + 3 * PacketFrames <= due

SteadyInv == TypeOK /\ Prompt /\ KeepsUp /\ Lead /\ FewGaps

\* The polls of a steady stream are in time, and so is its silence.
THEOREM SteadyInvariant == Polled => (Spec => []SteadyInv)
<1> SUFFICES ASSUME Polled PROVE Spec => []SteadyInv
  OBVIOUS
<1> USE CaptureAssumption
    DEF Polled, TypeOK, SteadyInv, Prompt, KeepsUp, InTime, Lead, FewGaps
<1>1. Init => SteadyInv
  BY DEF Init
<1>2. SteadyInv /\ TypeOK' /\ [Next]_vars => SteadyInv'
  <2> SUFFICES ASSUME SteadyInv, TypeOK', [Next]_vars
               PROVE  Prompt' /\ KeepsUp' /\ Lead' /\ FewGaps'
    OBVIOUS
  <2>1. CASE Open
    BY <2>1 DEF Open, FirstDue
  <2>2. CASE LoseEndpoint
    BY <2>2 DEF LoseEndpoint
  <2>3. CASE Drain
    <3>1. CASE recorded - head > MaxQueue
      BY <2>3, <3>1 DEF Drain, DrainKeeping, MaxQueue
    <3>2. CASE ~(recorded - head > MaxQueue)
      BY <2>3, <3>2 DEF Drain, DrainKeeping, MaxQueue
    <3> QED
      BY <3>1, <3>2
  <2>4. CASE Schedule
    BY <2>4 DEF Schedule, Resynchronised
  <2>5. CASE EmitAudio
    BY <2>5 DEF EmitAudio, Offer, Queued
  <2>6. CASE EmitSilence
    BY <2>6 DEF EmitSilence, Offer, Queued
  <2>7. CASE Rest
    BY <2>7 DEF Rest
  <2>8. CASE Receive
    BY <2>8 DEF Receive
  <2>9. CASE Tick
    <3>1. UNCHANGED <<pc, drained, head, now, due, silenced, lost>>
      BY <2>9 DEF Tick
    <3>2. steady' => /\ steady /\ InTime(recorded', clock')
                     /\ pc # "closed" => clock' <= now + SteadyPoll
      <4>1. steady' => /\ steady /\ InTime(recorded', clock')
                       /\ pc # "closed" => clock < now + SteadyPoll
        BY <2>9, Zenon DEF Tick
      <4>2. clock < now + SteadyPoll => clock' <= now + SteadyPoll
        BY <2>9 DEF Tick
      <4> QED
        BY <4>1, <4>2, Zenon
    <3> QED
      BY <3>1, <3>2
  <2>10. CASE UNCHANGED vars
    BY <2>10 DEF vars
  <2> QED
    BY <2>1, <2>2, <2>3, <2>4, <2>5, <2>6, <2>7, <2>8, <2>9, <2>10 DEF Next
<1> QED
  BY <1>1, <1>2, CaptureTypeCorrect, PTL DEF Spec

\* Opening costs a few packets of silence and then none is sent while the
\* endpoint and the polls are in time.
THEOREM SteadyFewGaps == Polled => (Spec => []FewGaps)
<1>1. SteadyInv => FewGaps
  BY DEF SteadyInv, FewGaps
<1> QED
  BY <1>1, SteadyInvariant, PTL

-----------------------------------------------------------------------------
(* What rounding costs *)

\* A schedule that is never given up for a poll in time.
InStep == Polled /\ SteadyPoll <= ScheduleReset

\* What was lost and what is due make up what was taken from the queue.  A packet
\* of audio moves both sides alike, and so does audio that is dropped; silence
\* moves the schedule only, and comes only when the queue is far behind.
AtOpening == PacketFrames * (SteadyBehind + FrameDuration)
AfterSilence ==
    FrameDuration * (SteadyPoll + SteadyBehind + 3 * PacketFrames - 1 - FrameDuration)

Balance(frames, time, dropped, slack) ==
    FrameDuration * dropped + PacketFrames * time <= FrameDuration * frames + slack

Balanced ==
    steady /\ pc # "closed" =>
        \/ Balance(head, due, lost, AtOpening)
        \/ Balance(head, due, lost, AfterSilence)

RoundingInv == SteadyInv /\ ScheduleInv /\ Balanced /\ LostToRounding

\* A packet of audio keeps the balance, ...
LEMMA AudioBalances ==
    ASSUME NEW frames \in Nat, NEW time \in Nat, NEW dropped \in Nat, NEW slack \in Int,
           Balance(frames, time, dropped, slack)
    PROVE  Balance(frames + PacketFrames, time + FrameDuration, dropped, slack)
  BY CaptureAssumption DEF Balance

\* ... and so does audio dropped from the queue.
LEMMA DropBalances ==
    ASSUME NEW frames \in Nat, NEW time \in Nat, NEW dropped \in Nat, NEW slack \in Int,
           NEW more \in Nat, Balance(frames, time, dropped, slack)
    PROVE  Balance(frames + more, time, dropped + more, slack)
  BY CaptureAssumption DEF Balance

\* A stream that is opened is in balance.
LEMMA OpeningBalances ==
    ASSUME NEW frames \in Nat, NEW time \in Nat, time <= frames + SteadyBehind
    PROVE  Balance(frames, time + FrameDuration, 0, AtOpening)
  <1>1. PacketFrames * time <= PacketFrames * (frames + SteadyBehind)
    BY CaptureAssumption
  <1>2. PacketFrames * frames <= FrameDuration * frames
    BY CaptureAssumption
  <1> QED
    BY <1>1, <1>2, CaptureAssumption DEF Balance, AtOpening

\* Silence that is offered when the queue is behind leaves it little further
\* behind.
LEMMA SilenceBalances ==
    ASSUME NEW frames \in Nat, NEW time \in Nat, FrameDuration <= time,
           time + 1 <= frames + PacketFrames + SteadyPoll + SteadyBehind
    PROVE  Balance(frames, time + FrameDuration, 0, AfterSilence)
  <1>1. FrameDuration * (time + 1)
            <= FrameDuration * (frames + PacketFrames + SteadyPoll + SteadyBehind)
    BY CaptureAssumption
  <1>2. (FrameDuration - PacketFrames) * FrameDuration
            <= (FrameDuration - PacketFrames) * time
    BY CaptureAssumption
  <1> QED
    BY <1>1, <1>2, CaptureAssumption DEF Balance, AfterSilence

\* A queue in balance that is shed down to four packets has lost what rounding
\* left out.
LEMMA BalancedLoss ==
    ASSUME InStep, NEW frames \in Nat, NEW time \in Nat, NEW dropped \in Nat,
           NEW t \in Nat,
           \/ Balance(frames, time, dropped, AtOpening)
           \/ Balance(frames, time, dropped, AfterSilence),
           frames + 4 * PacketFrames <= t, t + 1 <= time + SteadyPoll
    PROVE  dropped * FrameDuration <= (FrameDuration - PacketFrames) * t
  <1> USE CaptureAssumption
  <1>1. FrameDuration * (frames + 4 * PacketFrames) <= FrameDuration * t
    OBVIOUS
  <1>2. PacketFrames * (t + 1) <= PacketFrames * (time + SteadyPoll)
    OBVIOUS
  <1>3. CASE Balance(frames, time, dropped, AtOpening)
    <2>1. SteadyBehind + SteadyPoll <= 3 * FrameDuration
      BY DEF InStep, Polled
    <2>2. PacketFrames * (SteadyBehind + SteadyPoll) <= PacketFrames * (3 * FrameDuration)
      BY <2>1
    <2> QED
      BY <1>1, <1>2, <1>3, <2>2 DEF Balance, AtOpening
  <1>4. CASE Balance(frames, time, dropped, AfterSilence)
    <2>1. PacketFrames * (SteadyPoll - 1) <= FrameDuration * (SteadyPoll - 1)
      OBVIOUS
    <2>2. 2 * SteadyPoll + SteadyBehind <= PacketFrames + FrameDuration + 2
      BY DEF InStep, Polled
    <2>3. FrameDuration * (2 * SteadyPoll + SteadyBehind)
              <= FrameDuration * (PacketFrames + FrameDuration + 2)
      BY <2>2
    <2> QED
      BY <1>1, <1>2, <1>4, <2>1, <2>3 DEF Balance, AfterSilence
  <1> QED
    BY <1>3, <1>4

LEMMA SlackType == AtOpening \in Int /\ AfterSilence \in Int
  BY CaptureAssumption DEF AtOpening, AfterSilence

\* The bound on what is lost only grows with the clock.
LEMMA RoundingGrows ==
    ASSUME NEW dropped \in Nat, NEW t \in Nat, NEW t1 \in Nat, t <= t1,
           dropped * FrameDuration <= (FrameDuration - PacketFrames) * t
    PROVE  dropped * FrameDuration <= (FrameDuration - PacketFrames) * t1
  <1>1. (FrameDuration - PacketFrames) * t <= (FrameDuration - PacketFrames) * t1
    BY CaptureAssumption
  <1> QED
    BY <1>1, CaptureAssumption

THEOREM RoundingInvariant == InStep => (Spec => []RoundingInv)
<1> SUFFICES ASSUME InStep PROVE Spec => []RoundingInv
  OBVIOUS
<1>0. Polled /\ SteadyPoll <= ScheduleReset
  BY DEF InStep
<1>1. Init => Balanced /\ LostToRounding
  <2> SUFFICES ASSUME Init PROVE Balanced /\ LostToRounding
    OBVIOUS
  <2>1. lost = 0 /\ clock = 0 /\ pc = "closed"
    BY DEF Init
  <2> QED
    BY <2>1, CaptureAssumption DEF Balanced, LostToRounding
<1>2. SteadyInv /\ ScheduleInv /\ SteadyInv' /\ Balanced /\ LostToRounding /\ [Next]_vars
        => Balanced' /\ LostToRounding'
  <2> SUFFICES ASSUME SteadyInv, ScheduleInv, SteadyInv', Balanced, LostToRounding,
                      [Next]_vars
               PROVE  Balanced' /\ LostToRounding'
    OBVIOUS
  <2>0. /\ clock \in Nat /\ clock' \in Nat /\ head \in Nat /\ head' \in Nat
        /\ due \in Nat /\ due' \in Nat /\ lost \in Nat /\ lost' \in Nat
        /\ recorded \in Nat /\ drained \in Nat
    BY CaptureAssumption DEF SteadyInv, TypeOK
  <2>a. ASSUME UNCHANGED <<pc, head, due, lost, clock, steady>>
        PROVE  Balanced' /\ LostToRounding'
    BY <2>a DEF Balanced, Balance, AtOpening, AfterSilence, LostToRounding
  <2>b. ASSUME UNCHANGED <<head, due, lost, clock, steady>>, pc # "closed"
        PROVE  Balanced' /\ LostToRounding'
    BY <2>b DEF Balanced, Balance, AtOpening, AfterSilence, LostToRounding
  <2>1. CASE Open
    <3>1. steady' => Balance(recorded, clock + FrameDuration, 0, AtOpening)
      BY <2>0, <2>1, OpeningBalances DEF Open, InTime
    <3>2. Balanced'
      BY <2>1, <3>1 DEF Open, FirstDue, Balanced, Balance, AtOpening
    <3>3. lost' * FrameDuration <= (FrameDuration - PacketFrames) * clock'
      <4>1. 0 * FrameDuration = 0 /\ 0 <= (FrameDuration - PacketFrames) * clock
        BY <2>0, CaptureAssumption
      <4> QED
        BY <2>1, <4>1 DEF Open
    <3> QED
      BY <3>2, <3>3 DEF LostToRounding
  <2>2. CASE LoseEndpoint
    BY <2>2 DEF LoseEndpoint, Balanced, LostToRounding
  <2>3. CASE Drain
    <3>1. CASE ~(recorded - head > MaxQueue)
      BY <2>3, <2>b, <3>1 DEF Drain, DrainKeeping
    <3>2. CASE recorded - head > MaxQueue
      <4> SUFFICES ASSUME steady
                   PROVE  Balanced' /\ LostToRounding'
        BY <2>3 DEF Drain, DrainKeeping, Balanced, LostToRounding
      <4> DEFINE more == recorded - MaxQueue - head
      <4>1. /\ more \in Nat /\ head' = head + more /\ lost' = lost + more
            /\ head' + 4 * PacketFrames = recorded
            /\ due' = due /\ clock' = clock
        BY <2>0, <2>3, <3>2, CaptureAssumption DEF Drain, DrainKeeping, MaxQueue
      <4> HIDE DEF more
      <4>2. \/ Balance(head', due, lost', AtOpening)
            \/ Balance(head', due, lost', AfterSilence)
        BY <2>0, <2>3, <4>1, DropBalances, SlackType DEF Drain, DrainKeeping, Balanced
      <4>3. recorded <= clock /\ clock + 1 <= due + SteadyPoll
        BY <2>0, <2>3, CaptureAssumption
        DEF Drain, DrainKeeping, SteadyInv, KeepsUp, InTime, Prompt, TypeOK
      <4>4. lost' * FrameDuration <= (FrameDuration - PacketFrames) * clock
        BY <2>0, <4>1, <4>2, <4>3, BalancedLoss
      <4> QED
        BY <4>1, <4>2, <4>4 DEF Balanced, Balance, AtOpening, AfterSilence, LostToRounding
    <3> QED
      BY <3>1, <3>2
  <2>4. CASE Schedule
    <3>1. steady => due' = due
      BY <1>0, <2>0, <2>4, CaptureAssumption
      DEF Schedule, Resynchronised, SteadyInv, KeepsUp, Prompt, TypeOK
    <3> QED
      BY <2>4, <3>1
      DEF Schedule, Balanced, Balance, AtOpening, AfterSilence, LostToRounding
  <2>5. CASE EmitAudio
    <3>1. /\ due' = due + FrameDuration /\ head' = head + PacketFrames
          /\ UNCHANGED <<pc, lost, clock, steady>> /\ pc # "closed"
      BY <2>5 DEF EmitAudio, Offer
    <3>2. Balanced'
      BY <2>0, <3>1, AudioBalances, SlackType
      DEF Balanced, Balance, AtOpening, AfterSilence
    <3> QED
      BY <3>1, <3>2 DEF LostToRounding
  <2>6. CASE EmitSilence
    <3>1. /\ due' = due + FrameDuration /\ head' = head
          /\ UNCHANGED <<pc, lost, clock, steady>> /\ pc # "closed"
          /\ drained + 1 <= head + PacketFrames /\ pc = "emitting" /\ due <= now
      BY <2>0, <2>6, CaptureAssumption DEF EmitSilence, Offer, Queued
    <3>2. now \in Nat /\ offered \in Nat
      BY CaptureAssumption DEF SteadyInv, TypeOK
    <3>3. steady => due + 1 <= head + PacketFrames + SteadyPoll + SteadyBehind
      BY <2>0, <3>1, <3>2, CaptureAssumption DEF SteadyInv, KeepsUp
    <3>4. FrameDuration <= due
      BY <2>0, <3>1, <3>2, CaptureAssumption DEF ScheduleInv, OnSchedule
    <3>5. steady => lost = 0
      BY <1>0, <2>0, <3>1, <3>3, CaptureAssumption DEF SteadyInv, Lead, Polled
    <3>6. Balanced'
      BY <2>0, <3>1, <3>3, <3>4, <3>5, SilenceBalances
      DEF Balanced, Balance, AtOpening, AfterSilence
    <3> QED
      BY <3>1, <3>6 DEF LostToRounding
  <2>7. CASE Rest
    BY <2>7, <2>b DEF Rest
  <2>8. CASE Receive
    BY <2>8, <2>a DEF Receive
  <2>9. CASE Tick
    <3>1. UNCHANGED <<pc, head, due, lost>> /\ clock <= clock' /\ (steady' => steady)
      <4>1. UNCHANGED <<pc, head, due, lost>> /\ clock <= clock'
        BY <2>0, <2>9 DEF Tick
      <4>2. steady' => steady
        BY <2>9, Zenon DEF Tick
      <4> QED
        BY <4>1, <4>2
    <3>2. Balanced'
      BY <3>1 DEF Balanced, Balance, AtOpening, AfterSilence
    <3>3. LostToRounding'
      BY <2>0, <3>1, RoundingGrows DEF LostToRounding
    <3> QED
      BY <3>2, <3>3
  <2>10. CASE UNCHANGED vars
    BY <2>10, <2>a DEF vars
  <2> QED
    BY <2>1, <2>2, <2>3, <2>4, <2>5, <2>6, <2>7, <2>8, <2>9, <2>10 DEF Next
<1> QED
  BY <1>0, <1>1, <1>2, SteadyInvariant, ScheduleInvariant, PTL DEF Spec, RoundingInv

\* For every packet size and duration, whole frames or not, such an endpoint
\* loses what rounding leaves out of the schedule and no more: where packets hold
\* whole frames, nothing.
THEOREM SteadyLosesRounding == InStep => (Spec => []LostToRounding)
<1>1. RoundingInv => LostToRounding
  BY DEF RoundingInv
<1> QED
  BY <1>1, RoundingInvariant, PTL
=============================================================================
