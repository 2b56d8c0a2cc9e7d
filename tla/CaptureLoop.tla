---------------------------- MODULE CaptureLoop ----------------------------
(***************************************************************************)
(* The capture thread of the VM (audio_wasapi.rs): it polls the endpoint,  *)
(* queues what was recorded, and offers whole packets to the network loop  *)
(* on the schedule of the wall clock, with silence in the place of a       *)
(* packet it does not have.                                                *)
(*                                                                         *)
(* The clock counts the times of one frame, and a frame is its position in *)
(* the recording, so that the queue is the range head+1 .. drained and a   *)
(* packet is the position of its first frame.  Time may pass between any   *)
(* two steps: the endpoint and the two loops are asynchronous.             *)
(***************************************************************************)
EXTENDS Integers, Sequences

CONSTANTS
    PacketFrames,   \* frames_per_packet: rate * frame_ms / 1000, rounded down
    FrameDuration,  \* frame_ms, in times of one frame
    ScheduleReset,  \* SCHEDULE_RESET
    CaptureQueue,   \* CAPTURE_QUEUE
    Behind,         \* how far the recording may fall behind the clock
    Ahead,          \* and run ahead of it
    PollWithin,     \* the longest time between two polls
    Backlog,        \* packets the network loop may leave while time passes
    EndpointFails,  \* whether the endpoint may go away
    SteadyPoll,     \* PollWithin and Behind on a machine that is not overloaded
    SteadyBehind,
    MaxTime         \* bound on the clock

ASSUME CaptureAssumption ==
    /\ PacketFrames \in Nat \ {0}
    /\ FrameDuration \in Nat /\ PacketFrames <= FrameDuration
    /\ ScheduleReset \in Nat
    /\ CaptureQueue \in Nat /\ Backlog \in Nat
    /\ Behind \in Nat /\ Ahead \in Nat
    /\ PollWithin \in Nat \ {0}
    /\ EndpointFails \in BOOLEAN
    /\ SteadyPoll \in Nat \ {0} /\ SteadyBehind \in Nat
    /\ MaxTime \in Nat

VARIABLES
    clock,
    recorded,   \* frames the endpoint has recorded
    pc,         \* where the thread is
    drained,    \* queue: the last frame read from the endpoint
    head,       \* queue: the last frame taken out at the other end
    now,        \* `let now = Instant::now()` of the last poll
    due,        \* next_due
    channel,    \* packets offered and not yet received; Silence or a frame
    offered,    \* history: the playing time of all packets offered
    burst,      \* history: that of the packets offered in this poll
    silenced,   \* history: frames of silence offered since the opening
    lost,       \* history: frames dropped from the queue since the opening
    heard,      \* history: the last recorded frame the network loop received
    steady      \* history: endpoint and polls in time since the opening

vars == <<clock, recorded, pc, drained, head, now, due, channel,
          offered, burst, silenced, lost, heard, steady>>

Silence == 0

TypeOK ==
    /\ clock \in 0 .. MaxTime
    /\ recorded \in Nat
    /\ pc \in {"closed", "draining", "scheduling", "emitting"}
    /\ drained \in Nat /\ head \in 0 .. drained /\ drained <= recorded
    /\ now \in 0 .. clock
    /\ due \in Nat
    /\ channel \in Seq(Nat) /\ Len(channel) <= CaptureQueue
    /\ offered \in Nat /\ burst \in Nat
    /\ silenced \in Nat /\ lost \in Nat /\ heard \in Nat
    /\ steady \in BOOLEAN

Init ==
    /\ clock = 0 /\ recorded = 0
    /\ pc = "closed"
    /\ drained = 0 /\ head = 0
    /\ now = 0 /\ due = 0
    /\ channel = <<>>
    /\ offered = 0 /\ burst = 0
    /\ silenced = 0 /\ lost = 0 /\ heard = 0
    /\ steady = TRUE

Queued == drained - head

\* An endpoint that keeps up.
InTime(frames, time) == frames <= time /\ time <= frames + SteadyBehind

-----------------------------------------------------------------------------
(* The thread *)

\* The mutant, for FirstDue, has the first packet due before it is recorded.
DueAtOnce == clock
FirstDue == clock + FrameDuration

\* A new stream records from now on; queue and schedule start afresh.
Open ==
    /\ pc = "closed"
    /\ pc' = "draining"
    /\ drained' = recorded
    /\ head' = recorded
    /\ now' = clock
    /\ due' = FirstDue
    /\ silenced' = 0
    /\ lost' = 0
    /\ steady' = InTime(recorded, clock)
    /\ UNCHANGED <<clock, recorded, channel, offered, burst, heard>>

\* A call of drain_endpoint fails: the queue goes with the loop.
LoseEndpoint ==
    /\ EndpointFails
    /\ pc = "draining"
    /\ pc' = "closed"
    /\ UNCHANGED <<clock, recorded, drained, head, now, due, channel,
                   offered, burst, silenced, lost, heard, steady>>

\* "Four packets of slack".
MaxQueue == 4 * PacketFrames

\* drain_endpoint, and the oldest audio dropped from a queue too long.
DrainKeeping(kept) ==
    /\ pc = "draining"
    /\ pc' = "scheduling"
    /\ drained' = recorded
    /\ IF recorded - head > MaxQueue
       THEN /\ head' = recorded - kept
            /\ lost' = lost + (recorded - kept - head)
       ELSE UNCHANGED <<head, lost>>
    /\ UNCHANGED <<clock, recorded, now, due, channel,
                   offered, burst, silenced, heard, steady>>

\* The mutant drops the whole queue.
DrainClears == DrainKeeping(0)
Drain == DrainKeeping(MaxQueue)

\* The mutant, for Resynchronised, keeps the schedule however late it is.
NeverResynchronised == due
Resynchronised == IF clock > due + ScheduleReset THEN clock ELSE due

Schedule ==
    /\ pc = "scheduling"
    /\ pc' = "emitting"
    /\ now' = clock
    /\ due' = Resynchronised
    /\ burst' = 0
    /\ UNCHANGED <<clock, recorded, drained, head, channel,
                   offered, silenced, lost, heard, steady>>

\* try_send: a full channel drops the packet.  The next packet is due a
\* duration after this one was.  The mutant waits for nobody and drops nothing.
OfferUnbounded(packet) ==
    /\ pc = "emitting"
    /\ now >= due
    /\ channel' = Append(channel, packet)
    /\ due' = due + FrameDuration
    /\ offered' = offered + FrameDuration
    /\ burst' = burst + FrameDuration

\* The mutant, for Offer, leaves the schedule where it is until the poll ends.
OfferAtOnce(packet) ==
    /\ pc = "emitting"
    /\ now >= due
    /\ channel' = IF Len(channel) < CaptureQueue THEN Append(channel, packet)
                  ELSE channel
    /\ due' = IF packet = Silence THEN due ELSE due + FrameDuration
    /\ offered' = offered + FrameDuration
    /\ burst' = burst + FrameDuration

Offer(packet) ==
    /\ pc = "emitting"
    /\ now >= due
    /\ channel' = IF Len(channel) < CaptureQueue THEN Append(channel, packet)
                  ELSE channel
    /\ due' = due + FrameDuration
    /\ offered' = offered + FrameDuration
    /\ burst' = burst + FrameDuration

\* The mutant copies the packet and leaves it in the queue.
EmitCopy ==
    /\ Queued >= PacketFrames
    /\ Offer(head + 1)
    /\ UNCHANGED <<clock, recorded, pc, drained, head, now, silenced, lost,
                   heard, steady>>

EmitAudio ==
    /\ Queued >= PacketFrames
    /\ Offer(head + 1)
    /\ head' = head + PacketFrames
    /\ UNCHANGED <<clock, recorded, pc, drained, now, silenced, lost, heard,
                   steady>>

EmitSilence ==
    /\ Queued < PacketFrames
    /\ Offer(Silence)
    /\ silenced' = silenced + PacketFrames
    /\ UNCHANGED <<clock, recorded, pc, drained, head, now, lost, heard,
                   steady>>

\* Nothing more is due: thread::sleep(CAPTURE_POLL).
Rest ==
    /\ pc = "emitting"
    /\ now < due
    /\ pc' = "draining"
    /\ UNCHANGED <<clock, recorded, drained, head, now, due, channel,
                   offered, burst, silenced, lost, heard, steady>>

-----------------------------------------------------------------------------
(* Its surroundings *)

\* `Some(pcm) = capture_rx.recv()` in the network loop.
Receive ==
    /\ channel # <<>>
    /\ heard' = IF Head(channel) = Silence THEN heard
                ELSE Head(channel) + PacketFrames - 1
    /\ channel' = Tail(channel)
    /\ UNCHANGED <<clock, recorded, pc, drained, head, now, due,
                   offered, burst, silenced, lost, steady>>

\* Time passes, and the endpoint records in chunks of its own size.
Tick ==
    /\ clock < MaxTime
    /\ pc # "closed" => clock < now + PollWithin
    /\ Len(channel) <= Backlog
    /\ clock' = clock + 1
    /\ recorded' \in {n \in recorded .. clock' + Ahead : clock' <= n + Behind}
    /\ UNCHANGED <<pc, drained, head, now, due, channel,
                   offered, burst, silenced, lost, heard>>
    /\ steady' = (/\ steady /\ InTime(recorded', clock')
                  /\ pc # "closed" => clock < now + SteadyPoll)

Next ==
    \/ Open \/ LoseEndpoint \/ Drain \/ Schedule
    \/ EmitAudio \/ EmitSilence \/ Rest
    \/ Receive \/ Tick

Spec == Init /\ [][Next]_vars

-----------------------------------------------------------------------------
(* Properties *)

\* However late the polls, whatever the endpoint does and however often it is
\* reopened, no more audio is offered than time has passed: the host is never
\* made to buffer audio from a schedule that runs fast.
NeverAhead == offered <= clock

\* A poll that comes late makes up for at most SCHEDULE_RESET, and never "a
\* burst of thousands of packets".
BurstBounded == burst <= ScheduleReset + FrameDuration

\* The network loop receives what was recorded in order and no frame of it
\* twice, through drops at both ends of the queue, a full channel, and
\* reopenings.
InOrder ==
    \A i \in DOMAIN channel : channel[i] # Silence =>
        /\ heard < channel[i]
        /\ channel[i] + PacketFrames <= head + 1
        /\ \A j \in 1 .. i - 1 : channel[j] # Silence =>
               channel[j] + PacketFrames <= channel[i]

\* An endpoint that keeps up, polled in time, costs a few packets of silence
\* when it is opened and then none for ever: each packet of silence leaves one
\* more packet in the queue for the next time the endpoint is late.
FewGaps ==
    steady /\ silenced > 0 =>
        silenced + FrameDuration < SteadyPoll + SteadyBehind + 2 * PacketFrames

\* Such an endpoint loses no audio from the queue but what the rounding of
\* frames_per_packet leaves out of the schedule, and where there is no rounding,
\* none.
LostToRounding ==
    steady => lost * FrameDuration <= (FrameDuration - PacketFrames) * clock
=============================================================================
