# The audio bridge in TLA+

`audiobridge` carries PCM audio between a Linux host that has the headset and a
Windows guest that has the applications. This directory models it: the jitter
buffer every stream ends in, the two session loops and the bridge they form over
a network that loses, repeats and reorders datagrams, their timers, the audio
threads, the capture schedule, the lengths of the datagrams, and what becomes of
two configurations. TLC checks small instances, TLAPS proves the safety
properties for every value of the constants.

    tlc -workers 2 -config MCJitterStream.cfg MCJitterBuffer    # any run
    tlapm JitterBufferProofs.tla                                # any proof module

## 1. The system

| Component | Source | State | Operations |
|---|---|---|---|
| Jitter buffer | `crates/proto/src/jitter.rs` | queue of samples, interpolator (`prev`, `frac`, `rate`), `warming`, `expected_seq`, counters | `push`, `pull`, `reset` |
| Wire protocol | `crates/proto/src/lib.rs` | none | `encode`, `encode_audio`, `decode`, `Format::validate`, `token_matches` |
| Host loop | `crates/host/src/net.rs`, `main.rs` | `established`, `last_rx`, `seq`, ping bookkeeping, counters | a biased `select!`: ctrl-c, datagram, microphone PCM, hello timer, ping timer, stats |
| PulseAudio threads | `crates/host/src/pulse.rs` | open device | capture: read and `try_send`; playback: `pull` and write; both reopen a lost device |
| VM loop | `crates/vm/src/net.rs` | `Option<Session>` (id, peer, formats, threads, `last_rx`, `seq`), counters | a biased `select!`: ctrl-c, datagram, captured PCM, sweep, stats; `handle_hello`, `start_session`, `shut_down` |
| WASAPI threads | `crates/vm/src/audio_wasapi.rs`, `audio.rs` | open endpoint, capture backlog and schedule | render: `pull` on an event; capture: poll, emit on a wall-clock schedule; both reopen a lost endpoint; `stop` joins |
| Audio stub | `crates/vm/src/audio_stub.rs` | none | fails |
| Configuration, command lines | `config.rs`, `main.rs` of both | none after start | parse, validate |

How they interact. A host draws a session identifier when it starts and sends
`Hello` until an ack says `Ok`; from then on microphone packets go one way,
speaker packets the other, and a ping every two seconds keeps the session alive.
The VM agent starts two audio threads per session and joins them when the
session is closed (`Bye`), replaced (another `Hello`), swept (silence for
`idle_timeout`) or when the agent ends. Each audio thread meets its loop in two
places: a bounded channel, filled with `try_send` and emptied by the loop, and a
jitter buffer under a mutex, pushed by the loop and pulled or reset by the thread.

What is hard here, and therefore what the properties are about:

* the network: everything one end believes of the other may be old. Delayed and
  repeated `Hello`, `HelloAck`, `Bye` and audio of earlier sessions and earlier
  processes reach a later one on the same port;
* two loops, up to four audio threads, and crashes of either agent at any point;
* the arithmetic of a wrapping sequence number and of a fractional read position;
* a failure half-way through starting a session;
* that the bridge comes back by itself after any of it.

Per component, what makes it correct:

* *Jitter buffer*: time is never shifted (a packet is heard in its own slot or
  not at all), latency is capped, nothing is heard twice or out of order, a loss
  is counted exactly, whatever the packets do around the wrap.
* *Session loops*: only a host that was admitted thinks the bridge is up; a live
  session is not taken over or ended by others; the threads that run are those
  of the session; a buffer takes in no packet twice until it is reset; both ends
  agree again eventually, the bridge comes up, and the devices of a dead host are
  released.
* *Audio threads*: packets leave on schedule, a queue never grows past its bound,
  a stop takes bounded time.
* *Wire protocol*: what is encoded is decoded, and what is cut off is refused.

`PROJECT.json` lists the hazards line by line, with the properties that would
catch each.

## 2. Modules

| Module | Models | Uses |
|---|---|---|
| `SeqSpace` | the u32 sequence numbers: wrap, signed distance, the three verdicts of `push` | |
| `Playout` | **abstract**: what a listener is promised of a one-way stream | |
| `JitterBuffer` | `JitterBuffer` of `jitter.rs`, implements `Playout` | `SeqSpace` |
| `Wire` | datagrams, the network, what an audio receiver admits | `SeqSpace` |
| `HostAgent` | `host::net::run` | `Wire` |
| `VmAgent` | `vm::net::run`, `handle_hello`, `start_session`, `shut_down` | `Wire` |
| `Lease` | **abstract**: who has the audio devices of the VM | |
| `Bridge` | any number of host processes, one VM agent, the network; implements `Lease` | `HostAgent`, `VmAgent` |
| `BridgeAudio` | `Bridge` with a history: was the link prompt so far? | `Bridge` |
| `KeepAlive` | Hello, ping, sweep and both idle timeouts of one host and the VM, with time | |
| `CaptureLoop` | `capture_loop`, `emit_due_packets` and the channel to the network loop, with time | |
| `AudioThreads` | the threads of `audio_wasapi.rs` and `pulse.rs` and the loop that starts and joins them, with time | |
| `WireFormat` | lengths of datagrams, what is cut and what a reader makes of the rest; formats and their validation | |
| `Startup` | from two configurations to two streams: `load`, `validate`, `run`, handshake, first packets | `WireFormat` |
| `MCJitterBuffer`, `MCBridge`, `MCBridgeHosts`, `MCBridgeAudio`, `MCKeepAlive`, `MCCaptureLoop`, `MCAudioThreads`, `MCStartup` | instances for TLC; `MCCaptureLoop` lets only punctual runs go on for long; `MCKeepAlive` adds a history: have only losses gone wrong so far? | |
| `SeqSpaceProofs`, `JitterBufferProofs`, `BridgeProofs`, `BridgeAudioProofs`, `CaptureLoopProofs`, `AudioThreadsProofs`, `KeepAliveProofs`, `StartupProofs` | theorems | |

Operators whose comment says *mutant* are plausible mistakes in the definition
next to them. Nothing uses them; putting one in place of its definition makes
the property named in `PROJECT.json` fail.

The code is modelled three times over where it answers three questions. `Bridge`
has every handler and every order of datagrams but no lengths of time;
`KeepAlive` has the same timers with their lengths but one host, no audio and no
refusals; `AudioThreads` opens the `shut_down` that is one step of `VmAgent`.

### JitterBuffer and code

A frame is its position in the sender's stream, `Filler` is concealment or
silence, so a queue says which sound it holds and where it belongs. One channel
is modelled: every operation of the code moves whole frames. `Unit` is 1.0 in
fixed point; `frac` and `rate` are exact multiples of 1/`Unit`.

| Code | Model |
|---|---|
| `push`, first packet / late / jump / in step | `PushFirst` / `PushLate` / `PushRestart` / `PushInStep` |
| `conceal`, `trim` | `Concealed`, `Excess`, `Trimmed` (inside the push) |
| `pull`, warming / enough frames / ran dry | `PullSilence` / `PullFrames` / `PullUnderrun` |
| the loop over output frames | closed form: `Position`, `Consumed`, `RunsDry` |
| `update_rate` | any rate between the old one and `Desired` (`NextRates`) |
| `reset` | `Reset` |

`next` and `origin` are history variables: which packet `expected` stands for,
and where the count of the present stream began. `InWindow` says what a u32 can
say at all: packets within half the sequence space of the newest one, 248 days
of 10 ms packets. `DeltaIsDistance` proves that within it the wrapping
comparison is the true distance.

### Host, VM and bridge and code

`HostAgent` and `VmAgent` have one action per arm of the `select!`, per kind of
datagram, and per outcome of `handle_hello`. A handler runs to its end before
the loop selects again (its sends are the only awaits, and nothing else touches
its state), so each is one step. Every other step can come between two of them.

* A host process *is* its session identifier, its token, its address and its
  formats: none of them changes while it lives. A restarted agent is another
  process, possibly on the same address, never at the same time.
* `last_rx` is kept as one bit, `hostFresh` and `session.fresh`: has idle_timeout
  passed? `HostQuiet` and `VmQuiet` turn it, at any moment; so time is abstract,
  and all orders of timeouts and datagrams occur.
* The jitter buffers appear as what they admit: `expected`, and as history the
  packets `taken` since the last reset (`Admits` is the verdict of `push`). A
  reset forgets both (`Deaf`), as `reset` does: the history says nothing of what
  was played before it.
* `captured` is the channel between capture thread and loop, each packet
  represented by the format it was recorded in.
* `threads` counts the audio threads alive; `ThreadsWithout` is `shut_down`.
* `FailSession` is `start_session` returning early, for the threads in
  `SpawnFails`.
* `Posted` and `After` are the network: a datagram is dropped when `NetCap` are
  in flight, and stays or not when delivered; `Lose` drops one.

### Lease and code

A `Grant` is an Ok, `Renew` any datagram of the owner, `Lapse` the idle timeout,
`GiveUp` a `Bye`, a sweep, or a replacement whose threads fail to start. The
mapping is `Holder`, `Live`, `Ended` and `vmUp` of `Bridge`. What `Lease` adds to
the invariants is *why* a session may end: its holder is gone, or silent, or
somebody entitled to take over has asked.

### KeepAlive and code

Every time is relative to now: the age of what was last heard (`hostAge`,
`vmAge` for `last_rx.elapsed()`) and how soon a timer is due. A tokio interval
that is not polled falls behind (`helloDue` while the session is up) and makes up
for every tick it missed; `MaxMissed` bounds how far. A datagram travels for at
most `MaxDelay`; `Sweep` blocks the loop for up to `MaxJoin`, in which datagrams
wait in the socket (`Held`). `Tick` is enabled only when nothing that is looked at is
due and no datagram is overdue. Neither direction carries audio, which would
only keep the two together more easily.

### CaptureLoop and code

The clock counts frames, and a frame is its position in the recording, so the
queue is a range of positions. A turn of the loop is `Drain`, `Schedule`, then
`EmitAudio` or `EmitSilence` for every packet due, then `Rest`; time may pass
between any two of them (`Tick`), in which the endpoint records as much as
`Behind` and `Ahead` allow. `LoseEndpoint` drops queue and schedule, as leaving
`capture_loop` does. `offered`, `burst`, `silenced`, `lost`, `heard` and `steady`
are histories; `steady` says that endpoint and polls have kept up since the
endpoint was opened.

### AudioThreads and code

| Code | Model |
|---|---|
| the spawned closure | `Starts`, `CannotStart` (`init_com`), `Checks` (`while !stop`) |
| `find_device` | `FindDevice`: the exact name, else the only one that contains the wanted name |
| opening a stream | `Opens`, `CannotOpen` |
| the loop in the stream | `Streams` (looks at `stop`), `Wakes`, `TimesOut` (event timeouts in a row), `Fails` |
| the sleep of `REOPEN_DELAY` | `Slept`, in steps of `Tick` |
| `start_session`: both threads, or an early return | `StartSession`; `FailSession`, for the threads in `SpawnFails` |
| `shut_down`, the end of the host's `main` | `ShutDown`, `JoinFirst`, `JoinSecond` |

The constants tell the agents apart: the VM joins `render` first, waits for an
event there and sleeps after every failure; the host joins `capture` first,
blocks in calls on the stream and reopens a stream that failed at once. In the VM
either thread may fail to be spawned; the host panics in `expect` and is gone. A
render thread whose session failed to start because of its capture thread is
`Forgotten`: it goes on among the threads of later sessions, and nobody stops it.
`Replug` adds and removes an endpoint and changes the default one. A capture thread also
ends when its channel is closed, which happens only when the process goes down.

### WireFormat, Startup and code

A token is a name and a length, a message a number of characters of one width,
the samples of a packet their number. `Startup` picks any pair of configurations
and follows them: `LoadHost`, `LoadVm` (validation), `RunHost` (an interval
without a period panics), `SendHello`, `AnswerHello`, `HearAck`, and per
direction `SendAudio` and `HearAudio`. The network there is one datagram at a
time and loses none; `Bridge` has the other network.

## 3. Runs

| Run | Question | Result | States |
|---|---|---|---|
| `jitter` | alignment, cap, lookahead, counters, and the refinement of `Playout`, across the wrap and in the middle of packets | pass | 246 k |
| `bridge_handover` | five processes on two addresses compete for a VM that restarts: threads match the session, only the admitted are up, live sessions are kept, `Lease` is implemented | pass | 1.0 M |
| `bridge_audio` | a stream both ways through resets, re-handshakes and restarts of the VM: typed, nothing taken in twice between two resets, no fresh playback refused on a prompt link | pass | 454 k |
| `bridge_live` | liveness: the bridge comes up, disagreements heal, dead hosts are released | pass | 21 k |
| `capture` | the capture schedule and its queue, until a punctual stream sheds what rounding leaves in it | pass | 5.1 M |
| `threads` | the audio threads of the VM, also when a session fails to start, and of the host, with liveness | pass | 123 k |
| `keepalive` | who notices what, and when, with the shipped timeouts | pass | 194 k |
| `startup` | all pairs of configurations, with liveness | pass | 220 k |
| `jitter_reorder`, `bridge_mic_muted`, `bridge_stale_pcm`, `bridge_thread_leak` | statements of the sources that the code does not keep | violated, see 5 | |

Bounds, and why they are enough:

* `jitter`: `HalfSpace` 12 and packets on both sides of the wrap, so that every
  relation of a number to the expected one occurs, at both ends of the window
  and around `ResyncGap` 9. Concealing the largest gap (18 frames) onto what is queued
  exceeds the cap (20), as in the code (50 packets against 16). Two frames per packet and a target of 5: a
  trim, a pull and an underrun can cut a packet. `Unit` 4 with deviation 1 is a
  coarser grid than f64, with the same crossings of a frame boundary.
  `MaxPushes` 4: fill, gap, restart, and a repeated or late packet.
* `bridge_*`: an owner, a rival at another address, a successor of the owner at
  its own address and in another format, a process without the token at the
  rival's address and one with a refused format at the owner's. `NetCap` 2 holds an
  old datagram while an exchange goes on. Audio packets 2 each way: the smallest
  stream with a duplicate and a successor. `MaxLives` 2: one restart of the VM.
  That a host may be restarted at its address while it is being played to, with
  three datagrams of the process before still about, is more than `bridge_audio`
  has room for; `OnlyPlayedIsLate` below has it for any number of both.
* `capture`: two frames in the time of three, so that packets are rounded
  (22.05 and 44.1 kHz at 5 ms). A punctual stream of such packets gains a frame on
  its schedule in every three, and its queue of four packets sheds the first one
  at 13, so the clock runs to 20: runs that have been punctual since the endpoint
  was opened lose up to three frames, after an opening with silence and without, and
  the mutant of `LostToRounding` breaks there and nowhere earlier. Up to
  `AnyTime` 9 anything may happen: an endpoint that is late by two packets, early
  by one, lost and reopened; polls late by seven frames, which is two packets in
  one poll (`SCHEDULE_RESET` is a frame duration) or a schedule that restarts; a
  channel of two, in which two packets of audio can stand. After it only the runs
  that are punctual go on (`LongNext`).
* `threads`: two sessions of the VM, the first or the second of which may fail to
  start. A wait of 1, for an event or a poll, a delay of 2 and two event timeouts:
  the order of these lengths is that of the code (200 ms and 2 ms, 1 s). Three
  endpoints with the names of `config/vm.toml`, one of which is part of another;
  they come and go one at a time. `MaxBlocked` 7 is above the bound of 5 that is
  checked.
* `keepalive`: the shipped timeouts exactly, in units of 250 ms, a delay of
  500 ms, a join of up to a second.
* `startup`: the shipped format, the largest, the rounded ones and three that are
  refused; tokens of 0, 64, 255 and 300 bytes and a foreign one; summaries that
  are cut, within a character and at one; timeouts and buffers at and below
  their limits. Formats are combined with directions, and the rest with the
  shipped format.
* No run needs symmetry. Deadlock is not checked where the system may really
  stop: processes may end, the bounded counters stop the streams, a refused
  configuration goes nowhere.

Fairness is what the code's scheduling gives, and no more.

* `Bridge!Fairness`: timers fire (`LinkLost`, `Sweep`: weak). A socket nobody
  sends to becomes quiet (`HostQuiet` and `VmQuiet`, only while nobody sends). A
  datagram does not stay in flight for ever. The network is assumed not to lose
  every one of infinitely many Hellos and acks (strong, on the sends that get
  through and on the ack being handled), which UDP between a host and its guest
  gives and without which no protocol comes up. Nothing makes an agent start,
  stop or crash. In `bridge_live` no thread fails to start; one that always fails
  would keep the bridge down rightly.
* `MCAudioThreads!AgentSpec`: every thread is scheduled, the loop is, and time
  passes (weak). Nothing makes an endpoint fail, come back or signal; a wait ends
  because it has a timeout, or because a call on a stream returns.
* `Startup!LiveSpec`: the steps of the agents (weak) and what is sent again and
  again (strong), since one datagram is under way at a time.

## 4. Proofs

Every theorem holds for every value of the constants that the `ASSUME`s of the
modules admit; TLC evaluates those in the runs. Some theorems have a further
premise, stated in them.

`SeqSpaceProofs`: division lemmas, and `DeltaIsDistance`.

`JitterBufferProofs`, for every packet size, target, gain, cap and sequence
space, with packets from any set:

* the inductive invariant `IInv` is the conjunction of the checked properties and
  `StreamTracked`, which ties the number the code keeps (`expected`) to the
  stream (`next`) and says a buffer without a stream is silent and empty. Without
  it no push step could be proved: the verdict on a number means nothing until
  it is known what the expected number stands for. `TypeOK` alone does not bound
  `frac` either: a pull must know that an awake buffer has frames.
* one lemma per action that it preserves `IInv` (`PushFirstPreserves`, ...),
  then `TypeCorrect`, `SlotsStayAligned`, `LatencyIsBounded`, `LookaheadIsHeld`,
  `NothingIsReplayed`, `CountersAreExact`.
* `ImplementsPlayout`: each action maps to an action of `Playout` or a stutter,
  with the position of the queue's head as `cursor` and `prev` as `heard`.

`BridgeProofs`, for every set of hosts, addresses, formats and bound:

* `TypeCorrect`, with `ThreadsOwned` (a session has two threads to give back) as
  strengthening: without it a join could count below zero;
* `OnlyTheAdmitted`, strengthened by `AdmissionInv`: every positive ack *in
  flight* is for a welcome process, since a host believes what it reads;
* `SessionsAreKept`, an action property, by cases on the steps of the VM agent;
* `NoThreadLeaks`: under the assumption that capture threads start, the threads
  match the session. The assumption is needed: `bridge_thread_leak`.
* `SessionsAreLeases`, that `Bridge` implements `Lease`. The invariant `LeaseInv`
  adds that a session is at its guest's address in its guest's format, and that
  every datagram in flight is `Authored`: it comes from the address of the process
  it names, and a `Bye` only from one that has ended. That is what makes a stray
  `Bye` harmless, and it is an assumption on the network: a datagram may be lost,
  late or repeated, and is never forged.

`BridgeAudioProofs`, for the same, and while no sender has used up half of the
2^32 sequence numbers:

* `TakenOnceBetweenResets`: no packet is taken in twice before its buffer is reset,
  however often a sender starts over at 0 meanwhile. `SpeakerInv` and `MicInv` say that
  a packet in flight has one number, below the count of what was sent, and that
  the number a buffer expects is above that of every packet it took in
  (`Remembers`): a repeat is late, also when the sender has started over at 0 in
  between. Without the premise a packet repeated 2^31 packets later would pass for
  a new one.
* `OnlyPlayedIsLate`: `SpeakerLateMeansPlayed`, on a `Prompt` link. Nothing in a
  speaker packet tells one numbering from the next, so the proof is about who may
  hold on to an old one. `ClaimInv`: a running host that is up and has a Hello in
  flight, or has an Ok in flight, is the one whose session the VM holds, and that
  session is fresh; a Hello in flight is from nobody but the process that has its
  address now. So a Hello that replaces the session finds no such claim
  (`NoClaimOpens`): whoever sent it is not up, and resets its buffer when the ack
  comes. `OneStream`: the packets in flight are of one session and numbered from
  one offset, that of the session that is there. `Follows`: what a host that is up
  expects is numbered from that offset too, next after a packet it took in. A late
  packet is then before that one. Each clause of `Prompt` is used in one place:
  silence of the VM's loop and a restart of either agent end claims
  (`VmStepClaims`, `HostClaims`), an opening starts a stream of its own
  (`OpenNumbering`).

`CaptureLoopProofs`: `CaptureTypeCorrect`; `CaptureNeverAhead` and
`CaptureBurstBounded` from `ScheduleInv`, which keeps what was offered behind the
schedule and the schedule behind the clock plus one packet; `CaptureInOrder` from
`Ordered`, which places channel, receiver and queue in one line. `SteadyFewGaps`
needs `Lead`: the schedule is ahead of the queue by the silence that was inserted, so
every packet of silence makes the next one less likely. Its premise `Polled` asks
that two polls and the lateness of the endpoint fit in two packets: an endpoint
with a 10 ms period polled every 2 ms satisfies it with 10 ms packets, and does not
with 5 ms packets. `SteadyLosesRounding` is about every packet size, whole frames or
not. Its invariant `Balanced` keeps accounts: `FrameDuration` times what was lost plus
`PacketFrames` times the schedule stays within `FrameDuration` times what was taken
from the queue, and a constant. A packet of audio and a drop move both sides alike;
silence moves only the schedule, but comes so early that the constant is small.
When the queue sheds, at least four packets are left in it, which is more than that
constant, and the balance turns into the bound. The premise `InStep` asks besides that a
poll in time never restarts the schedule, which 2 ms against 200 ms does.

`AudioThreadsProofs`: `ThreadsTypeCorrect`, `EndpointsAreReleased`,
`DeadEndpointsAreReopened` from `ThreadInv`: threads outside the session being
served or joined are settled or forgotten (`OnlyAlive`), and the silence of an
endpoint is what timer and timeouts say. Without the exception `EndpointsReleased`
would be false: `bridge_thread_leak`. `DirectionsStayApart` needs the premise that both names are
configured and no endpoint answers to both (`Apart`). `ShutDownsAreBounded` comes from
`BlockedInv`: while the loop joins a thread, the time already spent plus what is
`Left` of that thread's work stays within the bound; the second thread joined has
been stopping since the first was told to, so it has little left. Its premise
`Polls` says that this second thread waits for no event, as in both agents.

`KeepAliveProofs`, for every delay, timeout, period and number of losses:

* `KeepAliveTypeCorrect`; `HostsNotice` and `DevicesAreReleased` from `PingInv` and
  `SweepInv`, which tie an age to the timer that looks at it: their sum is
  bounded, so an age cannot grow past the timeout without a look.
* `TogetherAgainInTime`. `ApartInv` follows every datagram by which the two can
  come together, one conjunct for each way of being apart: when the host has given
  up, it asks by a certain time or its Hello is under way (`AskedBy`), or the
  answer is (`AckDue`); when only the host believes, the disagreement is hardly
  older than what it heard last (`HostAloneInv`); and a Hello that waits for
  threads to be joined was sent early enough (`JoinInv`). The premise `Patient` has
  two parts. A datagram lives no longer than the VM's idle timeout: otherwise the
  sweep closes a session whose ack is still under way, and TLC shows the bound
  broken. And a handshake period plus a join fits in the time a host takes to
  notice. The shipped values satisfy both with seconds to spare.
* `CalmLinksStay`: `Stays`, an action property. `CalmInv` counts the pings in a row
  that were lost against both ages: what the host heard last is at
  most one period older than those, or two while a ping or its answer is under way
  (`HeardInv`), and so is, with the delay, what the VM heard (`VmHeardInv`). The premise `Steady` says that a ping and its answer pass between
  two pings, and that `MaxLosses + 1` periods fit in both idle timeouts: it is the
  relation between `idle_timeout_ms` and the ping interval that no validation checks.

`StartupProofs`: `StartupTypeCorrect`; `StreamsAreWhole`, because header (odd) and receive buffer (even)
never leave whole samples of a packet that was cut, and `OnlyCompatibleStream`,
because every datagram under way was sent under a configuration its sender
accepted.

Only model-checked: the liveness properties (`EventuallyUp`, `DivergenceHeals`,
`DeadHostReleased`, `StopsReturn`, `NeverGivesUp`, `CompatibleStream`). Liveness
under fairness and ENABLED are outside the reach of the prover, as are facts by
induction over recursive definitions, of which the modules have none. Every
invariant and action property of a passing run is proved.

## 5. Where the sources disagree with themselves

Shown by runs:

* `jitter_reorder`: a packet overtaken by its successor is refused and counted
  late although its slot is still in the queue, as concealment. The comment on
  `late` says the slot had been played. The buffer absorbs jitter, not reordering.
* `bridge_mic_muted`: a host that lost the link restarts its sequence at 0 when
  it is accepted again; the VM, which saw a repeated Hello of the session it has,
  keeps its buffer. All microphone packets are late until the old number is
  reached: a pause of the VM of five seconds after an hour mutes the microphone
  for an hour.
* `bridge_stale_pcm`: PCM recorded under one session is sent under the next, at
  most eight packets, with a header computed for another channel count.
* `bridge_thread_leak`: when the capture thread does not start, the render thread
  that did is never stopped and holds the endpoint. The sessions after it open the
  endpoint beside it; `EndpointsReleased` says that no other thread outlives its
  session.

Seen while modelling; the models keep the behaviour, and the properties next to it
say under which condition the promise holds:

* a packet of silence is sent while the queue holds audio that does not fill a
  packet yet (`audio_wasapi.rs:417`; 393-394 say "when the endpoint has nothing to
  give"); `FewGaps` bounds it;
* a stop may take up to two `REOPEN_DELAY`s and a wait, not one event timeout
  (`audio_wasapi.rs:36-37`, `audio.rs:43-44` of the VM); `ShutDownBounded` is the
  bound;
* a device name that matches nothing shows in the VM's log only, the Ok having been
  sent before anyone looks for it (`vm/src/net.rs:5-6` says otherwise);
* a lost link is followed by a burst of Hellos, one for each missed tick
  (`host/src/net.rs:70`, against `config/host.toml:8`);
* a token of more than 255 bytes never matches (`lib.rs:382`, against
  `README.md:96`); an ack whose message is cut within a character is malformed
  for the host, which stays down (`lib.rs:402`). `CompatibleStream` excludes both;
* `handshake_timeout_ms = 0` passes `--check` and panics (`host/src/net.rs:71`,
  `main.rs:37`);
* 96 kHz stereo in 20 ms packets validates, takes 7697 bytes, and is never heard:
  the receive buffer holds 4096 (`lib.rs:38`, against 190-192 and
  `tests/session.rs:141`). `CompatibleStream` asks only for what `Fits`. Where
  `recv_from` refuses a datagram that is too long instead of cutting it, nothing
  is heard either;
* a playback packet of the session before that arrives after the new ack locks the
  host's buffer on the old numbers. `SpeakerLateMeansPlayed` holds on a `Prompt`
  link: a datagram lives shorter than the timeouts and does not outlive a restart
  of either agent, and no playback is in flight when a session opens, which leaves
  out just this packet: the property is about resets and restarts. The streams are
  told apart by nothing but time;
* a buffer that was reset takes any packet first (`jitter.rs:136-140`), a repeat of
  one it played before included. `OnceBetweenResets` therefore ends at a reset;
* with the shipped timeouts one lost datagram between two that the host hears does
  not part the two ends (`Stays`); two in a row can.

## 6. What is not modelled

* Samples: amplitude, fading, interpolation between two frames, the exact value
  of the rate. The filler is one value. That the fill level returns to its target
  under a constant clock error is therefore not stated.
* Bytes: the encodings themselves, and datagrams that no agent sends (dropped
  with a log line by both loops). `WireFormat` has their lengths.
* The handlers of datagrams the peer never sends (`Ping` at the host, `Pong` and
  `HelloAck` at the VM); counters, round-trip times and logging, which nothing
  reads; TOML syntax, defaults of missing fields, argument parsing, device listing
  and tracing, which keep no state after the start.
* Directions that are off (`enabled = false`) in `Bridge`; they are in `Startup`.
* Stream parameters handed to PulseAudio and WASAPI, and what these do with them.
* A session identifier drawn twice: identifiers come from the clock and the
  process number, and are taken to be distinct.
* A Ctrl-C that arrives while a handler runs: what becomes of it is up to tokio.

## 7. Plan

Done: all modules of section 2, the two refinements, and the theorems of
section 4. What would come next:

1. `DriftControl`: the rate under a constant clock error, with exact smoothing.
2. The threads of `AudioThreads` as a refinement of what `VmAgent` takes a session's
   threads to be: started with it and gone when `shut_down` returns.
