---------------------------- MODULE AudioThreads ---------------------------
(***************************************************************************)
(* The life of the audio threads: started with a session, opening the      *)
(* endpoint they find, losing it, waiting to try again, and joined one     *)
(* after the other by the loop that ends the session (audio_wasapi.rs,     *)
(* audio.rs and shut_down of the VM; pulse.rs and main of the host, where  *)
(* the process is the only session).                                       *)
(*                                                                         *)
(* Steps of a thread take no time but for its waits: on the endpoint, for  *)
(* at most WaitMax, and before it reopens, for ReopenDelay.                *)
(***************************************************************************)
EXTENDS Integers, FiniteSets

CONSTANTS
    MaxSessions,        \* bound on the sessions started
    MaxBlocked,         \* bound on the history of how long the loop has waited
    First,              \* the thread joined first: "render" in the VM
    WaitMax,            \* how long a thread waits on its endpoint at most
    EventDriven,        \* the threads that wait for an event of the endpoint
    MaxEventTimeouts,   \* MAX_EVENT_TIMEOUTS
    ReopenDelay,        \* REOPEN_DELAY
    BlockingCalls,      \* whether the wait is a call on the stream (PulseAudio)
    InitFails,          \* the threads whose init_com may fail
    SpawnFails,         \* the threads that may fail to be spawned
    Names,              \* friendly names of endpoints
    Matches,            \* the names each configured name is a part of
    Wanted,             \* the configured name of each thread
    Default             \* `None`: no name is configured

Kind == {"render", "capture"}
Session == 1 .. MaxSessions
Thread == Session \X Kind

ASSUME ThreadsAssumption ==
    /\ MaxSessions \in Nat /\ MaxBlocked \in Nat
    /\ MaxEventTimeouts \in Nat \ {0}
    /\ WaitMax \in [Kind -> Nat \ {0}]
    /\ ReopenDelay \in Nat \ {0}
    /\ \A kind \in Kind : WaitMax[kind] <= ReopenDelay
    /\ First \in Kind
    /\ EventDriven \subseteq Kind /\ InitFails \subseteq Kind
    /\ SpawnFails \subseteq Kind
    /\ BlockingCalls \in BOOLEAN
    /\ Default \notin Names
    /\ Wanted \in [Kind -> DOMAIN Matches \cup {Default}]
    /\ \A wanted \in DOMAIN Matches : Matches[wanted] \subseteq Names

VARIABLES
    session,    \* the number of sessions started
    loop,       \* what the loop does: "idle", "serving" or whom it joins
    thread,     \* the threads of all sessions
    blocked,    \* how long it has waited in this shut_down
    endpoints,  \* the endpoints that are there
    default     \* the default one of them

vars == <<session, loop, thread, blocked, endpoints, default>>

Places == {"none", "starting", "checking", "opening", "streaming",
           "waiting", "sleeping", "ended"}

TypeOK ==
    /\ session \in 0 .. MaxSessions
    /\ loop \in {"idle", "serving"} \cup Kind
    /\ thread \in [Thread ->
          [pc : Places, stop : BOOLEAN, timer : 0 .. ReopenDelay,
           timeouts : 0 .. MaxEventTimeouts - 1, silent : Nat,
           on : Names \cup {Default}]]
    /\ blocked \in Nat
    /\ endpoints \subseteq Names
    /\ default \in endpoints \cup {Default}

NoThread == [pc |-> "none", stop |-> FALSE, timer |-> 0, timeouts |-> 0,
             silent |-> 0, on |-> Default]

Init ==
    /\ session = 0
    /\ loop = "idle"
    /\ thread = [x \in Thread |-> NoThread]
    /\ blocked = 0
    /\ endpoints = Names
    /\ default \in Names

-----------------------------------------------------------------------------
(* A thread *)

At(x, place) == thread[x].pc = place

\* Outside a stream nothing of it is kept but the stop flag.
Goes(x, place) ==
    /\ thread' = [thread EXCEPT ![x] =
           [NoThread EXCEPT !.pc = place, !.stop = thread[x].stop]]
    /\ UNCHANGED <<session, loop, blocked, endpoints, default>>

Waits(x) ==
    /\ thread' = [thread EXCEPT ![x].pc = "waiting"]
    /\ UNCHANGED <<session, loop, blocked, endpoints, default>>

\* The names that contain the one wanted.
Fuzzy(wanted) == Matches[wanted] \cap endpoints

\* The mutant falls back on the default endpoint.
FindOrDefault(wanted) ==
    IF wanted # Default /\ wanted \in endpoints THEN {wanted}
    ELSE {default} \cap endpoints

\* "Exact friendly-name match wins; failing that a unique case-insensitive
\* substring match".
FindDevice(wanted) ==
    CASE wanted = Default -> {default} \cap endpoints
      [] wanted \in endpoints -> {wanted}
      [] OTHER -> IF Cardinality(Fuzzy(wanted)) = 1 THEN Fuzzy(wanted) ELSE {}

\* init_com; a thread that cannot use COM ends with an error in its log.
Starts(x) == At(x, "starting") /\ Goes(x, "checking")
CannotStart(x) ==
    /\ At(x, "starting")
    /\ x[2] \in InitFails
    /\ Goes(x, "ended")

\* `while !thread_stop.load(...)`, outside the stream and in it.
Checks(x) ==
    /\ At(x, "checking")
    /\ Goes(x, IF thread[x].stop THEN "ended" ELSE "opening")

Opens(x) ==
    /\ At(x, "opening")
    /\ \E found \in FindDevice(Wanted[x[2]]) :
          thread' = [thread EXCEPT ![x] =
              [@ EXCEPT !.pc = "streaming", !.timeouts = 0, !.silent = 0,
                        !.on = found]]
    /\ UNCHANGED <<session, loop, blocked, endpoints, default>>

\* The mutant, for CannotOpen, gives up.
GivesUp(x) == At(x, "opening") /\ Goes(x, "ended")

CannotOpen(x) == At(x, "opening") /\ Goes(x, "sleeping")

\* The mutant looks at the stop flag outside the stream only.
StreamsOn(x) == At(x, "streaming") /\ Waits(x)

Streams(x) ==
    /\ At(x, "streaming")
    /\ IF thread[x].stop THEN Goes(x, "checking") ELSE Waits(x)

\* A call on the stream fails: the VM waits before it reopens the endpoint,
\* the host reopens it at once.
Fails(x) ==
    IF BlockingCalls
    THEN At(x, "waiting") /\ thread[x].timer > 0 /\ Goes(x, "checking")
    ELSE At(x, "streaming") /\ ~thread[x].stop /\ Goes(x, "sleeping")

\* The endpoint takes or gives its audio, or the poll interval is over.
Wakes(x) ==
    /\ At(x, "waiting")
    /\ thread[x].timer > 0
    /\ thread' = [thread EXCEPT ![x] =
           [@ EXCEPT !.pc = "streaming", !.timer = 0, !.timeouts = 0,
                     !.silent = 0]]
    /\ UNCHANGED <<session, loop, blocked, endpoints, default>>

CountsTimeout(x, last) ==
    /\ At(x, "waiting")
    /\ x[2] \in EventDriven
    /\ thread[x].timer = WaitMax[x[2]]
    /\ LET timeouts == thread[x].timeouts + 1
       IN  IF timeouts >= last
           THEN Goes(x, "sleeping")
           ELSE /\ thread' = [thread EXCEPT ![x] =
                       [@ EXCEPT !.pc = "streaming", !.timer = 0,
                                 !.timeouts = timeouts]]
                /\ UNCHANGED <<session, loop, blocked, endpoints, default>>

\* The mutant tolerates one event timeout more.
TimesOutLate(x) == CountsTimeout(x, MaxEventTimeouts + 1)

\* EVENT_TIMEOUT_MS passes without an event; the last of too many in a row
\* declares the endpoint dead.
TimesOut(x) == CountsTimeout(x, MaxEventTimeouts)

\* The mutant, for Slept, opens the endpoint without another look at the flag.
SleptReopens(x) ==
    /\ At(x, "sleeping")
    /\ thread[x].timer = ReopenDelay
    /\ Goes(x, "opening")

Slept(x) ==
    /\ At(x, "sleeping")
    /\ thread[x].timer = ReopenDelay
    /\ Goes(x, "checking")

\* What a thread does of its own accord; the rest is up to its endpoint.
ThreadGoesOn(x) ==
    \/ Starts(x) \/ Checks(x) \/ Opens(x) \/ CannotOpen(x)
    \/ Streams(x) \/ TimesOut(x) \/ Slept(x)
    \/ (thread[x].timer = WaitMax[x[2]] /\ Wakes(x))

ThreadStep(x) ==
    \/ Starts(x) \/ CannotStart(x) \/ Checks(x) \/ Opens(x) \/ CannotOpen(x)
    \/ Streams(x) \/ Fails(x) \/ Wakes(x) \/ TimesOut(x) \/ Slept(x)

-----------------------------------------------------------------------------
(* The loop *)

Spawns(kinds) ==
    /\ loop = "idle"
    /\ session < MaxSessions
    /\ session' = session + 1
    /\ thread' = [x \in Thread |->
           CASE x[1] # session' -> thread[x]
             [] x[1] = session' /\ x[2] \in kinds ->
                    [NoThread EXCEPT !.pc = "starting"]
             [] OTHER -> NoThread]
    /\ UNCHANGED <<blocked, endpoints, default>>

\* start_session spawns both threads and answers Ok.
StartSession == Spawns(Kind) /\ loop' = "serving"

\* One cannot be spawned: `?` returns at once, and the render thread, when it is
\* there, runs on in no session, where nobody stops or joins it.
SpawnedBefore(kind) == IF kind = "capture" THEN {"render"} ELSE {}

FailSession(kind) ==
    /\ kind \in SpawnFails
    /\ Spawns(SpawnedBefore(kind))
    /\ UNCHANGED loop

StopThread(kind) ==
    /\ loop' = kind
    /\ thread' = [thread EXCEPT ![<<session, kind>>].stop = TRUE]

Second == CHOOSE kind \in Kind : kind # First

\* shut_down, and the end of main on the host: one thread is stopped and
\* joined, then the other.
ShutDown ==
    /\ loop = "serving"
    /\ StopThread(First)
    /\ blocked' = 0
    /\ UNCHANGED <<session, endpoints, default>>

\* The mutant, for Joined, does not wait.
Unjoined(kind) == TRUE
Joined(kind) == At(<<session, kind>>, "ended")

JoinFirst ==
    /\ loop = First
    /\ Joined(First)
    /\ StopThread(Second)
    /\ UNCHANGED <<session, blocked, endpoints, default>>

JoinSecond ==
    /\ loop = Second
    /\ Joined(Second)
    /\ loop' = "idle"
    /\ UNCHANGED <<session, thread, blocked, endpoints, default>>

LoopGoesOn == JoinFirst \/ JoinSecond

-----------------------------------------------------------------------------
(* The world *)

\* An endpoint comes or goes, or another becomes the default.
Replug ==
    /\ \E name \in Names :
          endpoints' \in {endpoints, endpoints \cup {name}, endpoints \ {name}}
    /\ default' \in IF endpoints' = {} THEN {Default} ELSE endpoints'
    /\ <<endpoints', default'>> # <<endpoints, default>>
    /\ UNCHANGED <<session, loop, thread, blocked>>

Waiting(x) ==
    \/ At(x, "waiting") /\ thread[x].timer < WaitMax[x[2]]
    \/ At(x, "sleeping") /\ thread[x].timer < ReopenDelay

\* One unit more of the loop's waiting, up to the bound.
Longer(time) == IF loop \in Kind /\ time < MaxBlocked THEN time + 1 ELSE time

Settled(x) == At(x, "none") \/ At(x, "ended")

\* Time passes when every thread waits for it.
Tick ==
    /\ \A x \in Thread : Waiting(x) \/ Settled(x)
    /\ loop \in Kind => ~Joined(loop)
    /\ \E x \in Thread : ~Settled(x)
    /\ thread' = [x \in Thread |->
           IF Settled(x) THEN thread[x]
           ELSE [thread[x] EXCEPT !.timer = @ + 1,
                     !.silent = IF At(x, "waiting") THEN @ + 1 ELSE @]]
    /\ blocked' = Longer(blocked)
    /\ UNCHANGED <<session, loop, endpoints, default>>

Next ==
    \/ \E x \in Thread : ThreadStep(x)
    \/ StartSession \/ (\E kind \in Kind : FailSession(kind))
    \/ ShutDown \/ JoinFirst \/ JoinSecond
    \/ Replug \/ Tick

Spec == Init /\ [][Next]_vars

\* The scheduler runs every thread and the loop, and time passes.
Fairness ==
    /\ \A x \in Thread : WF_vars(ThreadGoesOn(x))
    /\ WF_vars(LoopGoesOn)
    /\ WF_vars(Tick)

LiveSpec == Spec /\ Fairness

-----------------------------------------------------------------------------
(* Properties *)

Streaming(x) == At(x, "streaming") \/ At(x, "waiting")

\* A session that started has both threads; the render thread of one that did
\* not is forgotten.
Served(n) == \A kind \in Kind : ~At(<<n, kind>>, "none")
Forgotten(x) == x[2] = "render" /\ ~Served(x[1])

\* "Joins the audio threads, which releases the endpoints for the next run": of
\* the threads of two sessions that are alive at once, one is the render thread
\* of a session whose capture thread could not be spawned.  So a session finds
\* its endpoints taken by no session that was served before it, and the
\* endpoint of its capture thread by no thread of the agent at all.
EndpointsReleased ==
    \A x, y \in Thread :
        x[1] # y[1] => Settled(x) \/ Settled(y) \/ Forgotten(x) \/ Forgotten(y)

\* shut_down blocks the loop for as long as the first thread may wait, fail and
\* sleep out the delay before it reopens, and then the second may have begun
\* such a sleep just before.
ShutDownBounded ==
    blocked <= WaitMax[First] + 2 * ReopenDelay

\* "25 * 200 ms = 5 s": a render thread does not wait for longer on an endpoint
\* that has stopped signalling.
DeadEndpointReopened ==
    \A x \in Thread : x[2] \in EventDriven /\ Streaming(x) =>
        thread[x].silent <= MaxEventTimeouts * WaitMax[x[2]]

\* With both endpoints named, and the cable's name not holding the name of the
\* other, what is played to the applications as a microphone is never what is
\* captured as their playback, whatever is plugged in or becomes the default.
NoFeedback ==
    \A x, y \in Thread :
        /\ x[2] = "render" /\ y[2] = "capture"
        /\ Streaming(x) /\ Streaming(y)
        => thread[x].on # thread[y].on

\* The loop gets out of every shut_down.
StopsReturn == loop \in Kind ~> loop = "idle"

\* A thread that lost its endpoint, or never found it, tries again and again
\* for as long as its session lives.
NeverGivesUp ==
    \A x \in Thread :
        [](At(x, "checking") =>
              []<>(At(x, "opening") \/ Streaming(x) \/ thread[x].stop))
=============================================================================
