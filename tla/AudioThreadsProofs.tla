------------------------- MODULE AudioThreadsProofs -------------------------
(***************************************************************************)
(* For any number of sessions, any endpoints and any delays: threads of    *)
(* two sessions meet only if one failed to start, an endpoint that stopped signalling is given   *)
(* up in time, and the two directions stay on different endpoints.         *)
(***************************************************************************)
EXTENDS AudioThreads, TLAPS

-----------------------------------------------------------------------------
(* The inductive invariant *)

ThreadType ==
    [pc : Places, stop : BOOLEAN, timer : 0 .. ReopenDelay,
     timeouts : 0 .. MaxEventTimeouts - 1, silent : Nat, on : Names \cup {Default}]

\* The silence of an endpoint is what its timeouts and its timer say, and one
\* timeout at least is left.
CountedIn(t, wait) ==
    /\ t.pc \in {"streaming", "waiting"} =>
          /\ t.timeouts + 1 <= MaxEventTimeouts
          /\ t.silent = t.timeouts * wait + t.timer
          /\ t.timer <= wait
    /\ t.pc \in {"opening", "streaming"} => t.timer = 0

Counted == \A x \in Thread : CountedIn(thread[x], WaitMax[x[2]])

\* Threads that are not forgotten live in the current session only, and only
\* until they are joined.
Alive(x) ==
    /\ x[1] = session
    /\ loop # "idle"
    /\ ~(loop = Second /\ x[2] = First)

OnlyAlive == \A x \in Thread : ~Settled(x) => Alive(x) \/ Forgotten(x)

Begun == loop # "idle" => session \in Session

ThreadInv == TypeOK /\ Begun /\ Counted /\ OnlyAlive

\* There are two kinds, and they are joined in turn.
LEMMA TwoKinds ==
    /\ First \in Kind /\ Second \in Kind /\ Second # First
    /\ Kind = {First, Second}
    /\ "idle" \notin Kind /\ "serving" \notin Kind
  <1>1. First \in Kind
    BY ThreadsAssumption
  <1>2. \E kind \in Kind : kind # First
    BY DEF Kind
  <1>3. Second \in Kind /\ Second # First
    BY <1>2 DEF Second
  <1> QED
    BY <1>1, <1>3 DEF Kind

-----------------------------------------------------------------------------
(* One thread *)

\* What a step of a thread leaves alone.
Elsewhere(x) ==
    /\ UNCHANGED <<session, loop, blocked, endpoints, default>>
    /\ \A y \in Thread : y # x => thread'[y] = thread[y]
    /\ DOMAIN thread' = Thread
    /\ thread' = [y \in Thread |-> thread'[y]]

\* Outside a stream a thread is typed.
LEMMA GoesType ==
    ASSUME NEW t \in ThreadType, NEW place \in Places
    PROVE  [NoThread EXCEPT !.pc = place, !.stop = t.stop] \in ThreadType
  <1>1. 0 \in 0 .. ReopenDelay /\ 0 \in 0 .. MaxEventTimeouts - 1
    BY ThreadsAssumption
  <1> QED
    BY <1>1 DEF NoThread, ThreadType

\* What a thread finds is an endpoint, of the name it wants or one it matches.
LEMMA FindsNames ==
    ASSUME TypeOK, NEW kind \in Kind, NEW found \in FindDevice(Wanted[kind])
    PROVE  /\ found \in Names
           /\ Wanted[kind] # Default => found \in {Wanted[kind]} \cup Matches[Wanted[kind]]
  <1>1. endpoints \subseteq Names
    BY DEF TypeOK
  <1>2. found \in endpoints
    BY DEF FindDevice, Fuzzy
  <1>3. Wanted[kind] # Default => found \in {Wanted[kind]} \cup Matches[Wanted[kind]]
    BY DEF FindDevice, Fuzzy
  <1> QED
    BY <1>1, <1>2, <1>3

\* A step keeps a thread typed and its silence accounted for, and only a thread
\* that is alive takes one.
LEMMA StepOfThread ==
    ASSUME ThreadInv, NEW x \in Thread, ThreadStep(x)
    PROVE  /\ ~Settled(x)
           /\ Elsewhere(x)
           /\ thread'[x] \in ThreadType
           /\ CountedIn(thread'[x], WaitMax[x[2]])
  <1> DEFINE t == thread[x]
             wait == WaitMax[x[2]]
  <1>1. /\ thread = [y \in Thread |-> thread[y]]
        /\ t \in ThreadType
        /\ CountedIn(t, wait)
    BY DEF ThreadInv, TypeOK, ThreadType, Counted
  <1>2. wait \in Nat \ {0} /\ ReopenDelay \in Nat /\ MaxEventTimeouts \in Nat \ {0}
    BY ThreadsAssumption DEF Thread
  <1>3. 0 * wait = 0 /\ \A n \in Nat : (n + 1) * wait = n * wait + wait
    BY <1>2
  <1>11. 0 \in 0 .. ReopenDelay /\ 0 \in 0 .. MaxEventTimeouts - 1 /\ 0 \in Nat
    BY <1>2
  <1>4. ASSUME NEW u \in ThreadType, CountedIn(u, wait),
               thread' = [thread EXCEPT ![x] = u],
               UNCHANGED <<session, loop, blocked, endpoints, default>>
        PROVE  /\ Elsewhere(x)
               /\ thread'[x] \in ThreadType
               /\ CountedIn(thread'[x], wait)
    BY <1>1, <1>4 DEF Elsewhere
  <1>5. ASSUME NEW place \in Places \ {"streaming", "waiting"}, Goes(x, place)
        PROVE  /\ Elsewhere(x)
               /\ thread'[x] \in ThreadType
               /\ CountedIn(thread'[x], wait)
    <2> DEFINE u == [NoThread EXCEPT !.pc = place, !.stop = t.stop]
    <2>1. u \in ThreadType
      BY <1>1, GoesType
    <2>2. CountedIn(u, wait)
      BY DEF CountedIn, NoThread
    <2>3. thread' = [thread EXCEPT ![x] = u]
      BY <1>5 DEF Goes
    <2> QED
      BY <1>4, <1>5, <2>1, <2>2, <2>3 DEF Goes
  <1>6. CASE Starts(x) \/ CannotStart(x) \/ Checks(x) \/ CannotOpen(x) \/ Slept(x)
             \/ Fails(x)
    <2>1. \E place \in {"checking", "ended", "opening", "sleeping"} : Goes(x, place)
      BY <1>6 DEF Starts, CannotStart, Checks, CannotOpen, Slept, Fails
    <2>2. ~Settled(x)
      BY <1>6 DEF Starts, CannotStart, Checks, CannotOpen, Slept, Fails, At, Settled
    <2> QED
      BY <1>5, <2>1, <2>2 DEF Places
  <1>7. CASE Streams(x)
    <2>1. ~Settled(x) /\ t.pc = "streaming"
      BY <1>7 DEF Streams, At, Settled
    <2>2. CASE Goes(x, "checking")
      BY <1>5, <2>1, <2>2 DEF Places
    <2>3. CASE Waits(x)
      <3> DEFINE u == [t EXCEPT !.pc = "waiting"]
      <3>1. u \in ThreadType
        BY <1>1 DEF ThreadType, Places
      <3>2. CountedIn(u, wait)
        BY <1>1, <1>2, <2>1 DEF CountedIn, ThreadType
      <3>3. thread' = [thread EXCEPT ![x] = u]
        BY <2>3 DEF Waits
      <3> QED
        BY <1>4, <2>1, <2>3, <3>1, <3>2, <3>3 DEF Waits
    <2> QED
      BY <1>7, <2>2, <2>3 DEF Streams
  <1>8. CASE Opens(x)
    <2>1. PICK found \in FindDevice(Wanted[x[2]]) :
            thread' = [thread EXCEPT ![x] =
                [@ EXCEPT !.pc = "streaming", !.timeouts = 0, !.silent = 0,
                          !.on = found]]
      BY <1>8 DEF Opens
    <2> DEFINE u == [t EXCEPT !.pc = "streaming", !.timeouts = 0, !.silent = 0,
                              !.on = found]
    <2>2. t.pc = "opening" /\ t.timer = 0
      BY <1>1, <1>8 DEF Opens, At, CountedIn
    <2>3. found \in Names
      BY FindsNames, <1>1 DEF ThreadInv, TypeOK, Thread
    <2>4. u \in ThreadType
      BY <1>1, <1>11, <2>3 DEF ThreadType, Places
    <2>5. CountedIn(u, wait)
      BY <1>1, <1>2, <1>3, <2>2 DEF ThreadType, CountedIn
    <2>6. thread' = [thread EXCEPT ![x] = u]
      BY <2>1
    <2> QED
      BY <1>4, <1>8, <2>2, <2>4, <2>5, <2>6 DEF Opens, Settled, At
  <1>9. CASE Wakes(x)
    <2> DEFINE u == [t EXCEPT !.pc = "streaming", !.timer = 0, !.timeouts = 0,
                              !.silent = 0]
    <2>1. u \in ThreadType
      BY <1>1, <1>11 DEF ThreadType, Places
    <2>2. CountedIn(u, wait)
      BY <1>1, <1>2, <1>3 DEF ThreadType, CountedIn
    <2>3. thread' = [thread EXCEPT ![x] = u]
      BY <1>9 DEF Wakes
    <2> QED
      BY <1>4, <1>9, <2>1, <2>2, <2>3 DEF Wakes, Settled, At
  <1>10. CASE TimesOut(x)
    <2>1. /\ t.pc = "waiting" /\ t.timer = wait /\ ~Settled(x)
          /\ t.timeouts \in Nat /\ t.silent = t.timeouts * wait + wait
      BY <1>1, <1>2, <1>10
      DEF TimesOut, CountsTimeout, At, Settled, ThreadType, CountedIn
    <2>2. CASE t.timeouts + 1 >= MaxEventTimeouts
      <3>1. Goes(x, "sleeping")
        BY <1>10, <2>2 DEF TimesOut, CountsTimeout
      <3> QED
        BY <1>5, <2>1, <3>1 DEF Places
    <2>3. CASE ~(t.timeouts + 1 >= MaxEventTimeouts)
      <3> DEFINE u == [t EXCEPT !.pc = "streaming", !.timer = 0,
                                !.timeouts = t.timeouts + 1]
      <3>1. t.timeouts + 1 \in 0 .. MaxEventTimeouts - 1
        BY <1>2, <2>1, <2>3
      <3>2. u \in ThreadType
        BY <1>1, <1>11, <3>1 DEF ThreadType, Places
      <3>3. (t.timeouts + 1) * wait = t.silent /\ t.silent \in Nat
        BY <1>1, <1>3, <2>1 DEF ThreadType
      <3>4. CountedIn(u, wait)
        BY <1>1, <1>2, <3>1, <3>3 DEF ThreadType, CountedIn
      <3>5. /\ thread' = [thread EXCEPT ![x] = u]
            /\ UNCHANGED <<session, loop, blocked, endpoints, default>>
        BY <1>10, <2>3 DEF TimesOut, CountsTimeout
      <3> QED
        BY <1>4, <2>1, <3>2, <3>4, <3>5
    <2> QED
      BY <2>2, <2>3
  <1> QED
    BY <1>6, <1>7, <1>8, <1>9, <1>10 DEF ThreadStep

\* A thread that was started stays among those that were.
LEMMA StepsStay ==
    ASSUME ThreadInv, NEW x \in Thread, ThreadStep(x)
    PROVE  thread'[x].pc # "none"
  <1>1. thread = [y \in Thread |-> thread[y]] /\ thread[x] \in ThreadType
    BY DEF ThreadInv, TypeOK, ThreadType
  <1>2. ASSUME NEW place \in {"checking", "ended", "opening", "sleeping"}, Goes(x, place)
        PROVE  thread'[x].pc # "none"
    BY <1>1, <1>2 DEF Goes, NoThread
  <1>3. CASE Starts(x) \/ CannotStart(x) \/ Checks(x) \/ CannotOpen(x) \/ Slept(x)
             \/ Fails(x)
    BY <1>2, <1>3 DEF Starts, CannotStart, Checks, CannotOpen, Slept, Fails
  <1>4. CASE Streams(x)
    BY <1>1, <1>2, <1>4 DEF Streams, Waits, ThreadType
  <1>5. CASE Opens(x)
    <2>1. PICK found \in FindDevice(Wanted[x[2]]) :
            thread' = [thread EXCEPT ![x] =
                [@ EXCEPT !.pc = "streaming", !.timeouts = 0, !.silent = 0,
                          !.on = found]]
      BY <1>5 DEF Opens
    <2>2. thread'[x] = [thread[x] EXCEPT !.pc = "streaming", !.timeouts = 0,
                                         !.silent = 0, !.on = found]
      BY <1>1, <2>1
    <2> QED
      BY <1>1, <2>2 DEF ThreadType
  <1>6. CASE Wakes(x)
    BY <1>1, <1>6 DEF Wakes, ThreadType
  <1>7. CASE TimesOut(x)
    <2>1. \/ Goes(x, "sleeping")
          \/ thread'[x] = [thread[x] EXCEPT !.pc = "streaming", !.timer = 0,
                               !.timeouts = thread[x].timeouts + 1]
      BY <1>1, <1>7 DEF TimesOut, CountsTimeout
    <2> QED
      BY <1>1, <1>2, <2>1 DEF ThreadType
  <1> QED
    BY <1>3, <1>4, <1>5, <1>6, <1>7 DEF ThreadStep

\* So a forgotten thread stays forgotten when the same threads were started.
LEMMA ForgottenStays ==
    ASSUME \A x \in Thread : thread'[x].pc = "none" <=> thread[x].pc = "none"
    PROVE  \A x \in Thread : Forgotten(x) => Forgotten(x)'
  BY DEF Forgotten, Served, At, Thread

-----------------------------------------------------------------------------
(* Every step *)

\* What a step makes of every thread carries over to the invariant.
LEMMA ThreadByThread ==
    ASSUME DOMAIN thread' = Thread, thread' = [x \in Thread |-> thread'[x]],
           \A x \in Thread : /\ thread'[x] \in ThreadType
                            /\ CountedIn(thread'[x], WaitMax[x[2]])
    PROVE  /\ thread' \in [Thread -> ThreadType]
           /\ Counted'
  BY DEF Counted, CountedIn

LEMMA ThreadKeepsInv ==
    ASSUME ThreadInv, NEW x \in Thread, ThreadStep(x)
    PROVE  ThreadInv'
  <1>1. /\ ~Settled(x)
        /\ Elsewhere(x)
        /\ thread'[x] \in ThreadType
        /\ CountedIn(thread'[x], WaitMax[x[2]])
    BY StepOfThread
  <1>2. \A y \in Thread : thread'[y] \in ThreadType /\ CountedIn(thread'[y], WaitMax[y[2]])
    BY <1>1 DEF Elsewhere, ThreadInv, TypeOK, ThreadType, Counted
  <1>3. thread' \in [Thread -> ThreadType] /\ Counted'
    BY <1>1, <1>2, ThreadByThread DEF Elsewhere
  <1>4. TypeOK'
    BY <1>1, <1>3 DEF Elsewhere, ThreadInv, TypeOK, ThreadType
  <1>5. OnlyAlive'
    <2>1. thread'[x].pc # "none" /\ thread[x].pc # "none"
      BY <1>1, StepsStay DEF Settled, At
    <2>2. \A y \in Thread : Forgotten(y) => Forgotten(y)'
      BY <1>1, <2>1, ForgottenStays DEF Elsewhere
    <2> QED
      BY <1>1, <2>2 DEF Elsewhere, ThreadInv, OnlyAlive, Alive, Settled, At
  <1> QED
    BY <1>1, <1>3, <1>4, <1>5 DEF Elsewhere, ThreadInv, Begun

\* Telling a thread to stop changes neither its place nor its silence.
LEMMA StopKeeps ==
    ASSUME ThreadInv, session \in Session, NEW kind \in Kind, StopThread(kind)
    PROVE  /\ thread' \in [Thread -> ThreadType]
           /\ Counted'
           /\ \A x \in Thread : thread'[x].pc = thread[x].pc
           /\ \A x \in Thread : Forgotten(x) => Forgotten(x)'
  <1>1. thread \in [Thread -> ThreadType] /\ <<session, kind>> \in Thread
    BY DEF ThreadInv, TypeOK, ThreadType, Thread
  <1>2. thread' = [thread EXCEPT ![<<session, kind>>].stop = TRUE]
    BY DEF StopThread
  <1>3. \A x \in Thread :
          /\ thread'[x] \in ThreadType
          /\ thread'[x].pc = thread[x].pc
          /\ CountedIn(thread'[x], WaitMax[x[2]])
    <2> TAKE x \in Thread
    <2>1. thread[x] \in ThreadType /\ CountedIn(thread[x], WaitMax[x[2]])
      BY <1>1 DEF ThreadInv, Counted
    <2>2. thread'[x] = thread[x] \/ thread'[x] = [thread[x] EXCEPT !.stop = TRUE]
      BY <1>1, <1>2
    <2> QED
      BY <2>1, <2>2 DEF ThreadType, CountedIn
  <1> QED
    BY <1>1, <1>2, <1>3, ThreadByThread, ForgottenStays

\* What start_session spawns is typed, and leaves the threads of the sessions
\* before alone.
LEMMA SpawnsTyped ==
    ASSUME ThreadInv, NEW kinds \in SUBSET Kind, Spawns(kinds)
    PROVE  /\ session' \in Session
           /\ thread' \in [Thread -> ThreadType] /\ Counted'
           /\ \A x \in Thread : x[1] = session' =>
                 thread'[x].pc = IF x[2] \in kinds THEN "starting" ELSE "none"
           /\ \A x \in Thread : x[1] # session' => thread'[x] = thread[x]
  <1>1. thread \in [Thread -> ThreadType] /\ session \in Nat
    BY DEF ThreadInv, TypeOK, ThreadType
  <1>2. session' \in Session
    BY <1>1, ThreadsAssumption DEF Spawns, Session
  <1> DEFINE starting == [NoThread EXCEPT !.pc = "starting"]
  <1>3. starting \in ThreadType /\ NoThread \in ThreadType
    <2>1. 0 \in 0 .. ReopenDelay /\ 0 \in 0 .. MaxEventTimeouts - 1
      BY ThreadsAssumption
    <2> QED
      BY <2>1 DEF NoThread, ThreadType, Places
  <1>4. starting.pc = "starting" /\ NoThread.pc = "none"
    BY DEF NoThread
  <1>5. \A wait : CountedIn(starting, wait) /\ CountedIn(NoThread, wait)
    BY DEF CountedIn, NoThread
  <1>6. \A x \in Thread :
          /\ x[1] # session' => thread'[x] = thread[x]
          /\ x[1] = session' => thread'[x] = IF x[2] \in kinds THEN starting ELSE NoThread
    BY DEF Spawns
  <1>7. \A x \in Thread : /\ thread'[x] \in ThreadType
                         /\ CountedIn(thread'[x], WaitMax[x[2]])
    BY <1>1, <1>3, <1>5, <1>6 DEF ThreadInv, Counted
  <1>8. thread' \in [Thread -> ThreadType] /\ Counted'
    BY <1>7, ThreadByThread DEF Spawns
  <1> QED
    BY <1>2, <1>4, <1>6, <1>8

\* Only forgotten threads run when a session is started, and they stay
\* forgotten.
LEMMA SpawnsForgotten ==
    ASSUME ThreadInv, NEW kinds \in SUBSET Kind, Spawns(kinds)
    PROVE  \A x \in Thread : x[1] # session' /\ ~Settled(x)' => Forgotten(x)'
  <1>1. \A x \in Thread : x[1] # session' => thread'[x] = thread[x]
    BY SpawnsTyped
  <1> SUFFICES ASSUME NEW x \in Thread, x[1] # session', ~Settled(x)'
               PROVE  Forgotten(x)'
    OBVIOUS
  <1>2. Forgotten(x)
    BY <1>1 DEF Spawns, ThreadInv, OnlyAlive, Alive, Settled, At
  <1>3. \A kind \in Kind : <<x[1], kind>> \in Thread /\ <<x[1], kind>>[1] # session'
    BY DEF Thread
  <1> QED
    BY <1>1, <1>2, <1>3 DEF Forgotten, Served, At

\* A start, a shut_down and its joins.
LoopStep ==
    \/ StartSession \/ (\E kind \in Kind : FailSession(kind))
    \/ ShutDown \/ JoinFirst \/ JoinSecond

LEMMA LoopKeepsInv ==
    ASSUME ThreadInv, LoopStep
    PROVE  ThreadInv'
  <1> USE TwoKinds
  <1>1. thread \in [Thread -> ThreadType] /\ session \in Nat
    BY DEF ThreadInv, TypeOK, ThreadType
  <1>2. CASE StartSession
    <2>1. Spawns(Kind) /\ loop' = "serving"
      BY <1>2 DEF StartSession
    <2>2. session' \in Session /\ thread' \in [Thread -> ThreadType] /\ Counted'
      BY <2>1, SpawnsTyped
    <2>3. TypeOK'
      BY <2>1, <2>2 DEF Spawns, ThreadInv, TypeOK, ThreadType, Session
    <2>4. OnlyAlive'
      BY <2>1, SpawnsForgotten DEF OnlyAlive, Alive
    <2> QED
      BY <2>1, <2>2, <2>3, <2>4 DEF ThreadInv, Begun
  <1>6. ASSUME NEW kind \in Kind, FailSession(kind)
        PROVE  ThreadInv'
    <2>1. Spawns(SpawnedBefore(kind)) /\ loop' = "idle" /\ SpawnedBefore(kind) \in SUBSET Kind
      BY <1>6 DEF FailSession, Spawns, SpawnedBefore, Kind
    <2>2. session' \in Session /\ thread' \in [Thread -> ThreadType] /\ Counted'
      BY <2>1, SpawnsTyped
    <2>3. TypeOK'
      BY <2>1, <2>2 DEF Spawns, ThreadInv, TypeOK, ThreadType, Session
    <2>4. ASSUME NEW x \in Thread, x[1] = session', ~Settled(x)'
          PROVE  Forgotten(x)'
      <3> DEFINE other == <<session', "capture">>
      <3>1. other \in Thread /\ other[1] = session' /\ other[2] = "capture"
        BY <2>2 DEF Thread, Kind
      <3>2. "capture" \notin SpawnedBefore(kind)
        BY DEF SpawnedBefore
      <3>3. thread'[other].pc = "none"
        BY <2>1, <3>1, <3>2, SpawnsTyped
      <3>4. x[2] \in SpawnedBefore(kind)
        BY <2>1, <2>4, SpawnsTyped DEF Settled, At
      <3>5. x[2] = "render"
        BY <3>4 DEF SpawnedBefore
      <3> QED
        BY <2>4, <3>3, <3>5 DEF Forgotten, Served, At, Kind
    <2>5. OnlyAlive'
      BY <2>1, <2>4, SpawnsForgotten DEF OnlyAlive
    <2> QED
      BY <2>1, <2>2, <2>3, <2>5 DEF ThreadInv, Begun
  <1>3. CASE ShutDown
    <2>1. session \in Session
      BY <1>3 DEF ShutDown, ThreadInv, Begun
    <2>2. /\ thread' \in [Thread -> ThreadType]
          /\ Counted'
          /\ \A x \in Thread : thread'[x].pc = thread[x].pc
          /\ \A x \in Thread : Forgotten(x) => Forgotten(x)'
      BY <1>3, <2>1, StopKeeps DEF ShutDown
    <2>3. TypeOK'
      BY <1>3, <2>2 DEF ShutDown, StopThread, ThreadInv, TypeOK, ThreadType
    <2>4. OnlyAlive'
      BY <1>3, <2>2 DEF ShutDown, StopThread, ThreadInv, OnlyAlive, Alive, Settled, At
    <2> QED
      BY <1>3, <2>1, <2>2, <2>3, <2>4 DEF ShutDown, ThreadInv, Begun
  <1>4. CASE JoinFirst
    <2>1. session \in Session
      BY <1>4 DEF JoinFirst, ThreadInv, Begun
    <2>2. /\ thread' \in [Thread -> ThreadType]
          /\ Counted'
          /\ \A x \in Thread : thread'[x].pc = thread[x].pc
          /\ \A x \in Thread : Forgotten(x) => Forgotten(x)'
      BY <1>4, <2>1, StopKeeps DEF JoinFirst
    <2>3. TypeOK'
      BY <1>4, <2>2 DEF JoinFirst, StopThread, ThreadInv, TypeOK, ThreadType
    <2>4. ASSUME NEW x \in Thread, ~Settled(x)'
          PROVE  Alive(x)' \/ Forgotten(x)'
      <3> SUFFICES ASSUME ~Forgotten(x)
                   PROVE  Alive(x)'
        BY <2>2
      <3>1. ~Settled(x) /\ Alive(x)
        BY <2>2, <2>4 DEF Settled, At, ThreadInv, OnlyAlive
      <3>2. x = <<x[1], x[2]>>
        BY DEF Thread
      <3>3. x[2] # First
        BY <1>4, <3>1, <3>2 DEF JoinFirst, Joined, Alive, Settled, At
      <3> QED
        BY <1>4, <3>1, <3>3 DEF JoinFirst, StopThread, Alive
    <2> QED
      BY <1>4, <2>1, <2>2, <2>3, <2>4 DEF JoinFirst, ThreadInv, Begun, OnlyAlive
  <1>5. CASE JoinSecond
    <2>1. \A x \in Thread : Settled(x) \/ Forgotten(x)
      <3> SUFFICES ASSUME NEW x \in Thread, ~Settled(x), ~Forgotten(x)
                   PROVE  FALSE
        OBVIOUS
      <3>1. Alive(x)
        BY DEF ThreadInv, OnlyAlive
      <3>2. x = <<x[1], x[2]>> /\ x[2] \in {First, Second}
        BY DEF Thread
      <3> QED
        BY <1>5, <3>1, <3>2 DEF JoinSecond, Joined, Alive, Settled, At
    <2> QED
      BY <1>5, <2>1
      DEF JoinSecond, ThreadInv, TypeOK, Begun, Counted, OnlyAlive, Settled, At,
          Forgotten, Served
  <1> QED
    BY <1>2, <1>3, <1>4, <1>5, <1>6 DEF LoopStep

LEMMA TimeKeepsInv ==
    ASSUME ThreadInv, Tick
    PROVE  ThreadInv'
  <1>1. thread \in [Thread -> ThreadType]
    BY DEF ThreadInv, TypeOK, ThreadType
  <1>2. \A x \in Thread :
          /\ thread'[x] \in ThreadType
          /\ CountedIn(thread'[x], WaitMax[x[2]])
          /\ thread'[x].pc = thread[x].pc
    <2> TAKE x \in Thread
    <2> DEFINE t == thread[x]
               wait == WaitMax[x[2]]
    <2>1. t \in ThreadType /\ CountedIn(t, wait)
      BY <1>1 DEF ThreadInv, Counted
    <2>2. wait \in Nat /\ ReopenDelay \in Nat /\ wait <= ReopenDelay /\ t.timeouts * wait \in Nat
      BY <2>1, ThreadsAssumption DEF Thread, ThreadType
    <2>3. CASE Settled(x)
      BY <1>1, <2>1, <2>3 DEF Tick
    <2>4. CASE ~Settled(x)
      <3>1. Waiting(x)
        BY <2>4 DEF Tick
      <3> DEFINE silent == IF At(x, "waiting") THEN t.silent + 1 ELSE t.silent
      <3>2. thread'[x] = [t EXCEPT !.timer = t.timer + 1, !.silent = silent]
        BY <1>1, <2>4 DEF Tick
      <3>3. t.timer \in Nat /\ t.silent \in Nat /\ t.timer + 1 \in 0 .. ReopenDelay
        BY <2>1, <2>2, <3>1 DEF Waiting, ThreadType
      <3>4. thread'[x] \in ThreadType /\ thread'[x].pc = t.pc
        <4>1. silent \in Nat
          BY <3>3
        <4> HIDE DEF silent
        <4> QED
          BY <2>1, <3>2, <3>3, <4>1 DEF ThreadType
      <3>5. CountedIn(thread'[x], wait)
        BY <2>1, <2>2, <3>1, <3>2, <3>3 DEF CountedIn, Waiting, At, ThreadType
      <3> QED
        BY <3>4, <3>5
    <2> QED
      BY <2>3, <2>4
  <1>3. thread' \in [Thread -> ThreadType] /\ Counted'
    BY <1>2, ThreadByThread DEF Tick
  <1>4. TypeOK'
    <2>1. blocked' \in Nat
      <3>1. blocked \in Nat
        BY DEF ThreadInv, TypeOK
      <3>2. \A n \in Nat : Longer(n) \in Nat
        BY DEF Longer
      <3> QED
        BY <3>1, <3>2 DEF Tick
    <2> QED
      BY <1>3, <2>1 DEF Tick, ThreadInv, TypeOK, ThreadType
  <1>5. OnlyAlive'
    <2>1. \A x \in Thread : Forgotten(x) => Forgotten(x)'
      BY <1>2, ForgottenStays
    <2> QED
      BY <1>2, <2>1 DEF Tick, ThreadInv, OnlyAlive, Alive, Settled, At
  <1> QED
    BY <1>3, <1>4, <1>5 DEF Tick, ThreadInv, Begun

LEMMA ReplugKeepsInv ==
    ASSUME ThreadInv, Replug
    PROVE  ThreadInv'
  <1>1. endpoints' \subseteq Names /\ default' \in endpoints' \cup {Default}
    BY DEF Replug, ThreadInv, TypeOK
  <1> QED
    BY <1>1 DEF Replug, ThreadInv, TypeOK, Begun, Counted, OnlyAlive, Alive, Settled, At,
                Forgotten, Served

LEMMA ThreadInvInvariant == Spec => []ThreadInv
  <1>1. Init => ThreadInv
    <2>1. NoThread \in ThreadType
      BY ThreadsAssumption DEF NoThread, ThreadType, Places
    <2> QED
      BY <2>1, TwoKinds, ThreadsAssumption
      DEF Init, ThreadInv, TypeOK, ThreadType, Begun, Counted, CountedIn, OnlyAlive,
          Settled, At, NoThread
  <1>2. ThreadInv /\ [Next]_vars => ThreadInv'
    <2> SUFFICES ASSUME ThreadInv, [Next]_vars
                 PROVE  ThreadInv'
      OBVIOUS
    <2>2. CASE UNCHANGED vars
      BY <2>2 DEF vars, ThreadInv, TypeOK, Begun, Counted, OnlyAlive, Alive, Settled, At,
                  Forgotten, Served
    <2> QED
      BY <2>2, ThreadKeepsInv, LoopKeepsInv, TimeKeepsInv, ReplugKeepsInv DEF Next, LoopStep
  <1> QED
    BY <1>1, <1>2, PTL DEF Spec

-----------------------------------------------------------------------------
(* The theorems *)

\* The state is typed: no thread has counted more timeouts than it may, or
\* waited for longer than REOPEN_DELAY before it tries again.
THEOREM ThreadsTypeCorrect == Spec => []TypeOK
  BY ThreadInvInvariant, PTL DEF ThreadInv

\* "Joins the audio threads, which releases the endpoints for the next run":
\* for any number of sessions, and whatever the threads are doing when they are
\* told to stop, the threads of two sessions are alive at once only if one is the
\* render thread of a session whose capture thread could not be spawned.
THEOREM EndpointsAreReleased == Spec => []EndpointsReleased
  <1>1. ThreadInv => EndpointsReleased
    BY DEF ThreadInv, OnlyAlive, Alive, EndpointsReleased
  <1> QED
    BY <1>1, ThreadInvInvariant, PTL

\* For any number and length of event timeouts, a render thread does not wait
\* for longer than all of them on an endpoint that has stopped signalling.
THEOREM DeadEndpointsAreReopened == Spec => []DeadEndpointReopened
  <1>1. ThreadInv => DeadEndpointReopened
    <2> SUFFICES ASSUME ThreadInv, NEW x \in Thread, Streaming(x)
                 PROVE  thread[x].silent <= MaxEventTimeouts * WaitMax[x[2]]
      BY DEF DeadEndpointReopened
    <2> DEFINE t == thread[x]
               wait == WaitMax[x[2]]
    <2>1. t.timeouts \in Nat /\ t.timer \in Nat /\ wait \in Nat /\ MaxEventTimeouts \in Nat
      BY ThreadsAssumption DEF ThreadInv, TypeOK, Thread
    <2>2. /\ t.timeouts + 1 <= MaxEventTimeouts
          /\ t.silent = t.timeouts * wait + t.timer
          /\ t.timer <= wait
      BY DEF ThreadInv, Counted, CountedIn, Streaming, At
    <2>3. t.timeouts * wait + wait = (t.timeouts + 1) * wait
      BY <2>1
    <2>4. (t.timeouts + 1) * wait <= MaxEventTimeouts * wait
      BY <2>1, <2>2
    <2>5. t.timeouts * wait \in Nat /\ MaxEventTimeouts * wait \in Nat
      BY <2>1
    <2> QED
      BY <2>1, <2>2, <2>3, <2>4, <2>5
  <1> QED
    BY <1>1, ThreadInvInvariant, PTL

-----------------------------------------------------------------------------
(* ShutDownBounded *)

\* How much longer a thread may run that has been told to stop.
Left(t, kind) ==
    CASE t.pc = "opening"  -> ReopenDelay
      [] t.pc = "sleeping" -> ReopenDelay - t.timer
      [] t.pc = "waiting"  -> WaitMax[kind] - t.timer
                              + (IF kind \in EventDriven THEN ReopenDelay ELSE 0)
      [] OTHER -> 0

\* The joined thread knows that it is to stop, and what has passed of a
\* shut_down and what is left of the thread make up no more than `bound`.
Joining(kind, bound) ==
    loop = kind =>
        /\ thread[<<session, kind>>].stop
        /\ blocked + Left(thread[<<session, kind>>], kind) <= bound

\* The threads of a session are there.
Present == loop # "idle" => \A kind \in Kind : ~At(<<session, kind>>, "none")

BlockedInv ==
    /\ ThreadInv
    /\ Present
    /\ Joining(First, WaitMax[First] + ReopenDelay)
    /\ Joining(Second, WaitMax[First] + 2 * ReopenDelay)
    /\ ShutDownBounded

\* The thread joined second does not wait for an event.
Polls == Second \notin EventDriven

LEMMA Times ==
    /\ ReopenDelay \in Nat
    /\ \A kind \in Kind : WaitMax[kind] \in Nat /\ WaitMax[kind] <= ReopenDelay
  BY ThreadsAssumption

\* Nobody has more left than a wait and the delay before a reopening, and who
\* waits for no event no more than that delay.
LEMMA LeftBounded ==
    ASSUME NEW kind \in Kind, NEW t \in ThreadType, CountedIn(t, WaitMax[kind])
    PROVE  /\ Left(t, kind) \in Nat
           /\ Left(t, kind) <= WaitMax[kind] + ReopenDelay
           /\ kind \notin EventDriven => Left(t, kind) <= ReopenDelay
  <1>1. t.timer \in 0 .. ReopenDelay
    BY DEF ThreadType
  <1> QED
    BY <1>1, Times DEF Left, CountedIn

\* A thread that has been told to stop goes towards its end.
LEMMA StopsInTime ==
    ASSUME ThreadInv, NEW x \in Thread, ThreadStep(x), thread[x].stop
    PROVE  /\ thread'[x].stop
           /\ thread'[x].pc # "none"
           /\ Left(thread'[x], x[2]) <= Left(thread[x], x[2])
  <1> DEFINE t == thread[x]
  <1>1. /\ t \in ThreadType /\ x[2] \in Kind
        /\ CountedIn(t, WaitMax[x[2]])
        /\ thread = [y \in Thread |-> thread[y]]
    BY DEF ThreadInv, TypeOK, ThreadType, Counted, Thread
  <1>2. /\ Left(t, x[2]) \in Nat /\ t.stop = TRUE
        /\ ReopenDelay \in Nat /\ WaitMax[x[2]] \in Nat
    BY <1>1, LeftBounded, Times DEF ThreadType
  <1>3. ASSUME NEW place \in {"checking", "ended"}, Goes(x, place)
        PROVE  thread'[x].stop /\ thread'[x].pc = place /\ Left(thread'[x], x[2]) = 0
    <2>1. thread'[x] = [NoThread EXCEPT !.pc = place, !.stop = t.stop]
      BY <1>1, <1>3 DEF Goes
    <2> QED
      BY <1>2, <2>1 DEF NoThread, Left
  <1>4. ASSUME Goes(x, "sleeping"), ReopenDelay <= Left(t, x[2])
        PROVE  /\ thread'[x].stop /\ thread'[x].pc = "sleeping"
               /\ Left(thread'[x], x[2]) <= Left(t, x[2])
    <2>1. thread'[x] = [NoThread EXCEPT !.pc = "sleeping", !.stop = t.stop]
      BY <1>1, <1>4 DEF Goes
    <2> QED
      BY <1>2, <1>4, <2>1 DEF NoThread, Left
  <1>5. CASE Starts(x) \/ CannotStart(x) \/ Checks(x) \/ Slept(x) \/ Streams(x)
             \/ Fails(x)
    <2>1. \E place \in {"checking", "ended"} : Goes(x, place)
      BY <1>2, <1>5 DEF Starts, CannotStart, Checks, Slept, Streams, Fails
    <2> QED
      BY <1>2, <1>3, <2>1
  <1>6. CASE CannotOpen(x)
    <2>1. Goes(x, "sleeping") /\ Left(t, x[2]) = ReopenDelay
      BY <1>6 DEF CannotOpen, At, Left
    <2> QED
      BY <1>2, <1>4, <2>1
  <1>7. ASSUME thread'[x].pc = "streaming", thread'[x].stop = t.stop
        PROVE  /\ thread'[x].stop /\ thread'[x].pc # "none"
               /\ Left(thread'[x], x[2]) <= Left(t, x[2])
    <2>1. Left(thread'[x], x[2]) = 0
      BY <1>7 DEF Left
    <2> QED
      BY <1>2, <1>7, <2>1
  <1>8. CASE Opens(x)
    <2>1. PICK found \in FindDevice(Wanted[x[2]]) :
            thread' = [thread EXCEPT ![x] =
                [@ EXCEPT !.pc = "streaming", !.timeouts = 0, !.silent = 0,
                          !.on = found]]
      BY <1>8 DEF Opens
    <2>2. thread'[x] = [t EXCEPT !.pc = "streaming", !.timeouts = 0, !.silent = 0,
                                 !.on = found]
      BY <1>1, <2>1
    <2>3. thread'[x].pc = "streaming" /\ thread'[x].stop = t.stop
      BY <1>1, <2>2 DEF ThreadType
    <2> QED
      BY <1>7, <2>3
  <1>9. CASE Wakes(x)
    <2>1. thread'[x].pc = "streaming" /\ thread'[x].stop = t.stop
      BY <1>1, <1>9 DEF ThreadType, Wakes
    <2> QED
      BY <1>7, <2>1
  <1>10. CASE TimesOut(x)
    <2>1. CASE t.timeouts + 1 >= MaxEventTimeouts
      <3>1. Goes(x, "sleeping") /\ Left(t, x[2]) = ReopenDelay
        BY <1>2, <1>10, <2>1 DEF TimesOut, CountsTimeout, At, Left
      <3> QED
        BY <1>2, <1>4, <3>1
    <2>2. CASE ~(t.timeouts + 1 >= MaxEventTimeouts)
      <3>1. thread'[x] = [t EXCEPT !.pc = "streaming", !.timer = 0,
                                   !.timeouts = t.timeouts + 1]
        BY <1>1, <1>10, <2>2 DEF TimesOut, CountsTimeout
      <3>2. thread'[x].pc = "streaming" /\ thread'[x].stop = t.stop
        BY <1>1, <3>1 DEF ThreadType
      <3> QED
        BY <1>7, <3>2
    <2> QED
      BY <2>1, <2>2
  <1> QED
    BY <1>5, <1>6, <1>8, <1>9, <1>10 DEF ThreadStep

\* The time of a shut_down is kept within its bound by the threads, ...
LEMMA ThreadsKeepBlocked ==
    ASSUME BlockedInv, NEW x \in Thread, ThreadStep(x)
    PROVE  BlockedInv'
  <1>1. ThreadInv /\ ThreadInv'
    BY ThreadKeepsInv DEF BlockedInv
  <1>2. ~Settled(x) /\ Elsewhere(x) /\ thread'[x].pc # "none"
    BY <1>1, StepOfThread, StepsStay
  <1>3. UNCHANGED <<session, loop, blocked>>
    BY <1>2 DEF Elsewhere
  <1>4. Present'
    BY <1>2, <1>3 DEF BlockedInv, Present, Elsewhere, At, Begun, ThreadInv, Thread
  <1>5. ASSUME NEW kind \in Kind, NEW bound \in Nat, Joining(kind, bound)
        PROVE  Joining(kind, bound)'
    <2> SUFFICES ASSUME loop = kind
                 PROVE  Joining(kind, bound)'
      BY <1>3 DEF Joining
    <2> DEFINE y == <<session, kind>>
    <2>1. y \in Thread /\ y[2] = kind
      BY <1>1, TwoKinds DEF ThreadInv, Begun, Thread
    <2>2. CASE x = y
      <3>1. thread'[x].stop /\ Left(thread'[x], kind) <= Left(thread[x], kind)
        BY <1>1, <1>5, <2>1, <2>2, StopsInTime DEF Joining
      <3>2. Left(thread'[x], kind) \in Nat /\ Left(thread[x], kind) \in Nat
        BY <1>1, <2>1, <2>2, LeftBounded DEF ThreadInv, TypeOK, ThreadType, Counted
      <3>3. blocked \in Nat
        BY <1>1 DEF ThreadInv, TypeOK
      <3>4. blocked + Left(thread[x], kind) <= bound
        BY <1>5, <2>2 DEF Joining
      <3>5. blocked + Left(thread'[x], kind) <= bound
        BY <3>1, <3>2, <3>3, <3>4
      <3> QED
        BY <1>3, <2>2, <3>1, <3>5 DEF Joining
    <2>3. CASE x # y
      <3>1. thread'[y] = thread[y]
        BY <1>2, <2>1, <2>3 DEF Elsewhere
      <3> QED
        BY <1>3, <1>5, <3>1 DEF Joining
    <2> QED
      BY <2>2, <2>3
  <1>6. ShutDownBounded'
    BY <1>3 DEF BlockedInv, ShutDownBounded
  <1> QED
    BY <1>1, <1>4, <1>5, <1>6, Times, TwoKinds DEF BlockedInv

\* ... by the loop, whose second join begins when the first has taken its time,
\* ...
LEMMA LoopKeepsBlocked ==
    ASSUME Polls, BlockedInv, LoopStep
    PROVE  BlockedInv'
  <1> USE TwoKinds
  <1>1. ThreadInv /\ ThreadInv' /\ thread \in [Thread -> ThreadType] /\ blocked \in Nat
    BY LoopKeepsInv DEF BlockedInv, ThreadInv, TypeOK, ThreadType
  <1>2. ASSUME NEW kind \in Kind, StopThread(kind), UNCHANGED session,
               loop # "idle", Present
        PROVE  /\ thread[<<session, kind>>] \in ThreadType
               /\ CountedIn(thread[<<session, kind>>], WaitMax[kind])
               /\ thread'[<<session, kind>>].stop
               /\ Left(thread'[<<session, kind>>], kind)
                      = Left(thread[<<session, kind>>], kind)
               /\ Present'
    <2> DEFINE y == <<session, kind>>
    <2>1. session \in Session /\ y \in Thread /\ y[2] = kind
      BY <1>1, <1>2 DEF ThreadInv, Begun, Thread
    <2>2. thread[y] \in ThreadType /\ CountedIn(thread[y], WaitMax[kind])
      BY <1>1, <2>1 DEF ThreadInv, Counted
    <2>3. thread'[y] = [thread[y] EXCEPT !.stop = TRUE]
      BY <1>1, <1>2, <2>1 DEF StopThread
    <2>4. thread'[y].stop /\ Left(thread'[y], kind) = Left(thread[y], kind)
      BY <2>2, <2>3 DEF ThreadType, Left
    <2>5. Present'
      BY <1>1, <1>2, <2>1, StopKeeps DEF Present, At, Thread
    <2> QED
      BY <2>2, <2>4, <2>5
  <1>3. CASE StartSession
    <2>1. Spawns(Kind) /\ loop' = "serving" /\ blocked' = blocked
      BY <1>3 DEF StartSession, Spawns
    <2>2. session' \in Session
      BY <1>1, <2>1, SpawnsTyped
    <2>3. \A kind \in Kind : thread'[<<session', kind>>].pc = "starting"
      BY <1>1, <2>1, <2>2, SpawnsTyped DEF Thread
    <2> QED
      BY <1>1, <2>1, <2>3 DEF BlockedInv, Present, Joining, ShutDownBounded, At
  <1>7. ASSUME NEW kind \in Kind, FailSession(kind)
        PROVE  BlockedInv'
    <2>1. loop' = "idle" /\ blocked' = blocked
      BY <1>7 DEF FailSession, Spawns
    <2> QED
      BY <1>1, <2>1 DEF BlockedInv, Present, Joining, ShutDownBounded
  <1>4. CASE ShutDown
    <2>1. StopThread(First) /\ UNCHANGED session /\ loop # "idle" /\ blocked' = 0
          /\ loop' = First
      BY <1>4 DEF ShutDown, StopThread
    <2>2. /\ thread[<<session, First>>] \in ThreadType
          /\ CountedIn(thread[<<session, First>>], WaitMax[First])
          /\ thread'[<<session, First>>].stop
          /\ Left(thread'[<<session, First>>], First)
                 = Left(thread[<<session, First>>], First)
          /\ Present'
      BY <1>2, <2>1 DEF BlockedInv
    <2>3. Left(thread[<<session, First>>], First) <= WaitMax[First] + ReopenDelay
      BY <2>2, LeftBounded
    <2>4. Left(thread[<<session, First>>], First) \in Nat
      BY <2>2, LeftBounded
    <2>5. Joining(First, WaitMax[First] + ReopenDelay)'
      BY <2>1, <2>2, <2>3, <2>4 DEF Joining
    <2>6. Joining(Second, WaitMax[First] + 2 * ReopenDelay)'
      BY <2>1 DEF Joining
    <2>7. ShutDownBounded'
      BY <2>1, Times DEF ShutDownBounded
    <2> QED
      BY <1>1, <2>2, <2>5, <2>6, <2>7 DEF BlockedInv
  <1>5. CASE JoinFirst
    <2>1. StopThread(Second) /\ UNCHANGED <<session, blocked>> /\ loop = First
          /\ loop' = Second /\ loop # "idle"
      BY <1>5 DEF JoinFirst, StopThread
    <2>2. /\ thread[<<session, Second>>] \in ThreadType
          /\ CountedIn(thread[<<session, Second>>], WaitMax[Second])
          /\ thread'[<<session, Second>>].stop
          /\ Left(thread'[<<session, Second>>], Second)
                 = Left(thread[<<session, Second>>], Second)
          /\ Present'
      BY <1>2, <2>1 DEF BlockedInv
    <2>3. /\ Left(thread[<<session, Second>>], Second) \in Nat
          /\ Left(thread[<<session, Second>>], Second) <= ReopenDelay
      BY <2>2, LeftBounded DEF Polls
    <2>4. Left(thread[<<session, First>>], First) \in Nat
      <3>1. <<session, First>> \in Thread
        BY <1>1, <2>1 DEF ThreadInv, Begun, Thread
      <3> QED
        BY <1>1, <3>1, LeftBounded DEF ThreadInv, Counted
    <2>5. blocked <= WaitMax[First] + ReopenDelay
      <3>1. blocked + Left(thread[<<session, First>>], First)
                <= WaitMax[First] + ReopenDelay
        BY <2>1 DEF BlockedInv, Joining
      <3> QED
        BY <1>1, <2>4, <3>1, Times
    <2>6. blocked + Left(thread[<<session, Second>>], Second)
              <= WaitMax[First] + 2 * ReopenDelay
      BY <1>1, <2>3, <2>5, Times
    <2>7. Joining(Second, WaitMax[First] + 2 * ReopenDelay)'
      BY <2>1, <2>2, <2>6 DEF Joining
    <2>8. Joining(First, WaitMax[First] + ReopenDelay)'
      BY <2>1 DEF Joining
    <2>9. ShutDownBounded'
      BY <2>1 DEF BlockedInv, ShutDownBounded
    <2> QED
      BY <1>1, <2>2, <2>7, <2>8, <2>9 DEF BlockedInv
  <1>6. CASE JoinSecond
    BY <1>1, <1>6 DEF BlockedInv, JoinSecond, Present, Joining, ShutDownBounded
  <1> QED
    BY <1>3, <1>4, <1>5, <1>6, <1>7 DEF LoopStep

\* ... and by time, of which the joined thread has one less left.
LEMMA TimeKeepsBlocked ==
    ASSUME BlockedInv, Tick
    PROVE  BlockedInv'
  <1> USE TwoKinds
  <1>1. /\ ThreadInv /\ ThreadInv' /\ thread \in [Thread -> ThreadType]
        /\ blocked \in Nat /\ UNCHANGED <<session, loop>>
    BY TimeKeepsInv DEF BlockedInv, ThreadInv, TypeOK, ThreadType, Tick
  <1>2. /\ blocked' \in Nat /\ blocked' <= blocked + 1
        /\ loop \notin Kind => blocked' = blocked
    <2>1. \A n \in Nat : Longer(n) \in Nat /\ Longer(n) <= n + 1
                          /\ (loop \notin Kind => Longer(n) = n)
      BY DEF Longer
    <2> QED
      BY <1>1, <2>1 DEF Tick
  <1>3. \A x \in Thread :
          thread'[x].pc = thread[x].pc /\ thread'[x].stop = thread[x].stop
    BY <1>1 DEF Tick, ThreadType
  <1>4. Present'
    BY <1>1, <1>3 DEF BlockedInv, Present, At, ThreadInv, Begun, Thread
  <1>5. ASSUME NEW kind \in Kind, NEW bound \in Nat, Joining(kind, bound)
        PROVE  /\ Joining(kind, bound)'
               /\ loop = kind => blocked' <= bound
    <2> SUFFICES ASSUME loop = kind
                 PROVE  Joining(kind, bound)' /\ blocked' <= bound
      BY <1>1 DEF Joining
    <2> DEFINE y == <<session, kind>>
               t == thread[y]
    <2>1. /\ y \in Thread /\ y[2] = kind
          /\ t \in ThreadType /\ CountedIn(t, WaitMax[kind])
      BY <1>1 DEF ThreadInv, Begun, Thread, Counted
    <2>2. Waiting(y) /\ ~Settled(y)
      BY <2>1 DEF BlockedInv, Present, Settled, Joined, At, Tick
    <2>3. thread'[y] \in ThreadType /\ CountedIn(thread'[y], WaitMax[kind])
      BY <1>1, <2>1 DEF ThreadInv, TypeOK, ThreadType, Counted
    <2>4. /\ thread'[y].timer = t.timer + 1
          /\ thread'[y].pc = t.pc /\ t.pc \in {"waiting", "sleeping"}
      BY <1>1, <2>1, <2>2 DEF Tick, Waiting, At, ThreadType
    <2>5. t.timer \in Nat
      BY <2>1 DEF ThreadType
    <2>6. Left(thread'[y], kind) = Left(t, kind) - 1
      BY <2>1, <2>4, <2>5, Times DEF Left
    <2>7. Left(thread'[y], kind) \in Nat /\ Left(t, kind) \in Nat
      BY <2>1, <2>3, LeftBounded
    <2>8. t.stop /\ blocked + Left(t, kind) <= bound
      BY <1>5 DEF Joining
    <2>9. blocked' + Left(thread'[y], kind) <= bound /\ blocked' <= bound
      BY <1>1, <1>2, <2>6, <2>7, <2>8
    <2> QED
      BY <1>1, <1>3, <2>1, <2>8, <2>9 DEF Joining
  <1>6. /\ Joining(First, WaitMax[First] + ReopenDelay)'
        /\ Joining(Second, WaitMax[First] + 2 * ReopenDelay)'
    BY <1>5, Times DEF BlockedInv
  <1>7. blocked' <= WaitMax[First] + 2 * ReopenDelay
    <2>1. CASE loop = First
      <3>1. blocked' <= WaitMax[First] + ReopenDelay
        BY <1>5, <2>1, Times DEF BlockedInv
      <3> QED
        BY <1>2, <3>1, Times
    <2>2. CASE loop = Second
      BY <1>5, <2>2, Times DEF BlockedInv
    <2>3. CASE loop \notin Kind
      BY <1>2, <2>3 DEF BlockedInv, ShutDownBounded
    <2> QED
      BY <2>1, <2>2, <2>3
  <1> QED
    BY <1>1, <1>4, <1>6, <1>7 DEF BlockedInv, ShutDownBounded

\* However long the delays, and whatever the threads are doing when they are
\* told to stop, shut_down blocks the loop for one wait and two delays before a
\* reopening at most.
THEOREM ShutDownsAreBounded == Polls => (Spec => []ShutDownBounded)
<1> SUFFICES ASSUME Polls PROVE Spec => []ShutDownBounded
  OBVIOUS
<1>1. Spec => []ThreadInv
  BY ThreadInvInvariant
<1>2. Init /\ ThreadInv => BlockedInv
  BY TwoKinds, Times DEF Init, BlockedInv, Present, Joining, ShutDownBounded
<1>3. BlockedInv /\ [Next]_vars => BlockedInv'
  <2> SUFFICES ASSUME BlockedInv, [Next]_vars PROVE BlockedInv'
    OBVIOUS
  <2>1. CASE Replug
    BY <2>1, ReplugKeepsInv
    DEF Replug, BlockedInv, Present, Joining, ShutDownBounded, At
  <2>2. CASE UNCHANGED vars
    BY <2>2
    DEF vars, BlockedInv, Present, Joining, ShutDownBounded, At, ThreadInv, TypeOK,
        Begun, Counted, OnlyAlive, Alive, Settled, Forgotten, Served
  <2> QED
    BY <2>1, <2>2, ThreadsKeepBlocked, LoopKeepsBlocked, TimeKeepsBlocked
    DEF Next, LoopStep
<1>4. BlockedInv => ShutDownBounded
  BY DEF BlockedInv
<1> QED
  BY <1>1, <1>2, <1>3, <1>4, PTL DEF Spec

-----------------------------------------------------------------------------
(* NoFeedback *)

\* The endpoints a configured name may find.
MayFind(kind) == {Wanted[kind]} \cup Matches[Wanted[kind]]

\* Both names are configured, and no endpoint answers to both.
Apart ==
    /\ \A kind \in Kind : Wanted[kind] # Default
    /\ MayFind("render") \cap MayFind("capture") = {}

OnWanted == \A x \in Thread : Streaming(x) => thread[x].on \in MayFind(x[2])

\* A thread stays on the endpoint it opened.
LEMMA ThreadStaysOn ==
    ASSUME ThreadInv, OnWanted, Apart, NEW x \in Thread, ThreadStep(x)
    PROVE  OnWanted'
  <1>1. thread \in [Thread -> ThreadType] /\ x[2] \in Kind
    BY DEF ThreadInv, TypeOK, ThreadType, Thread
  <1>2. Elsewhere(x)
    BY StepOfThread
  <1>3. ASSUME Streaming(x)'
        PROVE  thread'[x].on \in MayFind(x[2])
    <2>1. CASE Opens(x)
      <3>1. PICK found \in FindDevice(Wanted[x[2]]) : thread'[x].on = found
        BY <1>1, <2>1 DEF Opens, ThreadType
      <3> QED
        BY <1>1, <3>1, FindsNames DEF ThreadInv, Apart, MayFind
    <2> DEFINE Leaves == \E place \in {"checking", "ended", "opening", "sleeping"} :
                             Goes(x, place)
               Stays == Streaming(x) /\ thread'[x].on = thread[x].on
    <2>2. CASE Leaves
      <3>1. PICK place \in {"checking", "ended", "opening", "sleeping"} : Goes(x, place)
        BY <2>2
      <3>2. thread'[x].pc = place
        BY <1>1, <3>1 DEF Goes, NoThread
      <3> QED
        BY <1>3, <3>2 DEF Streaming, At
    <2>3. CASE Stays
      BY <2>3 DEF OnWanted
    <2>4. Streams(x) \/ Wakes(x) \/ TimesOut(x) => Leaves \/ Stays
      <3>1. Streams(x) \/ Wakes(x) \/ TimesOut(x) => Streaming(x)
        BY DEF Streams, Wakes, TimesOut, CountsTimeout, Streaming, At
      <3>2. CASE Waits(x) \/ Wakes(x)
        BY <1>1, <3>1, <3>2 DEF Waits, Wakes, ThreadType
      <3>3. CASE TimesOut(x) /\ ~Goes(x, "sleeping")
        BY <1>1, <3>1, <3>3 DEF TimesOut, CountsTimeout, ThreadType
      <3> QED
        BY <3>1, <3>2, <3>3 DEF Streams
    <2> QED
      BY <2>1, <2>2, <2>3, <2>4
      DEF ThreadStep, Starts, CannotStart, Checks, CannotOpen, Slept, Fails
  <1> QED
    BY <1>2, <1>3 DEF OnWanted, Elsewhere, Streaming, At

\* What the loop and the clock do to a thread moves it to no other endpoint.
LEMMA OthersStayOn ==
    ASSUME ThreadInv, OnWanted, LoopStep \/ Tick
    PROVE  OnWanted'
  <1>1. thread \in [Thread -> ThreadType]
    BY DEF ThreadInv, TypeOK, ThreadType
  <1>2. ASSUME NEW kind \in Kind, StopThread(kind)
        PROVE  OnWanted'
    <2>1. \A x \in Thread : thread'[x].pc = thread[x].pc /\ thread'[x].on = thread[x].on
      BY <1>1, <1>2 DEF StopThread, ThreadType
    <2> QED
      BY <2>1 DEF OnWanted, Streaming, At
  <1>3. ASSUME NEW kinds \in SUBSET Kind, Spawns(kinds)
        PROVE  OnWanted'
    <2>1. \A x \in Thread :
            thread'[x] = thread[x] \/ thread'[x].pc \in {"starting", "none"}
      BY <1>3, SpawnsTyped
    <2> QED
      BY <2>1 DEF OnWanted, Streaming, At
  <1>4. CASE Tick
    <2>1. \A x \in Thread : thread'[x].pc = thread[x].pc /\ thread'[x].on = thread[x].on
      BY <1>1, <1>4 DEF Tick, ThreadType
    <2> QED
      BY <2>1 DEF OnWanted, Streaming, At
  <1>5. CASE JoinSecond
    BY <1>5 DEF JoinSecond, OnWanted, Streaming, At
  <1>6. \A kind \in Kind : SpawnedBefore(kind) \in SUBSET Kind
    BY DEF SpawnedBefore, Kind
  <1> QED
    BY <1>2, <1>3, <1>4, <1>5, <1>6, TwoKinds
    DEF LoopStep, StartSession, FailSession, ShutDown, JoinFirst

\* If both endpoints are named and no endpoint answers to both names, what the
\* applications hear as a microphone is never captured as their playback,
\* whatever is plugged in, unplugged or made the default.
THEOREM DirectionsStayApart ==
    ASSUME Apart
    PROVE  Spec => []NoFeedback
  <1>1. Init => OnWanted
    BY DEF Init, NoThread, OnWanted, Streaming, At
  <1>2. ThreadInv /\ OnWanted /\ [Next]_vars => OnWanted'
    <2> SUFFICES ASSUME ThreadInv, OnWanted, [Next]_vars
                 PROVE  OnWanted'
      OBVIOUS
    <2>1. CASE Replug \/ UNCHANGED vars
      BY <2>1 DEF Replug, vars, OnWanted, Streaming, At
    <2> QED
      BY <2>1, ThreadStaysOn, OthersStayOn DEF Next, LoopStep
  <1>3. OnWanted => NoFeedback
    BY DEF OnWanted, Apart, NoFeedback
  <1> QED
    BY <1>1, <1>2, <1>3, ThreadInvInvariant, PTL DEF Spec
=============================================================================
