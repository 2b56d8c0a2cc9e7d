------------------------------ MODULE VmAgent -------------------------------
(***************************************************************************)
(* vm::net::run: the end of the session that answers, one action per arm   *)
(* of its select loop, per datagram it handles and per outcome of          *)
(* handle_hello.  Both directions are enabled in its configuration.        *)
(*                                                                         *)
(* Of last_rx only `is it older than idle_timeout` is kept.  The handlers  *)
(* of Pong and HelloAck are left out: no host agent sends either to the VM *)
(* (a host answers Ping, which the VM never sends).                        *)
(***************************************************************************)
EXTENDS Wire, Sequences

CONSTANTS
    Trusted,        \* the processes configured with the VM's token
    Supported,      \* the formats Format::validate accepts
    SpawnFails,     \* which audio threads may fail to start
    CaptureQueue,   \* CAPTURE_QUEUE
    MaxSpeaker,     \* bound on the speaker packets sent
    MaxLives,       \* bound on the starts of the VM agent
    NoSession       \* `None`

Sessions ==
    [id : Host, peer : Address, format : Formats,
     fresh : BOOLEAN, seq : SeqNumbers, rx : Receivers]

ASSUME VmAssumption ==
    /\ Trusted \subseteq Host
    /\ SpawnFails \subseteq {"render", "capture"}
    /\ CaptureQueue \in Nat /\ MaxSpeaker \in Nat /\ MaxLives \in Nat
    /\ NoSession \notin Sessions \cup Host

VARIABLES
    vmUp,           \* the agent runs
    session,        \* Option<Session>
    captured,       \* the PCM queue between capture threads and the loop
    threads,        \* how many audio threads of each kind are alive
    spkSent,        \* history: speaker packets sent
    lives           \* history: how often the agent was started

vmVars == <<vmUp, session, captured, threads, spkSent, lives>>

VmTypeOK ==
    /\ vmUp \in BOOLEAN
    /\ session \in Sessions \cup {NoSession}
    /\ captured \in Seq(Formats)
    /\ Len(captured) <= CaptureQueue
    /\ threads \in [render : Nat, capture : Nat]
    /\ spkSent \in 0 .. MaxSpeaker
    /\ lives \in 0 .. MaxLives

NoThreads == [render |-> 0, capture |-> 0]

VmInit ==
    /\ vmUp = FALSE
    /\ session = NoSession
    /\ captured = <<>>
    /\ threads = NoThreads
    /\ spkSent = 0
    /\ lives = 0

HasSession == session # NoSession

VmStart ==
    /\ ~vmUp
    /\ lives < MaxLives
    /\ vmUp' = TRUE
    /\ lives' = lives + 1
    /\ UNCHANGED <<net, session, captured, threads, spkSent>>

-----------------------------------------------------------------------------
(* Sessions *)

\* What shut_down leaves running: it joins the two threads of the session.  The
\* mutant drops the session without it.
ThreadsUnjoined(s) == threads
ThreadsWithout(s) ==
    IF s = NoSession THEN threads
    ELSE [render |-> threads.render - 1, capture |-> threads.capture - 1]

\* A datagram the loop reads, and the reply it sends while handling it.
Take(m) == vmUp /\ m \in net /\ m.to = VmAddr

Answer(m, reply) == \E rest \in After(m) : net' = Posted(rest, reply)

Refuse(m, status) ==
    /\ Answer(m, HelloAck(m.session, m.from, status))
    /\ UNCHANGED vmVars

Authentic(m) == m.session \in Trusted

Understood(m) == FormatOf[m.session] \in Supported

\* "A live session belongs to its host until it times out."  The mutant reads
\* the clock the wrong way round.
OwnedWhenStale(m) == HasSession /\ session.peer # m.from /\ ~session.fresh
OwnedByAnother(m) == HasSession /\ session.peer # m.from /\ session.fresh

Unchanged(m) ==
    /\ HasSession
    /\ session.id = m.session
    /\ session.peer = m.from
    /\ session.format = FormatOf[m.session]

IsHello(m) == Take(m) /\ m.type = "Hello"

MayOpen(m) ==
    /\ IsHello(m)
    /\ Authentic(m)
    /\ Understood(m)
    /\ ~OwnedByAnother(m)

RefuseToken(m) == IsHello(m) /\ ~Authentic(m) /\ Refuse(m, "AuthFailed")

RefuseFormat(m) ==
    /\ IsHello(m)
    /\ Authentic(m)
    /\ ~Understood(m)
    /\ Refuse(m, "UnsupportedFormat")

RefuseBusy(m) ==
    /\ IsHello(m)
    /\ Authentic(m)
    /\ Understood(m)
    /\ OwnedByAnother(m)
    /\ Refuse(m, "Busy")

\* A repeated Hello: the pipeline stays as it is.
KeepSession(m) ==
    /\ MayOpen(m)
    /\ Unchanged(m)
    /\ session' = [session EXCEPT !.fresh = TRUE]
    /\ Answer(m, HelloAck(m.session, m.from, "Ok"))
    /\ UNCHANGED <<vmUp, captured, threads, spkSent, lives>>

\* A new host, process or format: the old session is shut down and the new
\* one starts with a buffer and a sequence of its own.
OpenSession(m) ==
    /\ MayOpen(m)
    /\ ~Unchanged(m)
    /\ session' = [id |-> m.session, peer |-> m.from,
                   format |-> FormatOf[m.session],
                   fresh |-> TRUE, seq |-> 0, rx |-> Deaf]
    /\ threads' = [render  |-> ThreadsWithout(session).render + 1,
                   capture |-> ThreadsWithout(session).capture + 1]
    /\ Answer(m, HelloAck(m.session, m.from, "Ok"))
    /\ UNCHANGED <<vmUp, captured, spkSent, lives>>

\* start_session returns early with the error of the thread that did not
\* start; the render thread is started first and nobody stops it then.
FailSession(m, failing) ==
    /\ MayOpen(m)
    /\ ~Unchanged(m)
    /\ session' = NoSession
    /\ threads' = IF failing = "render" THEN ThreadsWithout(session)
                  ELSE [ThreadsWithout(session) EXCEPT !.render = @ + 1]
    /\ Answer(m, HelloAck(m.session, m.from, "ServerError"))
    /\ UNCHANGED <<vmUp, captured, spkSent, lives>>

HandleHello(m) ==
    \/ RefuseToken(m) \/ RefuseFormat(m) \/ RefuseBusy(m)
    \/ KeepSession(m) \/ OpenSession(m)
    \/ \E failing \in SpawnFails : FailSession(m, failing)

-----------------------------------------------------------------------------
(* The other datagrams *)

\* The mutant looks at the address only.
FromItsAddress(m) == HasSession /\ m.from = session.peer
FromOwner(m) == HasSession /\ m.session = session.id /\ m.from = session.peer

RecvMic(m) ==
    /\ Take(m)
    /\ m.type = "Mic"
    /\ FromOwner(m)
    /\ session' = [session EXCEPT !.fresh = TRUE, !.rx = Hears(@, m)]
    /\ net' \in After(m)
    /\ UNCHANGED <<vmUp, captured, threads, spkSent, lives>>

RecvPing(m) ==
    /\ Take(m)
    /\ m.type = "Ping"
    /\ FromOwner(m)
    /\ session' = [session EXCEPT !.fresh = TRUE]
    /\ Answer(m, Pong(m.session, m.from))
    /\ UNCHANGED <<vmUp, captured, threads, spkSent, lives>>

RecvHostBye(m) ==
    /\ Take(m)
    /\ m.type = "Bye"
    /\ FromOwner(m)
    /\ session' = NoSession
    /\ threads' = ThreadsWithout(session)
    /\ net' \in After(m)
    /\ UNCHANGED <<vmUp, captured, spkSent, lives>>

\* Anything but a Hello that is not from the owner of the session.
RecvForeign(m) ==
    /\ Take(m)
    /\ m.type # "Hello"
    /\ ~FromOwner(m)
    /\ net' = net \ {m}
    /\ UNCHANGED vmVars

VmReceive(m) ==
    \/ HandleHello(m) \/ RecvMic(m) \/ RecvPing(m)
    \/ RecvHostBye(m) \/ RecvForeign(m)

-----------------------------------------------------------------------------
(* The audio threads and the timers *)

\* The mutant, for Capture, queues without a bound.
CaptureUnbounded ==
    /\ HasSession
    /\ captured' = Append(captured, session.format)
    /\ UNCHANGED <<net, vmUp, session, threads, spkSent, lives>>

\* The capture thread offers a packet in the format of its session
\* (emit_due_packets, try_send); a full queue drops it.
Capture ==
    /\ HasSession
    /\ Len(captured) < CaptureQueue
    /\ captured' = Append(captured, session.format)
    /\ UNCHANGED <<net, vmUp, session, threads, spkSent, lives>>

\* `Some(pcm) = capture_rx.recv()` with a session to send it under.
SendSpeaker ==
    /\ HasSession
    /\ captured # <<>>
    /\ spkSent < MaxSpeaker
    /\ net' = Posted(net, Speaker(session.id, session.peer, session.seq,
                                  spkSent + 1, Head(captured)))
    /\ session' = [session EXCEPT !.seq = SeqOf(@ + 1)]
    /\ captured' = Tail(captured)
    /\ spkSent' = spkSent + 1
    /\ UNCHANGED <<vmUp, threads, lives>>

\* The same arm without one: `continue`.
DropSpeaker ==
    /\ vmUp
    /\ ~HasSession
    /\ captured # <<>>
    /\ captured' = Tail(captured)
    /\ UNCHANGED <<net, vmUp, session, threads, spkSent, lives>>

\* The render thread lost its endpoint: it resets the buffer and reopens.
RenderReopened ==
    /\ HasSession
    /\ session.rx # Deaf
    /\ session' = [session EXCEPT !.rx = Deaf]
    /\ UNCHANGED <<net, vmUp, captured, threads, spkSent, lives>>

\* idle_timeout passes without a datagram from the owner.
VmQuiet ==
    /\ HasSession
    /\ session.fresh
    /\ session' = [session EXCEPT !.fresh = FALSE]
    /\ UNCHANGED <<net, vmUp, captured, threads, spkSent, lives>>

\* The mutant, for Sweep, warns and leaves the session where it is.
SweepWarnsOnly ==
    /\ HasSession
    /\ ~session.fresh
    /\ UNCHANGED <<net, vmVars>>

\* `_ = sweep.tick()`: the host went quiet.
Sweep ==
    /\ HasSession
    /\ ~session.fresh
    /\ session' = NoSession
    /\ threads' = ThreadsWithout(session)
    /\ UNCHANGED <<net, vmUp, captured, spkSent, lives>>

\* The process ends and everything in it with it.
VmGone ==
    /\ vmUp
    /\ vmUp' = FALSE
    /\ session' = NoSession
    /\ captured' = <<>>
    /\ threads' = NoThreads
    /\ UNCHANGED <<spkSent, lives>>

\* ctrl_c
VmStop ==
    /\ VmGone
    /\ net' = IF HasSession THEN Posted(net, VmBye(session.id, session.peer))
                            ELSE net

VmCrash == VmGone /\ UNCHANGED net

VmStep ==
    \/ VmStart \/ Capture \/ SendSpeaker \/ DropSpeaker \/ RenderReopened
    \/ VmQuiet \/ Sweep \/ VmStop \/ VmCrash
=============================================================================
