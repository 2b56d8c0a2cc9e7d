------------------------------- MODULE Bridge -------------------------------
(***************************************************************************)
(* The whole bridge: any number of host agents, started, stopped, killed   *)
(* and restarted, one VM agent, and a network that loses, repeats and      *)
(* reorders what they send each other.                                     *)
(***************************************************************************)
EXTENDS HostAgent, VmAgent

vars == <<net, hostVars, vmVars>>

TypeOK == WireTypeOK /\ HostTypeOK /\ VmTypeOK

Init ==
    /\ net = {}
    /\ HostInit
    /\ VmInit

Next ==
    \/ \E p \in Host : HostStep(p) /\ UNCHANGED vmVars
    \/ \E p \in Host, m \in net : HostReceive(p, m) /\ UNCHANGED vmVars
    \/ VmStep /\ UNCHANGED hostVars
    \/ \E m \in net : VmReceive(m) /\ UNCHANGED hostVars
    \/ Lose /\ UNCHANGED <<hostVars, vmVars>>

Spec == Init /\ [][Next]_vars

-----------------------------------------------------------------------------
(* Safety *)

\* Only a host with the token and a format the VM can handle ever considers
\* the bridge up, whatever acks are delayed, repeated or meant for another.
AdmittedOnly ==
    \A p \in Host : established[p] => p \in Trusted /\ FormatOf[p] \in Supported

\* The audio threads that run are exactly those of the current session,
\* across every way a session is replaced, closed or fails to start.
ThreadsMatchSession ==
    threads = IF HasSession THEN [render |-> 1, capture |-> 1] ELSE NoThreads

\* "A live session belongs to its host until it times out": as long as the VM
\* agent runs, a session that is fresh ends only by a Bye of its own process
\* or a Hello from its own address, never through another host or a stray
\* datagram of an earlier process.
LiveSessionKept ==
    [][HasSession /\ session.fresh /\ vmUp'
       /\ (session' = NoSession \/ session'.id # session.id)
       => \E m \in net :
             /\ m.to = VmAddr
             /\ m.from = session.peer
             /\ \/ m.type = "Hello"
                \/ m.type = "Bye" /\ m.session = session.id]_vars

\* "The host side proposes the format and this side follows, so the two can
\* never disagree": speaker PCM sent under a session is in its format.
SpeakerInFormat ==
    \A m \in net : m.type = "Speaker" => m.format = FormatOf[m.session]

\* Until its buffer is reset, a packet is taken in once at most, however often
\* the network repeats it, and although a host that is accepted again numbers from
\* 0 into the buffer of a session that was kept, as a VM agent that restarted does
\* into that of a host that has not noticed.  It goes no further: a buffer that was
\* reset, by a reopened device, a lost link, a Bye, an Ok or a new session, takes
\* any packet first, one that it has played before included.
OnceBetweenResets ==
    /\ [][\A m \in net :
             RecvMic(m) /\ Admits(session.rx, m) => m.nth \notin session.rx.taken]_vars
    /\ [][\A m \in net, p \in Host :
             RecvSpeaker(p, m) /\ Admits(speaker[p], m)
             => m.nth \notin speaker[p].taken]_vars

\* A buffer refuses a packet as late only when that packet, or a newer one,
\* was taken in before: JitterStats documents `late` as "packets that arrived
\* after their slot had already been played".
MicLateMeansPlayed ==
    [][\A m \in net :
          RecvMic(m) /\ ~Admits(session.rx, m)
          => \E k \in session.rx.taken : m.nth <= k]_vars

\* A link on which a datagram lives shorter than an idle_timeout, or a restart
\* of either agent, lasts.  When the VM has heard nothing for that long, neither
\* a datagram of its host nor the answer to one is in flight; nor is one of the
\* process before when a host is started; a session opens when the playback of
\* the session before has been delivered or lost.
Prompt ==
    /\ VmQuiet => \A m \in net :
          m.to \in {VmAddr, session.peer} => m.type = "Speaker"
    /\ VmStart => net = {}
    /\ \A p \in Host : HostStart(p) => \A m \in net :
          (m.to = VmAddr /\ m.from = AddrOf[p]) \/ m.to = AddrOf[p] => m.type = "Speaker"
    /\ \A m \in net : OpenSession(m) => \A n \in net : n.type # "Speaker"

-----------------------------------------------------------------------------
(* The session as a lease *)

Holder == IF HasSession THEN session.id ELSE NoSession
Live   == IF HasSession THEN session.fresh ELSE FALSE
Ended  == {p \in Host : phase[p] = "gone"}
Guests == {p \in Trusted : FormatOf[p] \in Supported}

Leased == INSTANCE Lease WITH
    Process <- Host, PlaceOf <- AddrOf, Entitled <- Guests,
    NoOne <- NoSession, MayFail <- SpawnFails # {},
    serving <- vmUp, holder <- Holder, live <- Live, gone <- Ended

\* The session of the VM agent is a lease, whatever the network makes of the
\* datagrams that ask for it, renew it and give it back: delayed Hellos and
\* Byes of earlier processes at the same address, and acks that get lost.
SessionIsLease == Leased!Spec

-----------------------------------------------------------------------------
(* Liveness *)

SessionOf(p) == IF HasSession THEN session.id = p ELSE FALSE

\* Nobody sends `p` anything: the VM has no session of its, and nothing for it
\* is in flight.
NothingFor(p) ==
    /\ \A m \in net : m.to # AddrOf[p]
    /\ ~SessionOf(p)

ControlDatagrams ==
    {Hello(p) : p \in Host} \cup {Ping(p) : p \in Host} \cup
    {HostBye(p) : p \in Host} \cup {Pong(p, AddrOf[p]) : p \in Host} \cup
    {VmBye(p, AddrOf[p]) : p \in Host} \cup
    {HelloAck(p, AddrOf[p], s) : p \in Host, s \in Statuses}

\* The session's host is gone, and nothing it sent is in flight.
OwnerSilent ==
    \E p \in Host :
        /\ SessionOf(p)
        /\ ~Running(p)
        /\ \A m \in net : m.to = VmAddr => m.session # p

\* The timers fire, a loop handles what has been delivered to it, and a socket
\* nobody sends to goes quiet.  A datagram does not stay in flight for ever,
\* and a link does not lose every one of infinitely many Hellos and acks.
\* Starting, stopping and crashing are never forced.
Fairness ==
    /\ \A p \in Host :
          /\ WF_vars(LinkLost(p) /\ UNCHANGED vmVars)
          /\ WF_vars(NothingFor(p) /\ HostQuiet(p) /\ UNCHANGED vmVars)
          /\ SF_vars(HelloTick(p) /\ Hello(p) \in net' /\ UNCHANGED vmVars)
          /\ SF_vars(HandleHello(Hello(p)) /\ UNCHANGED hostVars
                     /\ (\E s \in Statuses : HelloAck(p, AddrOf[p], s) \in net'))
          /\ SF_vars(\E m \in net : RecvAccept(p, m) /\ UNCHANGED vmVars)
    /\ WF_vars(OwnerSilent /\ VmQuiet /\ UNCHANGED hostVars)
    /\ WF_vars(Sweep /\ UNCHANGED hostVars)
    /\ \A m \in ControlDatagrams :
          WF_vars(m \in net /\ net' = net \ {m} /\ UNCHANGED <<hostVars, vmVars>>)

FairSpec == Spec /\ Fairness

\* "The host retries until it is up": a welcome host that keeps running, alone
\* with a VM that keeps running, gets the bridge up, and up again after every
\* loss.
Alone(p) == Running(p) /\ vmUp /\ \A q \in Host \ {p} : ~Running(q)

EventuallyUp ==
    \A p \in {q \in Trusted : FormatOf[q] \in Supported} :
        <>[]Alone(p) => []<>established[p]

\* A host that believes in a session the VM does not have finds out.
Deluded(p) == established[p] /\ ~SessionOf(p)

DivergenceHeals == \A p \in Host : Deluded(p) ~> ~Deluded(p)

\* The devices of a host that died without a word are released.
Orphaned(p) == SessionOf(p) /\ ~Running(p)

DeadHostReleased == \A p \in Host : Orphaned(p) ~> ~Orphaned(p)
=============================================================================
