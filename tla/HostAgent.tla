----------------------------- MODULE HostAgent ------------------------------
(***************************************************************************)
(* host::net::run: the client end of a session, one action per arm of its  *)
(* select loop and per datagram it handles.  A handler runs to its end     *)
(* before the loop selects again, so each is one action.                   *)
(*                                                                         *)
(* Of last_rx only `is it older than idle_timeout` is kept.  The round     *)
(* trip bookkeeping (pending_ping, rtt) and the counters feed the log only *)
(* and are left out, and so is the handler of Ping, which a VM agent never *)
(* sends.                                                                  *)
(***************************************************************************)
EXTENDS Wire

CONSTANT MaxMic         \* bound on the microphone packets a host sends

ASSUME HostAssumption == MaxMic \in Nat

VARIABLES
    phase,          \* whether the process was started, runs, or is gone
    established,    \* the VM has accepted this process
    hostFresh,      \* a datagram came within idle_timeout (last_rx)
    hostSeq,        \* the number of the next microphone packet
    speaker,        \* the jitter buffer the speaker stream goes into
    micSent         \* history: microphone packets sent

hostVars == <<phase, established, hostFresh, hostSeq, speaker, micSent>>

HostTypeOK ==
    /\ phase \in [Host -> {"off", "running", "gone"}]
    /\ established \in [Host -> BOOLEAN]
    /\ hostFresh \in [Host -> BOOLEAN]
    /\ hostSeq \in [Host -> SeqNumbers]
    /\ speaker \in [Host -> Receivers]
    /\ micSent \in [Host -> 0 .. MaxMic]

HostInit ==
    /\ phase = [p \in Host |-> "off"]
    /\ established = [p \in Host |-> FALSE]
    /\ hostFresh = [p \in Host |-> TRUE]
    /\ hostSeq = [p \in Host |-> 0]
    /\ speaker = [p \in Host |-> Deaf]
    /\ micSent = [p \in Host |-> 0]

Running(p) == phase[p] = "running"

\* Two live sockets never share an address.
HostStart(p) ==
    /\ phase[p] = "off"
    /\ \A q \in Host : Running(q) => AddrOf[q] # AddrOf[p]
    /\ phase' = [phase EXCEPT ![p] = "running"]
    /\ UNCHANGED <<net, established, hostFresh, hostSeq, speaker, micSent>>

-----------------------------------------------------------------------------
(* The timers and the audio threads *)

\* The mutant, for HelloTick, stays silent on a link that has gone quiet.
HelloTickIfFresh(p) ==
    /\ Running(p)
    /\ ~established[p]
    /\ hostFresh[p]
    /\ net' = Posted(net, Hello(p))
    /\ UNCHANGED hostVars

\* `_ = hello_timer.tick(), if !established`
HelloTick(p) ==
    /\ Running(p)
    /\ ~established[p]
    /\ net' = Posted(net, Hello(p))
    /\ UNCHANGED hostVars

\* `_ = ping_timer.tick(), if established`: the link still answers.
PingTick(p) ==
    /\ Running(p)
    /\ established[p]
    /\ hostFresh[p]
    /\ net' = Posted(net, Ping(p))
    /\ UNCHANGED hostVars

\* The mutant, for LinkLost, resets the buffer and forgets to re-handshake.
LinkLostUnnoticed(p) ==
    /\ Running(p)
    /\ established[p]
    /\ ~hostFresh[p]
    /\ speaker' = [speaker EXCEPT ![p] = Deaf]
    /\ UNCHANGED <<net, phase, established, hostFresh, hostSeq, micSent>>

\* The same tick when nothing has come for idle_timeout: re-handshake.
LinkLost(p) ==
    /\ Running(p)
    /\ established[p]
    /\ ~hostFresh[p]
    /\ established' = [established EXCEPT ![p] = FALSE]
    /\ speaker' = [speaker EXCEPT ![p] = Deaf]
    /\ UNCHANGED <<net, phase, hostFresh, hostSeq, micSent>>

\* `Some(pcm) = mic_rx.recv()`; before the session is up the packet is
\* dropped, which changes nothing but a counter.
SendMic(p) ==
    /\ Running(p)
    /\ established[p]
    /\ micSent[p] < MaxMic
    /\ net' = Posted(net, Mic(p, hostSeq[p], micSent[p] + 1))
    /\ hostSeq' = [hostSeq EXCEPT ![p] = SeqOf(@ + 1)]
    /\ micSent' = [micSent EXCEPT ![p] = @ + 1]
    /\ UNCHANGED <<phase, established, hostFresh, speaker>>

\* The playback thread lost its device: it resets the buffer and reopens.
SpeakerReopened(p) ==
    /\ Running(p)
    /\ speaker[p] # Deaf
    /\ speaker' = [speaker EXCEPT ![p] = Deaf]
    /\ UNCHANGED <<net, phase, established, hostFresh, hostSeq, micSent>>

\* idle_timeout passes without a datagram.  Only an established host looks.
HostQuiet(p) ==
    /\ Running(p)
    /\ established[p]
    /\ hostFresh[p]
    /\ hostFresh' = [hostFresh EXCEPT ![p] = FALSE]
    /\ UNCHANGED <<net, phase, established, hostSeq, speaker, micSent>>

-----------------------------------------------------------------------------
(* Datagrams from the VM *)

\* Whatever it is and whoever it is for, a datagram counts as a sign of life.
Receive(p, m) ==
    /\ Running(p)
    /\ m \in net
    /\ m.to = AddrOf[p]
    /\ net' \in After(m)
    /\ hostFresh' = [hostFresh EXCEPT ![p] = TRUE]
    /\ UNCHANGED <<phase, micSent>>

\* `s == session`; the mutant takes every datagram for its own.
Anyones(p, m) == TRUE
Mine(p, m) == m.session = p

RecvSpeaker(p, m) ==
    /\ m.type = "Speaker"
    /\ Mine(p, m)
    /\ Receive(p, m)
    /\ speaker' = [speaker EXCEPT ![p] = Hears(@, m)]
    /\ UNCHANGED <<established, hostSeq>>

\* The mutant, for RecvAccept, plays on with the buffer of the last session.
RecvAcceptPlaysOn(p, m) ==
    /\ m.type = "HelloAck"
    /\ Mine(p, m)
    /\ m.status = "Ok"
    /\ ~established[p]
    /\ Receive(p, m)
    /\ established' = [established EXCEPT ![p] = TRUE]
    /\ hostSeq' = [hostSeq EXCEPT ![p] = 0]
    /\ UNCHANGED speaker

\* The ack that brings the bridge up.
RecvAccept(p, m) ==
    /\ m.type = "HelloAck"
    /\ Mine(p, m)
    /\ m.status = "Ok"
    /\ ~established[p]
    /\ Receive(p, m)
    /\ established' = [established EXCEPT ![p] = TRUE]
    /\ hostSeq' = [hostSeq EXCEPT ![p] = 0]
    /\ speaker' = [speaker EXCEPT ![p] = Deaf]

RecvReject(p, m) ==
    /\ m.type = "HelloAck"
    /\ Mine(p, m)
    /\ m.status # "Ok"
    /\ Receive(p, m)
    /\ established' = [established EXCEPT ![p] = FALSE]
    /\ UNCHANGED <<hostSeq, speaker>>

RecvVmBye(p, m) ==
    /\ m.type = "Bye"
    /\ Mine(p, m)
    /\ Receive(p, m)
    /\ established' = [established EXCEPT ![p] = FALSE]
    /\ speaker' = [speaker EXCEPT ![p] = Deaf]
    /\ UNCHANGED hostSeq

\* An answered ping, a repeated ack, or a datagram of another session.
RecvSignOfLife(p, m) ==
    /\ \/ ~Mine(p, m)
       \/ m.type = "Pong"
       \/ m.type = "HelloAck" /\ m.status = "Ok" /\ established[p]
    /\ Receive(p, m)
    /\ UNCHANGED <<established, hostSeq, speaker>>

-----------------------------------------------------------------------------
(* The end of the process *)

Gone(p) ==
    /\ Running(p)
    /\ phase' = [phase EXCEPT ![p] = "gone"]
    /\ established' = [established EXCEPT ![p] = FALSE]
    /\ hostFresh' = [hostFresh EXCEPT ![p] = TRUE]
    /\ hostSeq' = [hostSeq EXCEPT ![p] = 0]
    /\ speaker' = [speaker EXCEPT ![p] = Deaf]
    /\ UNCHANGED micSent

\* ctrl_c: say goodbye if there is a session to end.
HostStop(p) ==
    /\ Gone(p)
    /\ net' = IF established[p] THEN Posted(net, HostBye(p)) ELSE net

HostCrash(p) == Gone(p) /\ UNCHANGED net

HostStep(p) ==
    \/ HostStart(p) \/ HelloTick(p) \/ PingTick(p) \/ LinkLost(p)
    \/ SendMic(p) \/ SpeakerReopened(p) \/ HostQuiet(p)
    \/ HostStop(p) \/ HostCrash(p)

HostReceive(p, m) ==
    \/ RecvSpeaker(p, m) \/ RecvAccept(p, m) \/ RecvReject(p, m)
    \/ RecvVmBye(p, m) \/ RecvSignOfLife(p, m)
=============================================================================
