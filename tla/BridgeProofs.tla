---------------------------- MODULE BridgeProofs ----------------------------
(***************************************************************************)
(* Who is admitted, who owns the session and which audio threads run, for  *)
(* any number of hosts, addresses, formats and datagrams in flight.        *)
(***************************************************************************)
EXTENDS Bridge, SeqSpaceProofs, FiniteSetTheorems, TLAPS

-----------------------------------------------------------------------------
(* The network *)

\* Nothing appears on the wire but what was posted.
LEMMA PostedAdds ==
    ASSUME NEW base, NEW m
    PROVE  Posted(base, m) \subseteq base \cup {m}
  BY DEF Posted

\* Nor does handling a datagram add more than its answer.
LEMMA AnswerAdds ==
    ASSUME NEW m, NEW reply, Answer(m, reply)
    PROVE  net' \subseteq net \cup {reply}
  BY PostedAdds DEF Answer, After

Datagrams == ForVm \cup ForHosts

\* WireTypeOK, of any set of datagrams.
WireSound(wire) ==
    /\ wire \subseteq Datagrams
    /\ IsFiniteSet(wire)
    /\ Cardinality(wire) <= NetCap

\* Losing datagrams keeps the wire sound ...
LEMMA FewerSound ==
    ASSUME NEW wire, WireSound(wire), NEW fewer, fewer \subseteq wire
    PROVE  WireSound(fewer)
  <1>1. IsFiniteSet(fewer) /\ Cardinality(fewer) <= Cardinality(wire)
    BY FS_Subset DEF WireSound
  <1>2. Cardinality(fewer) \in Int /\ Cardinality(wire) \in Int /\ NetCap \in Int
    BY <1>1, FS_CardinalityType, WireAssumption DEF WireSound
  <1> QED
    BY <1>1, <1>2 DEF WireSound

\* ... and so does posting one, which respects the bound.
LEMMA PostedSound ==
    ASSUME NEW wire, WireSound(wire), NEW m \in Datagrams
    PROVE  WireSound(Posted(wire, m))
  <1>1. CASE m \in wire \/ ~(Cardinality(wire) < NetCap)
    <2>1. Posted(wire, m) = wire
      BY <1>1 DEF Posted
    <2> QED
      BY <2>1
  <1>2. CASE m \notin wire /\ Cardinality(wire) < NetCap
    <2>1. /\ IsFiniteSet(wire \cup {m})
          /\ Cardinality(wire \cup {m}) = Cardinality(wire) + 1
      BY <1>2, FS_AddElement DEF WireSound
    <2>2. Cardinality(wire) \in Int /\ NetCap \in Int
      BY FS_CardinalityType, WireAssumption DEF WireSound
    <2>3. Cardinality(wire \cup {m}) <= NetCap
      BY <1>2, <2>1, <2>2
    <2> QED
      BY <1>2, <2>1, <2>3 DEF WireSound, Posted
  <1> QED
    BY <1>1, <1>2

\* The same for a step that answers a datagram, ...
LEMMA AnswerSound ==
    ASSUME WireTypeOK, NEW m, NEW reply \in Datagrams, Answer(m, reply)
    PROVE  WireTypeOK'
  <1>1. WireSound(net)
    BY DEF WireTypeOK, WireSound, Datagrams
  <1>2. PICK rest \in After(m) : net' = Posted(rest, reply)
    BY DEF Answer
  <1>3. WireSound(rest)
    BY <1>1, <1>2, FewerSound DEF After
  <1>4. WireSound(net')
    BY <1>2, <1>3, PostedSound
  <1> QED
    BY <1>4 DEF WireTypeOK, WireSound, Datagrams

\* ... that posts one of its own accord, ...
LEMMA PostSound ==
    ASSUME WireTypeOK, NEW m \in Datagrams, net' = Posted(net, m)
    PROVE  WireTypeOK'
  <1>1. WireSound(net)
    BY DEF WireTypeOK, WireSound, Datagrams
  <1>2. WireSound(net')
    BY <1>1, PostedSound
  <1> QED
    BY <1>2 DEF WireTypeOK, WireSound, Datagrams

\* ... or that at most takes some off the wire.
LEMMA DropSound ==
    ASSUME WireTypeOK, net' \subseteq net
    PROVE  WireTypeOK'
  <1>1. WireSound(net)
    BY DEF WireTypeOK, WireSound, Datagrams
  <1>2. WireSound(net')
    BY <1>1, FewerSound
  <1> QED
    BY <1>2 DEF WireTypeOK, WireSound, Datagrams

\* The number after a sequence number is one.
LEMMA NextSeqType ==
    ASSUME NEW s \in SeqNumbers
    PROVE  SeqOf(s + 1) \in SeqNumbers
  <1>1. SeqNumbers \subseteq Int
    BY SeqSpaceAssumption DEF SeqNumbers, SeqMod
  <1> QED
    BY <1>1, SeqOfType

\* Whichever of the two ends an audio packet is for, the receiver stays typed.
LEMMA HearsType ==
    ASSUME NEW rx \in Receivers, NEW m \in Datagrams, m.type \in {"Mic", "Speaker"}
    PROVE  Hears(rx, m) \in Receivers
  <1>1. m.seq \in SeqNumbers /\ m.nth \in Nth
    BY DEF Datagrams, ForVm, ForHosts
  <1>2. SeqOf(m.seq + 1) \in SeqNumbers
    BY <1>1, NextSeqType
  <1> QED
    BY <1>1, <1>2 DEF Hears, Receivers

\* A buffer just reset is a receiver.
LEMMA DeafType == Deaf \in Receivers
  BY DEF Deaf, Receivers

\* Every sender starts at a sequence number.
LEMMA ZeroType == 0 \in SeqNumbers
  BY SeqSpaceAssumption DEF SeqNumbers, SeqMod

-----------------------------------------------------------------------------
(* TypeOK: the host *)

\* What a host sends is a datagram.
LEMMA HostDatagrams ==
    ASSUME NEW p \in Host
    PROVE  /\ Hello(p) \in Datagrams
           /\ Ping(p) \in Datagrams
           /\ HostBye(p) \in Datagrams
           /\ \A seq \in SeqNumbers, nth \in Nth : Mic(p, seq, nth) \in Datagrams
  BY DEF Datagrams, ForVm, Address, Hello, Ping, HostBye, FromHost, Mic

\* The timers, the audio threads and the end of a host keep the types.
LEMMA HostStepType ==
    ASSUME WireTypeOK, HostTypeOK, NEW p \in Host, HostStep(p)
    PROVE  WireTypeOK' /\ HostTypeOK'
  <1> USE DeafType, ZeroType DEF HostTypeOK
  <1>1. CASE HostStart(p)
    BY <1>1, DropSound DEF HostStart
  <1>2. CASE HelloTick(p)
    <2>1. WireTypeOK'
      BY <1>2, PostSound, HostDatagrams DEF HelloTick
    <2> QED
      BY <1>2, <2>1 DEF HelloTick, hostVars
  <1>3. CASE PingTick(p)
    <2>1. WireTypeOK'
      BY <1>3, PostSound, HostDatagrams DEF PingTick
    <2> QED
      BY <1>3, <2>1 DEF PingTick, hostVars
  <1>4. CASE LinkLost(p)
    BY <1>4, DropSound DEF LinkLost
  <1>5. CASE SendMic(p)
    <2>1. micSent[p] \in Nat /\ micSent[p] + 1 \in 0 .. MaxMic /\ micSent[p] + 1 \in Nth
      BY <1>5, HostAssumption DEF SendMic, Nth
    <2>2. WireTypeOK'
      BY <1>5, <2>1, PostSound, HostDatagrams DEF SendMic
    <2>3. SeqOf(hostSeq[p] + 1) \in SeqNumbers
      BY NextSeqType
    <2> QED
      BY <1>5, <2>1, <2>2, <2>3 DEF SendMic
  <1>6. CASE SpeakerReopened(p)
    BY <1>6, DropSound DEF SpeakerReopened
  <1>7. CASE HostQuiet(p)
    BY <1>7, DropSound DEF HostQuiet
  <1>8. CASE HostStop(p)
    <2>1. WireTypeOK'
      BY <1>8, PostSound, DropSound, HostDatagrams DEF HostStop
    <2> QED
      BY <1>8, <2>1 DEF HostStop, Gone
  <1>9. CASE HostCrash(p)
    BY <1>9, DropSound DEF HostCrash, Gone
  <1> QED
    BY <1>1, <1>2, <1>3, <1>4, <1>5, <1>6, <1>7, <1>8, <1>9 DEF HostStep

\* So does every datagram a host handles.
LEMMA HostReceiveType ==
    ASSUME WireTypeOK, HostTypeOK, NEW p \in Host, NEW m \in net, HostReceive(p, m)
    PROVE  WireTypeOK' /\ HostTypeOK'
  <1> USE DeafType, ZeroType DEF HostTypeOK, Receive
  <1>1. WireTypeOK'
    BY DropSound DEF HostReceive, RecvSpeaker, RecvAccept, RecvReject, RecvVmBye,
                     RecvSignOfLife, After
  <1>2. CASE RecvSpeaker(p, m)
    <2>1. Hears(speaker[p], m) \in Receivers
      BY <1>2, HearsType DEF RecvSpeaker, WireTypeOK, Datagrams
    <2> QED
      BY <1>1, <1>2, <2>1 DEF RecvSpeaker
  <1>3. CASE RecvAccept(p, m)
    BY <1>1, <1>3 DEF RecvAccept
  <1>4. CASE RecvReject(p, m)
    BY <1>1, <1>4 DEF RecvReject
  <1>5. CASE RecvVmBye(p, m)
    BY <1>1, <1>5 DEF RecvVmBye
  <1>6. CASE RecvSignOfLife(p, m)
    BY <1>1, <1>6 DEF RecvSignOfLife
  <1> QED
    BY <1>2, <1>3, <1>4, <1>5, <1>6 DEF HostReceive

-----------------------------------------------------------------------------
(* TypeOK: the VM agent *)

\* A session can give back two threads: the count never drops below zero.
ThreadsOwned == HasSession => threads.render >= 1 /\ threads.capture >= 1

VmInv == VmTypeOK /\ ThreadsOwned

\* What the VM agent sends is a datagram.
LEMMA VmDatagrams ==
    ASSUME NEW p \in Host, NEW addr \in Address
    PROVE  /\ Pong(p, addr) \in Datagrams
           /\ VmBye(p, addr) \in Datagrams
           /\ \A status \in Statuses : HelloAck(p, addr, status) \in Datagrams
           /\ \A seq \in SeqNumbers, nth \in Nth, f \in Formats :
                 Speaker(p, addr, seq, nth, f) \in Datagrams
  BY DEF Datagrams, ForHosts, Pong, VmBye, HelloAck, Speaker

\* A session that exists is typed ...
LEMMA SessionType ==
    ASSUME VmTypeOK, HasSession
    PROVE  session \in Sessions
  BY DEF VmTypeOK, HasSession

\* ... and anything typed like one exists.
LEMMA SomeSession == \A s \in Sessions : s # NoSession
  BY VmAssumption

\* What a shut-down leaves running is a count.
LEMMA ThreadsWithoutType ==
    ASSUME VmInv
    PROVE  /\ ThreadsWithout(session) \in [render : Nat, capture : Nat]
           /\ ThreadsWithout(session).render \in Nat
           /\ ThreadsWithout(session).capture \in Nat
  BY DEF VmInv, VmTypeOK, ThreadsOwned, HasSession, ThreadsWithout

\* What the loop reads comes from a host and is addressed to the VM.
LEMMA TakenType ==
    ASSUME WireTypeOK, NEW m \in net, Take(m)
    PROVE  m \in Datagrams /\ m.session \in Host /\ m.from \in Address
  <1>1. m \in ForVm
    BY WireAssumption DEF WireTypeOK, Take, ForHosts, Address
  <1> QED
    BY <1>1 DEF ForVm, Datagrams

\* The timers, the audio threads and the end of the VM agent keep the types.
LEMMA VmStepType ==
    ASSUME WireTypeOK, VmInv, VmStep
    PROVE  WireTypeOK' /\ VmInv'
  <1> USE DEF VmInv, VmTypeOK, ThreadsOwned, HasSession
  <1>1. CASE VmStart
    <2>1. lives' \in 0 .. MaxLives
      BY <1>1, VmAssumption DEF VmStart
    <2> QED
      BY <1>1, <2>1, DropSound DEF VmStart
  <1>2. CASE Capture
    <2>1. session.format \in Formats
      BY <1>2, SessionType DEF Capture, Sessions
    <2>2. captured' \in Seq(Formats) /\ Len(captured') <= CaptureQueue
      BY <1>2, <2>1, VmAssumption DEF Capture
    <2> QED
      BY <1>2, <2>2, DropSound DEF Capture
  <1>3. CASE SendSpeaker
    <2>1. session \in Sessions
      BY <1>3, SessionType DEF SendSpeaker
    <2>2. /\ Head(captured) \in Formats
          /\ captured' \in Seq(Formats)
          /\ Len(captured') <= CaptureQueue
      BY <1>3, VmAssumption DEF SendSpeaker
    <2>3. spkSent + 1 \in Nth /\ spkSent + 1 \in 0 .. MaxSpeaker
      BY <1>3, VmAssumption DEF SendSpeaker, Nth
    <2>4. SeqOf(session.seq + 1) \in SeqNumbers
      BY <2>1, NextSeqType DEF Sessions
    <2>5. session' \in Sessions
      BY <1>3, <2>1, <2>4 DEF SendSpeaker, Sessions
    <2>6. WireTypeOK'
      BY <1>3, <2>1, <2>2, <2>3, PostSound, VmDatagrams DEF SendSpeaker, Sessions
    <2> QED
      BY <1>3, <2>2, <2>3, <2>5, <2>6 DEF SendSpeaker
  <1>4. CASE DropSpeaker
    <2>1. captured' \in Seq(Formats) /\ Len(captured') <= CaptureQueue
      BY <1>4, VmAssumption DEF DropSpeaker
    <2> QED
      BY <1>4, <2>1, DropSound DEF DropSpeaker
  <1>5. CASE RenderReopened
    <2>1. session' \in Sessions
      BY <1>5, SessionType, DeafType DEF RenderReopened, Sessions
    <2> QED
      BY <1>5, <2>1, DropSound DEF RenderReopened
  <1>6. CASE VmQuiet
    <2>1. session' \in Sessions
      BY <1>6, SessionType DEF VmQuiet, Sessions
    <2> QED
      BY <1>6, <2>1, DropSound DEF VmQuiet
  <1>7. CASE Sweep
    BY <1>7, ThreadsWithoutType, DropSound DEF Sweep
  <1>8. CASE VmGone /\ WireTypeOK'
    <2>1. <<>> \in Seq(Formats) /\ Len(<<>>) <= CaptureQueue
      BY VmAssumption
    <2> QED
      BY <1>8, <2>1 DEF VmGone, NoThreads
  <1>9. CASE VmStop
    <2>1. WireTypeOK'
      BY <1>9, SessionType, PostSound, DropSound, VmDatagrams DEF VmStop, Sessions
    <2> QED
      BY <1>8, <1>9, <2>1 DEF VmStop
  <1>10. CASE VmCrash
    BY <1>8, <1>10, DropSound DEF VmCrash
  <1> QED
    BY <1>1, <1>2, <1>3, <1>4, <1>5, <1>6, <1>7, <1>9, <1>10 DEF VmStep

\* A session that was just opened is typed.
LEMMA OpenedType ==
    ASSUME WireTypeOK, NEW m \in net, OpenSession(m)
    PROVE  session' \in Sessions
  <1>1. m.session \in Host /\ m.from \in Address
    BY TakenType DEF OpenSession, MayOpen, IsHello
  <1> QED
    BY <1>1, DeafType, ZeroType DEF OpenSession, Sessions, Formats

\* So does every datagram the VM agent handles keep the types.
LEMMA VmReceiveType ==
    ASSUME WireTypeOK, VmInv, NEW m \in net, VmReceive(m)
    PROVE  WireTypeOK' /\ VmInv'
  <1> USE DEF VmInv, VmTypeOK, ThreadsOwned, HasSession
  <1>1. m \in Datagrams /\ m.session \in Host /\ m.from \in Address
    <2>1. Take(m)
      BY DEF VmReceive, HandleHello, RefuseToken, RefuseFormat, RefuseBusy, KeepSession,
             OpenSession, FailSession, MayOpen, IsHello, RecvMic, RecvPing, RecvHostBye,
             RecvForeign
    <2> QED
      BY <2>1, TakenType
  <1>2. ASSUME NEW status \in Statuses, Answer(m, HelloAck(m.session, m.from, status))
        PROVE  WireTypeOK'
    BY <1>1, <1>2, AnswerSound, VmDatagrams
  <1>3. CASE RefuseToken(m) \/ RefuseFormat(m) \/ RefuseBusy(m)
    BY <1>2, <1>3 DEF RefuseToken, RefuseFormat, RefuseBusy, Refuse, Statuses, vmVars
  <1>4. CASE KeepSession(m)
    <2>1. session' \in Sessions
      BY <1>4, SessionType DEF KeepSession, Unchanged, Sessions
    <2> QED
      BY <1>2, <1>4, <2>1 DEF KeepSession, Statuses, Unchanged
  <1>5. CASE OpenSession(m)
    <2>1. session' \in Sessions
      BY <1>5, OpenedType
    <2> QED
      BY <1>2, <1>5, <2>1, ThreadsWithoutType DEF OpenSession, Statuses
  <1>6. ASSUME NEW failing \in SpawnFails, FailSession(m, failing)
        PROVE  WireTypeOK' /\ VmInv'
    <2>1. threads' \in [render : Nat, capture : Nat]
      BY <1>6, ThreadsWithoutType DEF FailSession
    <2>2. WireTypeOK'
      BY <1>2, <1>6 DEF FailSession, Statuses
    <2> QED
      BY <1>6, <2>1, <2>2 DEF FailSession
  <1>7. CASE RecvMic(m)
    <2>1. session \in Sessions
      BY <1>7, SessionType DEF RecvMic, FromOwner
    <2>2. Hears(session.rx, m) \in Receivers
      BY <1>1, <1>7, <2>1, HearsType DEF RecvMic, Sessions
    <2>3. session' \in Sessions
      BY <1>7, <2>1, <2>2 DEF RecvMic, Sessions
    <2> QED
      BY <1>7, <2>3, DropSound DEF RecvMic, FromOwner, After
  <1>8. CASE RecvPing(m)
    <2>1. session' \in Sessions
      BY <1>8, SessionType DEF RecvPing, FromOwner, Sessions
    <2> QED
      BY <1>1, <1>8, <2>1, AnswerSound, VmDatagrams DEF RecvPing, FromOwner
  <1>9. CASE RecvHostBye(m)
    BY <1>9, ThreadsWithoutType, DropSound DEF RecvHostBye, After
  <1>10. CASE RecvForeign(m)
    BY <1>10, DropSound DEF RecvForeign, vmVars
  <1> QED
    BY <1>3, <1>4, <1>5, <1>6, <1>7, <1>8, <1>9, <1>10 DEF VmReceive, HandleHello

-----------------------------------------------------------------------------
(* TypeOK: the bridge *)

TypeInv == TypeOK /\ ThreadsOwned

\* Every step keeps the types and the ownership of threads, ...
LEMMA TypeInvStep ==
    ASSUME TypeInv, [Next]_vars
    PROVE  TypeInv'
  <1> USE DEF TypeInv, TypeOK, VmInv
  <1>1. ASSUME NEW p \in Host, HostStep(p), UNCHANGED vmVars
        PROVE  TypeInv'
    BY <1>1, HostStepType DEF vmVars, VmTypeOK, ThreadsOwned, HasSession
  <1>2. ASSUME NEW p \in Host, NEW m \in net, HostReceive(p, m), UNCHANGED vmVars
        PROVE  TypeInv'
    BY <1>2, HostReceiveType DEF vmVars, VmTypeOK, ThreadsOwned, HasSession
  <1>3. ASSUME VmStep, UNCHANGED hostVars
        PROVE  TypeInv'
    BY <1>3, VmStepType DEF hostVars, HostTypeOK
  <1>4. ASSUME NEW m \in net, VmReceive(m), UNCHANGED hostVars
        PROVE  TypeInv'
    BY <1>4, VmReceiveType DEF hostVars, HostTypeOK
  <1>5. CASE Lose /\ UNCHANGED <<hostVars, vmVars>>
    BY <1>5, DropSound DEF Lose, hostVars, vmVars, HostTypeOK, VmTypeOK, ThreadsOwned,
                           HasSession
  <1>6. CASE UNCHANGED vars
    BY <1>6 DEF vars, hostVars, vmVars, WireTypeOK, HostTypeOK, VmTypeOK, ThreadsOwned,
                HasSession
  <1> QED
    BY <1>1, <1>2, <1>3, <1>4, <1>5, <1>6 DEF Next

\* ... so the two are invariant.
LEMMA TypeInvInvariant == Spec => []TypeInv
  <1>1. Init => TypeInv
    <2> SUFFICES ASSUME Init
                 PROVE  TypeInv
      OBVIOUS
    <2>1. WireTypeOK
      BY FS_EmptySet, WireAssumption DEF Init, WireTypeOK
    <2>2. HostTypeOK
      BY DeafType, ZeroType, HostAssumption DEF Init, HostInit, HostTypeOK
    <2>3. VmTypeOK
      <3>1. <<>> \in Seq(Formats) /\ Len(<<>>) <= CaptureQueue
        BY VmAssumption
      <3>2. NoThreads \in [render : Nat, capture : Nat]
        BY DEF NoThreads
      <3>3. 0 \in 0 .. MaxSpeaker /\ 0 \in 0 .. MaxLives
        BY VmAssumption
      <3> QED
        BY <3>1, <3>2, <3>3 DEF Init, VmInit, VmTypeOK
    <2> QED
      BY <2>1, <2>2, <2>3 DEF TypeInv, TypeOK, ThreadsOwned, HasSession, Init, VmInit
  <1>2. TypeInv /\ [Next]_vars => TypeInv'
    BY TypeInvStep
  <1> QED
    BY <1>1, <1>2, PTL DEF Spec

\* Type correctness, for any number of hosts: among others that the capture
\* queue keeps its bound and that no audio thread is joined twice.
THEOREM TypeCorrect == Spec => []TypeOK
  BY TypeInvInvariant, PTL DEF TypeInv

-----------------------------------------------------------------------------
(* AdmittedOnly *)

Welcome(p) == p \in Trusted /\ FormatOf[p] \in Supported

AckSound(m) ==
    m.type = "HelloAck" /\ m.status = "Ok" => Welcome(m.session)

\* The strengthening: a positive ack in flight is for a welcome host, too.
AdmissionInv == AdmittedOnly /\ \A m \in net : AckSound(m)

\* Every step adds to the wire at most one sound datagram ...
Adds(m) == net' \subseteq net \cup {m} /\ AckSound(m)

\* ... which keeps the wire sound, ...
LEMMA AddingSound ==
    ASSUME \A m \in net : AckSound(m), NEW new, Adds(new)
    PROVE  \A m \in net' : AckSound(m)
  BY DEF Adds, AckSound

\* ... and only datagrams that are not acks come from a host.
LEMMA HostWire ==
    ASSUME NEW p \in Host, HostStep(p), \A m \in net : AckSound(m)
    PROVE  \A m \in net' : AckSound(m)
  <1>1. ASSUME NEW new, new.type # "HelloAck", net' \subseteq net \cup {new}
        PROVE  \A m \in net' : AckSound(m)
    BY <1>1, AddingSound DEF Adds, AckSound
  <1>2. CASE HelloTick(p)
    BY <1>1, <1>2, PostedAdds DEF HelloTick, Hello, FromHost
  <1>3. CASE PingTick(p)
    BY <1>1, <1>3, PostedAdds DEF PingTick, Ping, FromHost
  <1>4. CASE SendMic(p)
    BY <1>1, <1>4, PostedAdds DEF SendMic, Mic
  <1>5. CASE HostStop(p)
    BY <1>1, <1>5, PostedAdds DEF HostStop, HostBye, FromHost
  <1>6. CASE HostStart(p) \/ LinkLost(p) \/ SpeakerReopened(p) \/ HostQuiet(p)
             \/ HostCrash(p)
    BY <1>6 DEF HostStart, LinkLost, SpeakerReopened, HostQuiet, HostCrash
  <1> QED
    BY <1>2, <1>3, <1>4, <1>5, <1>6 DEF HostStep

\* The VM agent acknowledges only after the token and the formats checked out.
LEMMA VmWire ==
    ASSUME VmStep \/ (\E m \in net : VmReceive(m)), \A m \in net : AckSound(m)
    PROVE  \A m \in net' : AckSound(m)
  <1>1. CASE VmStep
    <2>1. ASSUME NEW new, new.type # "HelloAck", net' \subseteq net \cup {new}
          PROVE  \A m \in net' : AckSound(m)
      BY <2>1, AddingSound DEF Adds, AckSound
    <2>2. CASE SendSpeaker
      BY <2>1, <2>2, PostedAdds DEF SendSpeaker, Speaker
    <2>3. CASE VmStop
      BY <2>1, <2>3, PostedAdds DEF VmStop, VmBye
    <2>4. CASE VmStart \/ Capture \/ DropSpeaker \/ RenderReopened \/ VmQuiet
               \/ Sweep \/ VmCrash
      BY <2>4 DEF VmStart, Capture, DropSpeaker, RenderReopened, VmQuiet, Sweep, VmCrash
    <2> QED
      BY <1>1, <2>2, <2>3, <2>4 DEF VmStep
  <1>2. ASSUME NEW m \in net, VmReceive(m)
        PROVE  \A k \in net' : AckSound(k)
    <2>1. ASSUME NEW status \in Statuses, Answer(m, HelloAck(m.session, m.from, status)),
                 status = "Ok" => Welcome(m.session)
          PROVE  \A k \in net' : AckSound(k)
      <3>1. AckSound(HelloAck(m.session, m.from, status))
        BY <2>1 DEF AckSound, HelloAck
      <3> QED
        BY <2>1, <3>1, AnswerAdds, AddingSound DEF Adds
    <2>2. CASE RefuseToken(m) \/ RefuseFormat(m) \/ RefuseBusy(m)
      BY <2>1, <2>2 DEF RefuseToken, RefuseFormat, RefuseBusy, Refuse, Statuses
    <2>3. CASE KeepSession(m) \/ OpenSession(m)
      BY <2>1, <2>3 DEF KeepSession, OpenSession, MayOpen, Authentic, Understood,
                        Welcome, Statuses
    <2>4. ASSUME NEW failing \in SpawnFails, FailSession(m, failing)
          PROVE  \A k \in net' : AckSound(k)
      BY <2>1, <2>4 DEF FailSession, Statuses
    <2>5. CASE RecvPing(m)
      <3>1. AckSound(Pong(m.session, m.from))
        BY DEF AckSound, Pong
      <3> QED
        BY <2>5, <3>1, AnswerAdds, AddingSound DEF Adds, RecvPing
    <2>6. CASE RecvMic(m) \/ RecvHostBye(m) \/ RecvForeign(m)
      BY <2>6 DEF RecvMic, RecvHostBye, RecvForeign, After
    <2> QED
      BY <1>2, <2>2, <2>3, <2>4, <2>5, <2>6 DEF VmReceive, HandleHello
  <1> QED
    BY <1>1, <1>2

\* A host comes up only on a positive ack of its own.
LEMMA HostAdmission ==
    ASSUME AdmissionInv, HostTypeOK, NEW p \in Host,
           HostStep(p) \/ (\E m \in net : HostReceive(p, m))
    PROVE  AdmittedOnly'
  <1> SUFFICES ASSUME NEW q \in Host, established'[q]
               PROVE  Welcome(q)
    BY DEF AdmittedOnly, Welcome
  <1>1. CASE established[q]
    BY <1>1 DEF AdmissionInv, AdmittedOnly, Welcome
  <1>2. CASE ~established[q]
    <2>1. established \in [Host -> BOOLEAN]
      BY DEF HostTypeOK
    <2>2. CASE HostStep(p)
      <3>1. established' = established \/ established' = [established EXCEPT ![p] = FALSE]
        BY <2>2 DEF HostStep, HostStart, HelloTick, PingTick, LinkLost, SendMic,
                    SpeakerReopened, HostQuiet, HostStop, HostCrash, Gone, hostVars
      <3> QED
        BY <1>2, <2>1, <3>1
    <2>3. ASSUME NEW m \in net, HostReceive(p, m)
          PROVE  Welcome(q)
      <3>1. CASE RecvAccept(p, m)
        <4>1. q = p
          BY <1>2, <2>1, <3>1 DEF RecvAccept
        <4>2. Welcome(m.session) /\ m.session = p
          BY <3>1 DEF RecvAccept, Mine, AdmissionInv, AckSound
        <4> QED
          BY <4>1, <4>2
      <3>2. CASE RecvSpeaker(p, m) \/ RecvReject(p, m) \/ RecvVmBye(p, m)
                 \/ RecvSignOfLife(p, m)
        <4>1. established' = established \/ established' = [established EXCEPT ![p] = FALSE]
          BY <3>2 DEF RecvSpeaker, RecvReject, RecvVmBye, RecvSignOfLife
        <4> QED
          BY <1>2, <2>1, <4>1
      <3> QED
        BY <2>3, <3>1, <3>2 DEF HostReceive
    <2> QED
      BY <2>2, <2>3
  <1> QED
    BY <1>1, <1>2

\* Only a host with the token and a format the VM can handle ever considers the
\* bridge up, for any number of hosts, strangers and datagrams in flight.
THEOREM OnlyTheAdmitted == Spec => []AdmittedOnly
  <1>1. Init => AdmissionInv
    BY DEF Init, HostInit, AdmissionInv, AdmittedOnly
  <1>2. TypeInv /\ AdmissionInv /\ [Next]_vars => AdmissionInv'
    <2> SUFFICES ASSUME TypeInv, AdmissionInv, [Next]_vars
                 PROVE  AdmissionInv'
      OBVIOUS
    <2> USE DEF AdmissionInv, TypeInv, TypeOK
    <2>1. ASSUME NEW p \in Host, HostStep(p)
          PROVE  AdmissionInv'
      BY <2>1, HostAdmission, HostWire DEF AckSound, Welcome
    <2>2. ASSUME NEW p \in Host, NEW m \in net, HostReceive(p, m)
          PROVE  AdmissionInv'
      <3>1. net' \subseteq net
        BY <2>2 DEF HostReceive, RecvSpeaker, RecvAccept, RecvReject, RecvVmBye,
                    RecvSignOfLife, Receive, After
      <3> QED
        BY <2>2, <3>1, HostAdmission DEF AckSound, Welcome
    <2>3. ASSUME VmStep \/ (\E m \in net : VmReceive(m)), UNCHANGED hostVars
          PROVE  AdmissionInv'
      BY <2>3, VmWire DEF hostVars, AdmittedOnly, AckSound, Welcome
    <2>4. CASE Lose /\ UNCHANGED <<hostVars, vmVars>>
      BY <2>4 DEF Lose, hostVars, AdmittedOnly, AckSound, Welcome
    <2>5. CASE UNCHANGED vars
      BY <2>5 DEF vars, hostVars, AdmittedOnly, AckSound, Welcome
    <2> QED
      BY <2>1, <2>2, <2>3, <2>4, <2>5 DEF Next
  <1>3. AdmissionInv => AdmittedOnly
    BY DEF AdmissionInv
  <1> QED
    BY <1>1, <1>2, <1>3, TypeInvInvariant, PTL DEF Spec

-----------------------------------------------------------------------------
(* LiveSessionKept *)

\* What the session's own host may do to it.
EndsIt(m) ==
    /\ m.to = VmAddr
    /\ m.from = session.peer
    /\ m.type = "Hello" \/ (m.type = "Bye" /\ m.session = session.id)

\* The session of the current identifier goes on, whatever else changes in it.
Continues == session' \in Sessions /\ session'.id = session.id

\* The steps of timers and threads that only touch the session.
LEMMA TimersContinue ==
    ASSUME TypeInv, SendSpeaker \/ RenderReopened \/ VmQuiet
    PROVE  Continues
  <1>1. session \in Sessions
    BY SessionType DEF TypeInv, TypeOK, SendSpeaker, RenderReopened, VmQuiet
  <1> QED
    BY <1>1, DeafType, NextSeqType
    DEF SendSpeaker, RenderReopened, VmQuiet, Continues, Sessions

\* The datagrams that only touch the session.
LEMMA DatagramsContinue ==
    ASSUME TypeInv, NEW m \in net, KeepSession(m) \/ RecvMic(m) \/ RecvPing(m)
    PROVE  Continues
  <1>1. session \in Sessions
    BY SessionType DEF TypeInv, TypeOK, KeepSession, Unchanged, RecvMic, RecvPing, FromOwner
  <1>2. m \in Datagrams
    BY DEF TypeInv, TypeOK, WireTypeOK, Datagrams
  <1>3. RecvMic(m) => Hears(session.rx, m) \in Receivers
    BY <1>1, <1>2, HearsType DEF RecvMic, Sessions
  <1> QED
    BY <1>1, <1>3 DEF KeepSession, RecvMic, RecvPing, Continues, Sessions

\* No timer and no audio thread ends a fresh session while the agent lives.
LEMMA TimersKeepSession ==
    ASSUME TypeInv, HasSession, session.fresh, vmUp', VmStep
    PROVE  Continues
  <1>1. CASE VmStart \/ Capture \/ DropSpeaker
    BY <1>1, SessionType DEF TypeInv, TypeOK, Continues, VmStart, Capture, DropSpeaker
  <1>2. CASE SendSpeaker \/ RenderReopened \/ VmQuiet
    BY <1>2, TimersContinue
  <1>3. CASE Sweep \/ VmStop \/ VmCrash
    BY <1>3 DEF Sweep, VmStop, VmCrash, VmGone
  <1> QED
    BY <1>1, <1>2, <1>3 DEF VmStep

\* A datagram ends or replaces a fresh session only in its own host's name.
LEMMA DatagramsKeepSession ==
    ASSUME TypeInv, HasSession, session.fresh, NEW m \in net, VmReceive(m)
    PROVE  Continues \/ EndsIt(m)
  <1>1. CASE RefuseToken(m) \/ RefuseFormat(m) \/ RefuseBusy(m) \/ RecvForeign(m)
    BY <1>1, SessionType DEF TypeInv, TypeOK, Continues, RefuseToken, RefuseFormat,
                             RefuseBusy, Refuse, RecvForeign, vmVars
  <1>2. CASE KeepSession(m) \/ RecvMic(m) \/ RecvPing(m)
    BY <1>2, DatagramsContinue
  <1>3. CASE MayOpen(m)
    BY <1>3 DEF MayOpen, IsHello, Take, OwnedByAnother, EndsIt
  <1>4. CASE RecvHostBye(m)
    BY <1>4 DEF RecvHostBye, FromOwner, Take, EndsIt
  <1> QED
    BY <1>1, <1>2, <1>3, <1>4 DEF VmReceive, HandleHello, OpenSession, FailSession

\* "A live session belongs to its host until it times out", whatever any number
\* of other hosts and stray datagrams do.
THEOREM SessionsAreKept == Spec => LiveSessionKept
  <1>1. TypeInv /\ [Next]_vars =>
          [HasSession /\ session.fresh /\ vmUp'
           /\ (session' = NoSession \/ session'.id # session.id)
           => \E m \in net :
                 /\ m.to = VmAddr
                 /\ m.from = session.peer
                 /\ \/ m.type = "Hello"
                    \/ m.type = "Bye" /\ m.session = session.id]_vars
    <2> SUFFICES ASSUME TypeInv, Next, HasSession, session.fresh, vmUp', ~Continues
                 PROVE  \E m \in net : EndsIt(m)
      BY SomeSession, SessionType DEF EndsIt, Continues, TypeInv, TypeOK, vars, vmVars
    <2>1. CASE UNCHANGED vmVars
      BY <2>1, SessionType DEF Continues, TypeInv, TypeOK, vmVars
    <2>2. CASE VmStep
      BY <2>2, TimersKeepSession
    <2>3. CASE \E m \in net : VmReceive(m)
      BY <2>3, DatagramsKeepSession
    <2> QED
      BY <2>1, <2>2, <2>3 DEF Next
  <1> QED
    BY <1>1, TypeInvInvariant, PTL DEF Spec, LiveSessionKept

-----------------------------------------------------------------------------
(* ThreadsMatchSession *)

\* If a capture thread always starts, no audio thread is ever left behind and
\* none runs twice, however sessions replace one another.
THEOREM NoThreadLeaks ==
    ASSUME "capture" \notin SpawnFails
    PROVE  Spec => []ThreadsMatchSession
  <1> USE DEF ThreadsMatchSession, HasSession, NoThreads
  <1>1. Init => ThreadsMatchSession
    BY DEF Init, VmInit
  <1>2. TypeInv /\ ThreadsMatchSession /\ [Next]_vars => ThreadsMatchSession'
    <2> SUFFICES ASSUME TypeInv, ThreadsMatchSession, [Next]_vars
                 PROVE  ThreadsMatchSession'
      OBVIOUS
    <2>1. ThreadsWithout(session) = NoThreads
      BY DEF ThreadsWithout
    <2>2. Continues /\ HasSession /\ UNCHANGED threads => ThreadsMatchSession'
      BY SomeSession DEF Continues
    <2>3. CASE UNCHANGED vmVars
      BY <2>3 DEF vmVars
    <2>4. CASE VmStep
      <3>1. CASE VmStart \/ Capture \/ DropSpeaker
        BY <3>1 DEF VmStart, Capture, DropSpeaker
      <3>2. CASE SendSpeaker \/ RenderReopened \/ VmQuiet
        BY <2>2, <3>2, TimersContinue DEF SendSpeaker, RenderReopened, VmQuiet
      <3>3. CASE Sweep
        BY <2>1, <3>3 DEF Sweep
      <3>4. CASE VmStop \/ VmCrash
        BY <3>4 DEF VmStop, VmCrash, VmGone
      <3> QED
        BY <2>4, <3>1, <3>2, <3>3, <3>4 DEF VmStep
    <2>5. ASSUME NEW m \in net, VmReceive(m)
          PROVE  ThreadsMatchSession'
      <3>1. CASE RefuseToken(m) \/ RefuseFormat(m) \/ RefuseBusy(m) \/ RecvForeign(m)
        BY <3>1 DEF RefuseToken, RefuseFormat, RefuseBusy, Refuse, RecvForeign, vmVars
      <3>2. CASE KeepSession(m) \/ RecvMic(m) \/ RecvPing(m)
        BY <2>2, <3>2, DatagramsContinue
        DEF KeepSession, Unchanged, RecvMic, RecvPing, FromOwner
      <3>3. CASE OpenSession(m)
        <4>1. session' \in Sessions
          BY <3>3, OpenedType DEF TypeInv, TypeOK
        <4>2. ThreadsWithout(session).render = 0 /\ ThreadsWithout(session).capture = 0
          BY <2>1
        <4>3. threads' = [render |-> 1, capture |-> 1]
          BY <3>3, <4>2 DEF OpenSession
        <4> QED
          BY <4>1, <4>3, SomeSession
      <3>4. ASSUME NEW failing \in SpawnFails, FailSession(m, failing)
            PROVE  ThreadsMatchSession'
        BY <2>1, <3>4, VmAssumption DEF FailSession
      <3>5. CASE RecvHostBye(m)
        BY <2>1, <3>5 DEF RecvHostBye
      <3> QED
        BY <2>5, <3>1, <3>2, <3>3, <3>4, <3>5 DEF VmReceive, HandleHello
    <2>6. CASE UNCHANGED vars
      BY <2>6 DEF vars, vmVars
    <2> QED
      BY <2>3, <2>4, <2>5, <2>6 DEF Next
  <1> QED
    BY <1>1, <1>2, TypeInvInvariant, PTL DEF Spec

-----------------------------------------------------------------------------
(* SessionIsLease: the inductive invariant *)

\* A session belongs to a guest, at that guest's address.
Owned ==
    HasSession =>
        /\ vmUp
        /\ session.id \in Guests
        /\ session.peer = AddrOf[session.id]
        /\ session.format = FormatOf[session.id]

\* A datagram for the VM comes from the address of the process it names, and a
\* process says goodbye only when it ends.
Authored(m) ==
    m.to = VmAddr =>
        /\ m.from = AddrOf[m.session]
        /\ m.type = "Bye" => m.session \in Ended

LeaseInv == Owned /\ \A m \in net : Authored(m)

\* What the lease sees of the state.
Same == Holder' = Holder /\ Live' = Live /\ vmUp' = vmUp

\* Nobody is no host, and a session has a holder.
LEMMA HolderIsSomeone ==
    ASSUME TypeInv, HasSession
    PROVE  Holder = session.id /\ Holder \in Host /\ Holder # NoSession
  <1>1. session \in Sessions
    BY SessionType DEF TypeInv, TypeOK
  <1> QED
    BY <1>1, VmAssumption DEF Holder, Sessions

\* What a step that goes on with the session shows.
LEMMA HolderContinues ==
    ASSUME TypeInv, HasSession, Continues
    PROVE  HasSession' /\ Holder' = Holder /\ Live' = session'.fresh
  BY SomeSession DEF Continues, Holder, Live, HasSession

-----------------------------------------------------------------------------
(* SessionIsLease: the hosts *)

\* All that the lease sees of a host is that it ends.
LEMMA HostPhase ==
    ASSUME TypeInv, NEW p \in Host, HostStep(p)
    PROVE  \/ Ended' = Ended
           \/ p \notin Ended /\ Ended' = Ended \cup {p}
  <1>1. phase \in [Host -> {"off", "running", "gone"}]
    BY DEF TypeInv, TypeOK, HostTypeOK
  <1>2. CASE HostStart(p)
    BY <1>1, <1>2 DEF HostStart, Ended
  <1>3. CASE HostStop(p) \/ HostCrash(p)
    BY <1>1, <1>3 DEF HostStop, HostCrash, Gone, Running, Ended
  <1>4. CASE HelloTick(p) \/ PingTick(p) \/ LinkLost(p) \/ SendMic(p)
             \/ SpeakerReopened(p) \/ HostQuiet(p)
    BY <1>4 DEF HelloTick, PingTick, LinkLost, SendMic, SpeakerReopened, HostQuiet,
                hostVars, Ended
  <1> QED
    BY <1>2, <1>3, <1>4 DEF HostStep

\* A host signs what it sends.
LEMMA HostSigns ==
    ASSUME TypeInv, NEW p \in Host, HostStep(p), \A m \in net : Authored(m)
    PROVE  \A m \in net' : Authored(m)'
  <1>1. Ended \subseteq Ended'
    BY HostPhase
  <1>2. ASSUME NEW new, net' \subseteq net \cup {new}, Authored(new)'
        PROVE  \A m \in net' : Authored(m)'
    BY <1>1, <1>2 DEF Authored
  <1>3. CASE HelloTick(p)
    BY <1>2, <1>3, PostedAdds DEF HelloTick, Hello, FromHost, Authored
  <1>4. CASE PingTick(p)
    BY <1>2, <1>4, PostedAdds DEF PingTick, Ping, FromHost, Authored
  <1>5. CASE SendMic(p)
    BY <1>2, <1>5, PostedAdds DEF SendMic, Mic, Authored
  <1>6. CASE HostStop(p)
    <2>1. p \in Ended'
      BY <1>6 DEF HostStop, Gone, Ended, TypeInv, TypeOK, HostTypeOK
    <2> QED
      BY <1>2, <1>6, <2>1, PostedAdds DEF HostStop, HostBye, FromHost, Authored
  <1>7. CASE HostStart(p) \/ LinkLost(p) \/ SpeakerReopened(p) \/ HostQuiet(p)
             \/ HostCrash(p)
    BY <1>1, <1>7 DEF HostStart, LinkLost, SpeakerReopened, HostQuiet, HostCrash, Authored
  <1> QED
    BY <1>3, <1>4, <1>5, <1>6, <1>7 DEF HostStep

-----------------------------------------------------------------------------
(* SessionIsLease: the VM agent *)

\* What the VM sends is for a host.
LEMMA VmSigns ==
    ASSUME TypeInv, VmStep \/ (\E m \in net : VmReceive(m)), UNCHANGED hostVars,
           \A m \in net : Authored(m)
    PROVE  \A m \in net' : Authored(m)'
  <1>1. Ended' = Ended
    BY DEF hostVars, Ended
  <1>2. ASSUME NEW new, net' \subseteq net \cup {new}, new.to \in Address
        PROVE  \A m \in net' : Authored(m)'
    BY <1>1, <1>2, WireAssumption DEF Authored, Address
  <1>3. ASSUME net' \subseteq net
        PROVE  \A m \in net' : Authored(m)'
    BY <1>1, <1>3 DEF Authored
  <1>4. CASE VmStep
    <2>1. HasSession => session.peer \in Address
      BY SessionType DEF TypeInv, TypeOK, Sessions
    <2>2. CASE SendSpeaker
      BY <1>2, <2>1, <2>2, PostedAdds DEF SendSpeaker, Speaker
    <2>3. CASE VmStop
      BY <1>2, <1>3, <2>1, <2>3, PostedAdds DEF VmStop, VmBye
    <2>4. CASE VmStart \/ Capture \/ DropSpeaker \/ RenderReopened \/ VmQuiet
               \/ Sweep \/ VmCrash
      BY <1>3, <2>4
      DEF VmStart, Capture, DropSpeaker, RenderReopened, VmQuiet, Sweep, VmCrash
    <2> QED
      BY <1>4, <2>2, <2>3, <2>4 DEF VmStep
  <1>5. ASSUME NEW m \in net, VmReceive(m)
        PROVE  \A k \in net' : Authored(k)'
    <2>1. m.from \in Address
      BY <1>5, TakenType
      DEF TypeInv, TypeOK, VmReceive, HandleHello, RefuseToken, RefuseFormat, RefuseBusy,
          KeepSession, OpenSession, FailSession, MayOpen, IsHello, RecvMic, RecvPing,
          RecvHostBye, RecvForeign, Take
    <2>2. ASSUME NEW status, Answer(m, HelloAck(m.session, m.from, status))
          PROVE  \A k \in net' : Authored(k)'
      BY <1>2, <2>1, <2>2, AnswerAdds DEF HelloAck
    <2>3. CASE HandleHello(m)
      BY <2>2, <2>3
      DEF HandleHello, RefuseToken, RefuseFormat, RefuseBusy, Refuse, KeepSession,
          OpenSession, FailSession
    <2>4. CASE RecvPing(m)
      BY <1>2, <2>1, <2>4, AnswerAdds DEF RecvPing, Pong
    <2>5. CASE RecvMic(m) \/ RecvHostBye(m) \/ RecvForeign(m)
      BY <1>3, <2>5 DEF RecvMic, RecvHostBye, RecvForeign, After
    <2> QED
      BY <1>5, <2>3, <2>4, <2>5 DEF VmReceive
  <1> QED
    BY <1>4, <1>5

\* The session stays a guest's, at its address.
LEMMA VmOwns ==
    ASSUME TypeInv, LeaseInv, VmStep \/ (\E m \in net : VmReceive(m))
    PROVE  Owned'
  <1>1. CASE UNCHANGED <<vmUp, session>>
    BY <1>1 DEF Owned, HasSession, LeaseInv
  <1>2. CASE HasSession /\ Continues /\ session'.peer = session.peer
             /\ session'.format = session.format /\ vmUp' = vmUp
    BY <1>2 DEF Owned, HasSession, LeaseInv, Continues
  <1>3. CASE session' = NoSession
    BY <1>3 DEF Owned, HasSession
  <1>4. CASE VmStep
    <2>1. CASE VmStart
      <3>1. ~HasSession
        BY <2>1 DEF VmStart, LeaseInv, Owned
      <3> QED
        BY <2>1, <3>1 DEF VmStart, Owned, HasSession
    <2>2. CASE Capture \/ DropSpeaker
      BY <1>1, <2>2 DEF Capture, DropSpeaker
    <2>3. CASE SendSpeaker \/ RenderReopened \/ VmQuiet
      <3>1. session \in Sessions /\ HasSession
        BY <2>3, SessionType DEF SendSpeaker, RenderReopened, VmQuiet, TypeInv, TypeOK
      <3> QED
        BY <1>2, <2>3, <3>1, TimersContinue
        DEF SendSpeaker, RenderReopened, VmQuiet, Sessions
    <2>4. CASE Sweep \/ VmStop \/ VmCrash
      BY <1>3, <2>4 DEF Sweep, VmStop, VmCrash, VmGone
    <2> QED
      BY <1>4, <2>1, <2>2, <2>3, <2>4 DEF VmStep
  <1>5. ASSUME NEW m \in net, VmReceive(m)
        PROVE  Owned'
    <2>1. CASE RefuseToken(m) \/ RefuseFormat(m) \/ RefuseBusy(m) \/ RecvForeign(m)
      BY <1>1, <2>1 DEF RefuseToken, RefuseFormat, RefuseBusy, Refuse, RecvForeign, vmVars
    <2>2. CASE KeepSession(m) \/ RecvMic(m) \/ RecvPing(m)
      <3>1. session \in Sessions /\ HasSession
        BY <2>2, SessionType DEF KeepSession, Unchanged, RecvMic, RecvPing, FromOwner,
                                 TypeInv, TypeOK
      <3> QED
        BY <1>2, <2>2, <3>1, DatagramsContinue DEF KeepSession, RecvMic, RecvPing, Sessions
    <2>3. CASE OpenSession(m)
      BY <2>3 DEF OpenSession, MayOpen, IsHello, Take, Authentic, Understood, Guests,
                  LeaseInv, Authored, Owned
    <2>4. CASE RecvHostBye(m) \/ (\E failing \in SpawnFails : FailSession(m, failing))
      BY <1>3, <2>4 DEF RecvHostBye, FailSession
    <2> QED
      BY <1>5, <2>1, <2>2, <2>3, <2>4 DEF VmReceive, HandleHello
  <1> QED
    BY <1>4, <1>5

\* The invariant holds throughout.
LEMMA LeaseInvInvariant == Spec => []LeaseInv
  <1>1. Init => LeaseInv
    BY DEF Init, VmInit, LeaseInv, Owned, HasSession
  <1>2. TypeInv /\ LeaseInv /\ [Next]_vars => LeaseInv'
    <2> SUFFICES ASSUME TypeInv, LeaseInv, [Next]_vars
                 PROVE  LeaseInv'
      OBVIOUS
    <2>1. UNCHANGED vmVars => Owned'
      BY DEF vmVars, LeaseInv, Owned, HasSession
    <2>2. ASSUME NEW p \in Host, HostStep(p), UNCHANGED vmVars
          PROVE  LeaseInv'
      BY <2>1, <2>2, HostSigns DEF LeaseInv
    <2>3. ASSUME NEW p \in Host, NEW m \in net, HostReceive(p, m), UNCHANGED vmVars
          PROVE  LeaseInv'
      <3>1. net' \subseteq net /\ Ended' = Ended
        BY <2>3 DEF HostReceive, RecvSpeaker, RecvAccept, RecvReject, RecvVmBye,
                    RecvSignOfLife, Receive, After, Ended
      <3> QED
        BY <2>1, <2>3, <3>1 DEF LeaseInv, Authored
    <2>4. ASSUME VmStep \/ (\E m \in net : VmReceive(m)), UNCHANGED hostVars
          PROVE  LeaseInv'
      BY <2>4, VmOwns, VmSigns DEF LeaseInv
    <2>5. CASE Lose /\ UNCHANGED <<hostVars, vmVars>>
      BY <2>1, <2>5 DEF Lose, LeaseInv, Authored, Ended, hostVars
    <2>6. CASE UNCHANGED vars
      BY <2>1, <2>6 DEF vars, LeaseInv, Authored, Ended, hostVars
    <2> QED
      BY <2>2, <2>3, <2>4, <2>5, <2>6 DEF Next
  <1> QED
    BY <1>1, <1>2, TypeInvInvariant, PTL DEF Spec

-----------------------------------------------------------------------------
(* SessionIsLease: the refinement *)

\* The timers, the audio threads and the end of the VM agent are steps of the
\* lease, or change nothing it sees.
LEMMA VmStepLeases ==
    ASSUME TypeInv, LeaseInv, VmStep, Ended' = Ended
    PROVE  Leased!Next \/ Same
  <1>1. CASE VmStart
    BY <1>1 DEF VmStart, Holder, Live, HasSession, Leased!Next, Leased!Start
  <1>2. CASE Capture \/ DropSpeaker
    BY <1>2 DEF Capture, DropSpeaker, Same, Holder, Live, HasSession
  <1>3. CASE SendSpeaker \/ RenderReopened
    <2>1. session \in Sessions /\ HasSession
      BY <1>3, SessionType DEF SendSpeaker, RenderReopened, TypeInv, TypeOK
    <2>2. session'.fresh = session.fresh /\ vmUp' = vmUp
      BY <1>3, <2>1 DEF SendSpeaker, RenderReopened, Sessions
    <2> QED
      BY <1>3, <2>1, <2>2, TimersContinue, HolderContinues DEF Same, Live
  <1>4. CASE VmQuiet
    <2>1. session \in Sessions /\ HasSession
      BY <1>4, SessionType DEF VmQuiet, TypeInv, TypeOK
    <2>2. session'.fresh = FALSE /\ vmUp' = vmUp
      BY <1>4, <2>1 DEF VmQuiet, Sessions
    <2>3. Leased!Lapse
      BY <1>4, <2>1, <2>2, TimersContinue, HolderContinues, HolderIsSomeone
      DEF Leased!Lapse
    <2> QED
      BY <2>3 DEF Leased!Next
  <1>5. CASE Sweep
    <2>1. HasSession /\ ~Live /\ Holder # NoSession /\ vmUp
      BY <1>5, HolderIsSomeone DEF Sweep, Live, LeaseInv, Owned
    <2>2. Holder' = NoSession /\ Live' = FALSE /\ vmUp' = vmUp
      BY <1>5 DEF Sweep, Holder, Live, HasSession
    <2> QED
      BY <2>1, <2>2 DEF Leased!Next, Leased!GiveUp, Leased!Vacant
  <1>6. CASE VmStop \/ VmCrash
    BY <1>6 DEF VmStop, VmCrash, VmGone, Holder, Live, HasSession,
                Leased!Next, Leased!Stop, Leased!Vacant
  <1> QED
    BY <1>1, <1>2, <1>3, <1>4, <1>5, <1>6 DEF VmStep

\* So is every datagram it handles.
LEMMA VmReceiveLeases ==
    ASSUME TypeInv, LeaseInv, NEW m \in net, VmReceive(m), Ended' = Ended
    PROVE  Leased!Next \/ Same
  <1>1. CASE RefuseToken(m) \/ RefuseFormat(m) \/ RefuseBusy(m) \/ RecvForeign(m)
    BY <1>1 DEF RefuseToken, RefuseFormat, RefuseBusy, Refuse, RecvForeign, vmVars,
                Same, Holder, Live, HasSession
  <1>2. CASE KeepSession(m) \/ RecvMic(m) \/ RecvPing(m)
    <2>1. session \in Sessions /\ HasSession
      BY <1>2, SessionType DEF KeepSession, Unchanged, RecvMic, RecvPing, FromOwner,
                               TypeInv, TypeOK
    <2>2. session'.fresh = TRUE /\ vmUp' = vmUp
      BY <1>2, <2>1 DEF KeepSession, RecvMic, RecvPing, Sessions
    <2>3. vmUp
      BY <2>1 DEF LeaseInv, Owned
    <2>4. Leased!Renew
      BY <1>2, <2>1, <2>2, <2>3, DatagramsContinue, HolderContinues, HolderIsSomeone
      DEF Leased!Renew
    <2> QED
      BY <2>4 DEF Leased!Next
  <1>3. MayOpen(m) => Leased!MayTake(m.session) /\ m.session \in Host /\ vmUp
    <2> SUFFICES ASSUME MayOpen(m)
                 PROVE  Leased!MayTake(m.session) /\ m.session \in Host /\ vmUp
      OBVIOUS
    <2>1. m.session \in Host /\ vmUp /\ m.from = AddrOf[m.session]
      BY TakenType DEF MayOpen, IsHello, Take, TypeInv, TypeOK, LeaseInv, Authored
    <2>2. m.session \in Guests
      BY DEF MayOpen, Authentic, Understood, Guests
    <2>3. ~HasSession => Holder = NoSession
      BY DEF Holder
    <2>4. HasSession => Live = session.fresh /\ AddrOf[Holder] = session.peer
      BY DEF Holder, Live, LeaseInv, Owned
    <2> QED
      BY <2>1, <2>2, <2>3, <2>4 DEF MayOpen, OwnedByAnother, Leased!MayTake
  <1>4. CASE OpenSession(m)
    <2>1. session' \in Sessions
      BY <1>4, OpenedType DEF TypeInv, TypeOK
    <2>2. Holder' = m.session /\ Live' = TRUE /\ vmUp' = vmUp
      BY <1>4, <2>1, SomeSession DEF OpenSession, Holder, Live, HasSession
    <2> QED
      BY <1>3, <1>4, <2>2 DEF OpenSession, Leased!Next, Leased!Grant
  <1>5. ASSUME NEW failing \in SpawnFails, FailSession(m, failing)
        PROVE  Leased!Next \/ Same
    <2>1. Holder' = NoSession /\ Live' = FALSE /\ vmUp' = vmUp
      BY <1>5 DEF FailSession, Holder, Live, HasSession
    <2>2. CASE ~HasSession
      BY <2>1, <2>2 DEF Same, Holder, Live
    <2>3. CASE HasSession
      <3>1. Holder = session.id /\ Holder # NoSession
        BY <2>3, HolderIsSomeone
      <3>2. CASE ~Live
        BY <1>3, <1>5, <2>1, <3>1, <3>2
        DEF FailSession, Leased!Next, Leased!GiveUp, Leased!Vacant
      <3>3. CASE Live
        <4>1. m.from = session.peer
          BY <1>5, <2>3, <3>3 DEF FailSession, MayOpen, OwnedByAnother, Live
        <4>2. m.session # Holder
          BY <1>5, <2>3, <3>1, <4>1 DEF FailSession, Unchanged, LeaseInv, Owned
        <4>3. Leased!MayTake(m.session) /\ m.session \in Host /\ vmUp
          BY <1>3, <1>5 DEF FailSession
        <4> QED
          BY <1>5, <2>1, <3>1, <4>2, <4>3 DEF Leased!Next, Leased!GiveUp, Leased!Vacant
      <3> QED
        BY <3>2, <3>3 DEF Live, TypeInv, TypeOK, VmTypeOK, Sessions
    <2> QED
      BY <2>2, <2>3
  <1>6. CASE RecvHostBye(m)
    <2>1. HasSession /\ m.session = session.id /\ m.session \in Ended
      BY <1>6 DEF RecvHostBye, Take, FromOwner, LeaseInv, Authored
    <2>2. Holder' = NoSession /\ Live' = FALSE /\ vmUp' = vmUp
      BY <1>6 DEF RecvHostBye, Holder, Live, HasSession
    <2>3. Holder \in Ended /\ Holder # NoSession /\ vmUp
      BY <2>1, HolderIsSomeone DEF LeaseInv, Owned
    <2> QED
      BY <2>2, <2>3 DEF Leased!Next, Leased!GiveUp, Leased!Vacant
  <1> QED
    BY <1>1, <1>2, <1>4, <1>5, <1>6 DEF VmReceive, HandleHello

\* The session of the VM agent is a lease: a process takes it only with the
\* VM's token, in a format the VM can handle, and only when it is free, when it
\* lapsed, or from its own address; a live one is given back only when its
\* holder has ended or an audio thread failed to start for its successor.
THEOREM SessionsAreLeases == Spec => SessionIsLease
  <1>1. Init => Leased!Init
    BY DEF Init, HostInit, VmInit, Holder, Live, Ended, HasSession, Leased!Init
  <1>2. TypeInv /\ LeaseInv /\ [Next]_vars => [Leased!Next]_(Leased!vars)
    <2> SUFFICES ASSUME TypeInv, LeaseInv, [Next]_vars
                 PROVE  [Leased!Next]_(Leased!vars)
      OBVIOUS
    <2>1. UNCHANGED vmVars => Same
      BY DEF vmVars, Same, Holder, Live, HasSession
    <2>2. UNCHANGED hostVars => Ended' = Ended
      BY DEF hostVars, Ended
    <2>3. Same /\ Ended' = Ended => UNCHANGED Leased!vars
      BY DEF Same, Leased!vars
    <2>4. ASSUME NEW p \in Host, HostStep(p), UNCHANGED vmVars
          PROVE  [Leased!Next]_(Leased!vars)
      <3>1. CASE p \notin Ended /\ Ended' = Ended \cup {p}
        BY <2>1, <2>4, <3>1 DEF Same, Leased!Next, Leased!Leave
      <3> QED
        BY <2>1, <2>3, <2>4, <3>1, HostPhase
    <2>5. ASSUME NEW p \in Host, NEW m \in net, HostReceive(p, m), UNCHANGED vmVars
          PROVE  [Leased!Next]_(Leased!vars)
      <3>1. Ended' = Ended
        BY <2>5 DEF HostReceive, RecvSpeaker, RecvAccept, RecvReject, RecvVmBye,
                    RecvSignOfLife, Receive, Ended
      <3> QED
        BY <2>1, <2>3, <2>5, <3>1
    <2>6. ASSUME VmStep \/ (\E m \in net : VmReceive(m)), UNCHANGED hostVars
          PROVE  [Leased!Next]_(Leased!vars)
      BY <2>2, <2>3, <2>6, VmStepLeases, VmReceiveLeases
    <2>7. CASE UNCHANGED <<hostVars, vmVars>>
      BY <2>1, <2>2, <2>3, <2>7
    <2> QED
      BY <2>4, <2>5, <2>6, <2>7 DEF Next, vars
  <1> QED
    BY <1>1, <1>2, TypeInvInvariant, LeaseInvInvariant, PTL
    DEF Spec, SessionIsLease, Leased!Spec
=============================================================================
