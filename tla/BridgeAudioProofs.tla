------------------------- MODULE BridgeAudioProofs --------------------------
(***************************************************************************)
(* The two audio streams of the bridge, for any number of hosts, however   *)
(* the network repeats and reorders their packets.                         *)
(***************************************************************************)
EXTENDS BridgeAudio, BridgeProofs

-----------------------------------------------------------------------------
(* OnceBetweenResets *)

\* The packets of a stream that are in flight, `sent` having been sent so far: a
\* packet has one number, however often it is repeated, and no packet has a
\* higher number than the count of those before it, since a sender that starts
\* over starts at 0.
Numbered(stream, sent) ==
    /\ \A m \in stream : m.seq \in Nat /\ m.nth \in Nat /\ m.seq < m.nth /\ m.nth <= sent
    /\ \A m, n \in stream : m.nth = n.nth => m.seq = n.seq

\* A buffer has moved past every packet it took in.
Remembers(rx, stream, sent) ==
    /\ rx.expected = NoSeq => rx.taken = {}
    /\ rx.expected <= sent
    /\ \A k \in rx.taken : k <= sent
    /\ \A m \in stream : m.nth \in rx.taken => m.seq < rx.expected

\* Within half of the sequence space the numbers are as good as integers.
LEMMA NoWrap ==
    ASSUME NEW n \in Nat, n < HalfSpace
    PROVE  SeqOf(n) = n
  <1>1. /\ n \in SeqNumbers /\ n \in Int /\ 0 \in Int
        /\ n = SeqMod * 0 + n
    BY SeqSpaceAssumption DEF SeqNumbers, SeqMod
  <1> QED
    BY <1>1, DivisionUnique, Zenon DEF SeqOf

LEMMA LateIsLower ==
    ASSUME NEW s \in Nat, NEW e \in Nat, s < HalfSpace, e < HalfSpace
    PROVE  IsLate(s, e) <=> s < e
  <1>1. Delta(SeqOf(s), SeqOf(e)) = s - e
    BY SeqSpaceAssumption, DeltaIsDistance
  <1> QED
    BY <1>1, NoWrap DEF IsLate

\* A reset buffer remembers nothing.
LEMMA DeafRemembers ==
    ASSUME NEW stream, NEW sent \in Nat
    PROVE  Remembers(Deaf, stream, sent)
  BY DEF Remembers, Deaf, NoSeq

\* Losing packets harms neither, ...
LEMMA FewerRemembered ==
    ASSUME NEW stream, NEW fewer \in SUBSET stream, NEW sent
    PROVE  /\ Numbered(stream, sent) => Numbered(fewer, sent)
           /\ \A rx : Remembers(rx, stream, sent) => Remembers(rx, fewer, sent)
  BY DEF Numbered, Remembers

\* ... nor does sending another one, which no buffer can have taken in yet.
LEMMA OneMoreRemembered ==
    ASSUME NEW sent \in Nat, NEW stream, Numbered(stream, sent),
           NEW new, new.nth = sent + 1, new.seq \in Nat, new.seq <= sent,
           NEW more \in SUBSET (stream \cup {new})
    PROVE  /\ Numbered(more, sent + 1)
           /\ \A rx \in Receivers :
                 Remembers(rx, stream, sent) => Remembers(rx, more, sent + 1)
  <1>1. Numbered(more, sent + 1)
    BY DEF Numbered
  <1>2. ASSUME NEW rx \in Receivers, Remembers(rx, stream, sent)
        PROVE  Remembers(rx, more, sent + 1)
    <2>1. rx.expected \in Int /\ \A k \in rx.taken : k \in Nat
      BY SeqSpaceAssumption DEF Receivers, SeqNumbers, SeqMod, NoSeq, Nth
    <2>2. new.nth \notin rx.taken
      BY <1>2, <2>1 DEF Remembers
    <2> QED
      BY <1>2, <2>1, <2>2 DEF Remembers
  <1> QED
    BY <1>1, <1>2

\* A buffer that takes a packet in has not taken it in before, and remembers it.
LEMMA TakesOnce ==
    ASSUME NEW sent \in Nat, sent < HalfSpace, NEW stream, Numbered(stream, sent),
           NEW rx \in Receivers, Remembers(rx, stream, sent), NEW m \in stream
    PROVE  /\ Admits(rx, m) => m.nth \notin rx.taken
           /\ Remembers(Hears(rx, m), stream, sent)
  <1>1. HalfSpace \in Nat /\ rx.expected \in Nat \cup {NoSeq} /\ NoSeq = -1
    BY SeqSpaceAssumption DEF Receivers, SeqNumbers, SeqMod, NoSeq
  <1>2. m.seq \in Nat /\ m.nth \in Nat /\ m.seq + 1 <= m.nth /\ m.nth <= sent
    BY DEF Numbered
  <1>3. m.seq < HalfSpace /\ m.seq + 1 < HalfSpace /\ m.seq + 1 <= sent
    BY <1>1, <1>2
  <1>4. SeqOf(m.seq + 1) = m.seq + 1
    BY <1>2, <1>3, NoWrap
  <1>5. rx.expected # NoSeq => (IsLate(m.seq, rx.expected) <=> m.seq < rx.expected)
    <2>1. rx.expected # NoSeq => rx.expected \in Nat /\ rx.expected < HalfSpace
      BY <1>1 DEF Remembers
    <2> QED
      BY <1>2, <1>3, <2>1, LateIsLower
  <1>6. Admits(rx, m) => m.nth \notin rx.taken
    BY <1>1, <1>2, <1>5 DEF Admits, Remembers
  <1>7. CASE ~Admits(rx, m)
    BY <1>7, <1>6 DEF Hears
  <1>8. CASE Admits(rx, m)
    <2>1. Hears(rx, m) = [expected |-> m.seq + 1, taken |-> rx.taken \cup {m.nth}]
      BY <1>4, <1>8 DEF Hears
    <2>2. ASSUME NEW n \in stream, n.nth \in rx.taken \cup {m.nth}
          PROVE  n.seq < m.seq + 1
      <3>1. n.seq \in Nat
        BY DEF Numbered
      <3>2. CASE n.nth = m.nth
        BY <1>2, <3>1, <3>2 DEF Numbered
      <3>3. CASE n.nth \in rx.taken
        <4>1. rx.expected \in Nat /\ rx.expected <= m.seq
          BY <1>1, <1>2, <1>5, <1>8, <3>3 DEF Admits, Remembers
        <4>2. n.seq < rx.expected
          BY <3>3 DEF Remembers
        <4> QED
          BY <1>2, <3>1, <4>1, <4>2
      <3> QED
        BY <2>2, <3>2, <3>3
    <2>3. m.seq + 1 # NoSeq
      BY <1>1, <1>2
    <2>4. \A k \in rx.taken \cup {m.nth} : k <= sent
      BY <1>2 DEF Remembers
    <2> DEFINE now == Hears(rx, m)
    <2>5. now.expected = m.seq + 1 /\ now.taken = rx.taken \cup {m.nth}
      BY <2>1
    <2> HIDE DEF now
    <2>6. Remembers(now, stream, sent)
      BY <1>3, <2>2, <2>3, <2>4, <2>5 DEF Remembers
    <2> QED
      BY <1>6, <2>6 DEF now
  <1> QED
    BY <1>6, <1>7, <1>8

Mics(wire, p) == {m \in wire : m.type = "Mic" /\ m.session = p}
Speakers == {m \in net : m.type = "Speaker"}

\* Both ends of the playback stream, whose packets the VM agent counts through
\* all of its sessions, ...
SpeakerInv ==
    /\ Numbered(Speakers, spkSent)
    /\ HasSession => session.seq <= spkSent
    /\ \A p \in Host : Remembers(speaker[p], Speakers, spkSent)

\* ... and of the microphone stream of each host.
MicInv ==
    /\ \A p \in Host : hostSeq[p] <= micSent[p] /\ Numbered(Mics(net, p), micSent[p])
    /\ HasSession => Remembers(session.rx, Mics(net, session.id), micSent[session.id])

\* A step after which no audio is in flight that was not before.
NoAudioSent == \A m \in net' : m \in net \/ m.type \notin {"Mic", "Speaker"}

\* A host sends audio in SendMic only, ...
LEMMA HostSendsMicOnly ==
    ASSUME NEW p \in Host, HostStep(p), ~SendMic(p)
    PROVE  NoAudioSent /\ UNCHANGED micSent
  <1>1. ASSUME NEW new, new.type \notin {"Mic", "Speaker"}, net' \subseteq net \cup {new}
        PROVE  NoAudioSent
    BY <1>1 DEF NoAudioSent
  <1>2. CASE HelloTick(p)
    BY <1>1, <1>2, PostedAdds DEF HelloTick, Hello, FromHost, hostVars
  <1>3. CASE PingTick(p)
    BY <1>1, <1>3, PostedAdds DEF PingTick, Ping, FromHost, hostVars
  <1>4. CASE HostStop(p)
    <2>1. net' \subseteq net \cup {HostBye(p)}
      BY <1>4, PostedAdds DEF HostStop
    <2> QED
      BY <1>1, <1>4, <2>1 DEF HostStop, Gone, HostBye, FromHost
  <1>5. CASE HostStart(p) \/ LinkLost(p) \/ SpeakerReopened(p) \/ HostQuiet(p)
             \/ HostCrash(p)
    BY <1>5 DEF HostStart, LinkLost, SpeakerReopened, HostQuiet, HostCrash, Gone,
                NoAudioSent
  <1> QED
    BY <1>2, <1>3, <1>4, <1>5 DEF HostStep

\* ... and the VM agent in SendSpeaker only.
LEMMA VmSendsSpeakerOnly ==
    ASSUME (VmStep /\ ~SendSpeaker) \/ (\E m \in net : VmReceive(m))
    PROVE  NoAudioSent /\ UNCHANGED spkSent
  <1>1. ASSUME NEW new, new.type \notin {"Mic", "Speaker"}, net' \subseteq net \cup {new}
        PROVE  NoAudioSent
    BY <1>1 DEF NoAudioSent
  <1>2. CASE VmStep /\ ~SendSpeaker
    <2>1. CASE VmStop
      <3>1. net' \subseteq net \cup {VmBye(session.id, session.peer)}
        BY <2>1, PostedAdds DEF VmStop
      <3> QED
        BY <1>1, <2>1, <3>1 DEF VmStop, VmGone, VmBye
    <2>2. CASE VmStart \/ Capture \/ DropSpeaker \/ RenderReopened \/ VmQuiet
               \/ Sweep \/ VmCrash
      BY <2>2 DEF VmStart, Capture, DropSpeaker, RenderReopened, VmQuiet, Sweep,
                  VmCrash, VmGone, NoAudioSent
    <2> QED
      BY <1>2, <2>1, <2>2 DEF VmStep
  <1>3. ASSUME NEW m \in net, VmReceive(m)
        PROVE  NoAudioSent /\ UNCHANGED spkSent
    <2>1. ASSUME NEW status, Answer(m, HelloAck(m.session, m.from, status))
          PROVE  NoAudioSent
      BY <1>1, <2>1, AnswerAdds DEF HelloAck
    <2>2. CASE HandleHello(m)
      BY <2>1, <2>2 DEF HandleHello, RefuseToken, RefuseFormat, RefuseBusy, Refuse,
                        KeepSession, OpenSession, FailSession, vmVars
    <2>3. CASE RecvPing(m)
      BY <1>1, <2>3, AnswerAdds DEF RecvPing, Pong
    <2>4. CASE RecvMic(m) \/ RecvHostBye(m) \/ RecvForeign(m)
      BY <2>4 DEF RecvMic, RecvHostBye, RecvForeign, After, NoAudioSent, vmVars
    <2> QED
      BY <1>3, <2>2, <2>3, <2>4 DEF VmReceive
  <1> QED
    BY <1>2, <1>3

\* What arrives leaves the rest in flight.
LEMMA HostReceivesOnly ==
    ASSUME NEW p \in Host, NEW m \in net, HostReceive(p, m)
    PROVE  NoAudioSent /\ UNCHANGED <<micSent>>
  BY DEF HostReceive, RecvSpeaker, RecvAccept, RecvReject, RecvVmBye, RecvSignOfLife,
         Receive, After, NoAudioSent

\* Without audio sent, the streams in flight only get thinner.
LEMMA StreamsThin ==
    ASSUME NoAudioSent
    PROVE  Speakers' \subseteq Speakers /\ \A p \in Host : Mics(net', p) \subseteq Mics(net, p)
  BY DEF NoAudioSent, Speakers, Mics

\* A buffer that takes a playback packet in, or none, and a reset one.
LEMMA SpeakerHeard ==
    ASSUME MaxSpeaker < HalfSpace, TypeInv, SpeakerInv, NEW p \in Host,
           NEW m \in net, HostReceive(p, m), NEW q \in Host
    PROVE  Remembers(speaker'[q], Speakers, spkSent)
  <1>1. spkSent \in Nat /\ spkSent < HalfSpace
    BY VmAssumption, SeqSpaceAssumption DEF TypeInv, TypeOK, VmTypeOK
  <1>2. speaker \in [Host -> Receivers]
    BY DEF TypeInv, TypeOK, HostTypeOK
  <1>3. CASE RecvSpeaker(p, m)
    <2>1. m \in Speakers
      BY <1>3 DEF RecvSpeaker, Speakers
    <2>2. Remembers(Hears(speaker[p], m), Speakers, spkSent)
      BY <1>1, <1>2, <2>1, TakesOnce DEF SpeakerInv
    <2> QED
      BY <1>2, <1>3, <2>2 DEF RecvSpeaker, SpeakerInv
  <1>4. CASE RecvAccept(p, m) \/ RecvVmBye(p, m)
    BY <1>1, <1>2, <1>4, DeafRemembers DEF RecvAccept, RecvVmBye, SpeakerInv
  <1>5. CASE RecvReject(p, m) \/ RecvSignOfLife(p, m)
    BY <1>5 DEF RecvReject, RecvSignOfLife, SpeakerInv
  <1> QED
    BY <1>3, <1>4, <1>5 DEF HostReceive

\* No timer or thread of a host makes its buffer go back.
LEMMA SpeakerUntouched ==
    ASSUME TypeInv, SpeakerInv, NEW p \in Host, HostStep(p), NEW q \in Host
    PROVE  Remembers(speaker'[q], Speakers, spkSent)
  <1>1. spkSent \in Nat /\ speaker \in [Host -> Receivers]
    BY DEF TypeInv, TypeOK, HostTypeOK, VmTypeOK
  <1>2. CASE LinkLost(p) \/ SpeakerReopened(p) \/ HostStop(p) \/ HostCrash(p)
    BY <1>1, <1>2, DeafRemembers DEF LinkLost, SpeakerReopened, HostStop, HostCrash,
                                     Gone, SpeakerInv
  <1>3. CASE HostStart(p) \/ HelloTick(p) \/ PingTick(p) \/ SendMic(p) \/ HostQuiet(p)
    BY <1>3 DEF HostStart, HelloTick, PingTick, SendMic, HostQuiet, hostVars, SpeakerInv
  <1> QED
    BY <1>2, <1>3 DEF HostStep

\* The number of the next packet grows with the packets sent, or starts over.
LEMMA SpeakerCounted ==
    ASSUME MaxSpeaker < HalfSpace, TypeInv, SpeakerInv,
           VmStep \/ (\E m \in net : VmReceive(m))
    PROVE  HasSession' => session'.seq <= spkSent'
  <1>1. spkSent \in Nat /\ spkSent <= MaxSpeaker /\ HalfSpace \in Nat /\ MaxSpeaker \in Nat
    BY VmAssumption, SeqSpaceAssumption DEF TypeInv, TypeOK, VmTypeOK
  <1>2. HasSession => session \in Sessions
    BY SessionType DEF TypeInv, TypeOK
  <1>3. CASE SendSpeaker
    <2>1. session.seq \in Nat /\ session.seq <= spkSent
      BY <1>2, <1>3, SeqSpaceAssumption
      DEF SendSpeaker, SpeakerInv, Sessions, SeqNumbers, SeqMod
    <2>2. session.seq + 1 \in Nat /\ session.seq + 1 < HalfSpace
      <3>1. spkSent + 1 < HalfSpace
        BY <1>1, <1>3 DEF SendSpeaker
      <3> QED
        BY <1>1, <2>1, <3>1
    <2>3. session'.seq = session.seq + 1
      BY <1>2, <1>3, <2>2, NoWrap DEF SendSpeaker, Sessions
    <2> QED
      BY <1>1, <1>3, <2>1, <2>3 DEF SendSpeaker
  <1>4. CASE VmStart \/ Capture \/ DropSpeaker \/ RenderReopened \/ VmQuiet
             \/ Sweep \/ VmStop \/ VmCrash
    BY <1>2, <1>4 DEF VmStart, Capture, DropSpeaker, RenderReopened, VmQuiet, Sweep,
                      VmStop, VmCrash, VmGone, Sessions, HasSession, SpeakerInv
  <1>5. ASSUME NEW m \in net, VmReceive(m)
        PROVE  HasSession' => session'.seq <= spkSent'
    <2>1. spkSent' = spkSent
      BY <1>5, VmSendsSpeakerOnly
    <2>2. CASE RefuseToken(m) \/ RefuseFormat(m) \/ RefuseBusy(m) \/ RecvForeign(m)
      BY <2>1, <2>2 DEF RefuseToken, RefuseFormat, RefuseBusy, Refuse, RecvForeign,
                        vmVars, HasSession, SpeakerInv
    <2>3. CASE KeepSession(m) \/ RecvMic(m) \/ RecvPing(m)
      BY <1>2, <2>1, <2>3 DEF KeepSession, Unchanged, RecvMic, RecvPing, FromOwner,
                              SpeakerInv, Sessions
    <2>4. CASE OpenSession(m)
      BY <1>1, <2>1, <2>4 DEF OpenSession
    <2>5. CASE (\E failing \in SpawnFails : FailSession(m, failing)) \/ RecvHostBye(m)
      BY <2>5 DEF FailSession, RecvHostBye, HasSession
    <2> QED
      BY <1>5, <2>2, <2>3, <2>4, <2>5 DEF VmReceive, HandleHello
  <1> QED
    BY <1>3, <1>4, <1>5 DEF VmStep

\* The playback stream stays in order.
LEMMA SpeakerInvInvariant ==
    ASSUME MaxSpeaker < HalfSpace
    PROVE  Spec => []SpeakerInv
  <1>1. Init => SpeakerInv
    BY DeafRemembers DEF Init, HostInit, VmInit, SpeakerInv, Speakers, Numbered, HasSession
  <1>2. TypeInv /\ SpeakerInv /\ [Next]_vars => SpeakerInv'
    <2> SUFFICES ASSUME TypeInv, SpeakerInv, [Next]_vars
                 PROVE  SpeakerInv'
      OBVIOUS
    <2>1. ASSUME Speakers' \subseteq Speakers, UNCHANGED spkSent,
                 HasSession' => session'.seq <= spkSent',
                 \A p \in Host : Remembers(speaker'[p], Speakers, spkSent)
          PROVE  SpeakerInv'
      <3>1. Numbered(Speakers', spkSent)
        BY <2>1, FewerRemembered DEF SpeakerInv
      <3>2. \A p \in Host : Remembers(speaker'[p], Speakers', spkSent)
        BY <2>1, FewerRemembered
      <3> QED
        BY <2>1, <3>1, <3>2 DEF SpeakerInv
    <2>2. UNCHANGED <<session, spkSent>> => (HasSession' => session'.seq <= spkSent')
      BY DEF SpeakerInv, HasSession
    <2>3. UNCHANGED hostVars => \A p \in Host : Remembers(speaker'[p], Speakers, spkSent)
      BY DEF SpeakerInv, hostVars
    <2>4. ASSUME NEW p \in Host, HostStep(p), UNCHANGED vmVars
          PROVE  SpeakerInv'
      <3>1. SendMic(p) => Speakers' \subseteq Speakers
        BY PostedAdds DEF SendMic, Mic, Speakers
      <3>2. Speakers' \subseteq Speakers
        BY <2>4, <3>1, HostSendsMicOnly, StreamsThin
      <3>3. \A q \in Host : Remembers(speaker'[q], Speakers, spkSent)
        BY <2>4, SpeakerUntouched
      <3> QED
        BY <2>1, <2>2, <2>4, <3>2, <3>3 DEF vmVars
    <2>5. ASSUME NEW p \in Host, NEW m \in net, HostReceive(p, m), UNCHANGED vmVars
          PROVE  SpeakerInv'
      <3>1. Speakers' \subseteq Speakers
        BY <2>5, HostReceivesOnly, StreamsThin
      <3>2. \A q \in Host : Remembers(speaker'[q], Speakers, spkSent)
        BY <2>5, SpeakerHeard
      <3> QED
        BY <2>1, <2>2, <2>5, <3>1, <3>2 DEF vmVars
    <2>6. CASE SendSpeaker /\ UNCHANGED hostVars
      <3> DEFINE new == Speaker(session.id, session.peer, session.seq,
                                spkSent + 1, Head(captured))
      <3>1. spkSent \in Nat /\ spkSent' = spkSent + 1
        BY <2>6 DEF TypeInv, TypeOK, VmTypeOK, SendSpeaker
      <3>2. session.seq \in Nat /\ session.seq <= spkSent
        BY <2>6, SessionType, SeqSpaceAssumption
        DEF TypeInv, TypeOK, SendSpeaker, SpeakerInv, Sessions, SeqNumbers, SeqMod
      <3>3. new.nth = spkSent + 1 /\ new.seq = session.seq
        BY DEF Speaker
      <3>4. Speakers' \subseteq Speakers \cup {new}
        BY <2>6, PostedAdds DEF SendSpeaker, Speakers
      <3> HIDE DEF new
      <3>5. /\ Numbered(Speakers', spkSent + 1)
            /\ \A rx \in Receivers :
                  Remembers(rx, Speakers, spkSent) => Remembers(rx, Speakers', spkSent + 1)
        BY <3>1, <3>2, <3>3, <3>4, OneMoreRemembered DEF SpeakerInv
      <3>6. \A p \in Host : speaker'[p] = speaker[p] /\ speaker[p] \in Receivers
        BY <2>6 DEF TypeInv, TypeOK, HostTypeOK, hostVars
      <3>7. HasSession' => session'.seq <= spkSent'
        BY <2>6, SpeakerCounted DEF VmStep
      <3> QED
        BY <3>1, <3>5, <3>6, <3>7 DEF SpeakerInv
    <2>7. ASSUME (VmStep /\ ~SendSpeaker) \/ (\E m \in net : VmReceive(m)),
                 UNCHANGED hostVars
          PROVE  SpeakerInv'
      <3>1. Speakers' \subseteq Speakers /\ UNCHANGED spkSent
        BY <2>7, VmSendsSpeakerOnly, StreamsThin
      <3>2. HasSession' => session'.seq <= spkSent'
        BY <2>7, SpeakerCounted
      <3> QED
        BY <2>1, <2>3, <2>7, <3>1, <3>2
    <2>8. CASE (Lose /\ UNCHANGED <<hostVars, vmVars>>) \/ UNCHANGED vars
      <3>1. Speakers' \subseteq Speakers /\ UNCHANGED <<session, spkSent, hostVars>>
        BY <2>8 DEF Lose, vars, vmVars, Speakers
      <3> QED
        BY <2>1, <2>2, <2>3, <3>1
    <2> QED
      BY <2>4, <2>5, <2>6, <2>7, <2>8 DEF Next
  <1> QED
    BY <1>1, <1>2, TypeInvInvariant, PTL DEF Spec

\* The buffer of a session remembers the microphone packets it took in, whatever
\* the VM agent does, and a new session starts with a reset one.
LEMMA MicHeard ==
    ASSUME MaxMic < HalfSpace, TypeInv, MicInv, VmStep \/ (\E m \in net : VmReceive(m))
    PROVE  HasSession' =>
              Remembers(session'.rx, Mics(net, session'.id), micSent[session'.id])
  <1> DEFINE Kept ==
          HasSession' => Remembers(session'.rx, Mics(net, session'.id), micSent[session'.id])
  <1>1. HasSession => session \in Sessions
    BY SessionType DEF TypeInv, TypeOK
  <1>2. \A p \in Host : micSent[p] \in Nat /\ micSent[p] < HalfSpace
    BY HostAssumption, SeqSpaceAssumption DEF TypeInv, TypeOK, HostTypeOK
  <1>3. CASE VmStart \/ Capture \/ DropSpeaker \/ SendSpeaker \/ VmQuiet
    BY <1>1, <1>3 DEF VmStart, Capture, DropSpeaker, SendSpeaker, VmQuiet, Sessions,
                      HasSession, MicInv
  <1>4. CASE RenderReopened
    <2>1. session'.rx = Deaf /\ session'.id \in Host
      BY <1>1, <1>4 DEF RenderReopened, Sessions
    <2> QED
      BY <1>2, <2>1, DeafRemembers
  <1>5. CASE Sweep \/ VmStop \/ VmCrash
    BY <1>5 DEF Sweep, VmStop, VmCrash, VmGone, HasSession
  <1>6. ASSUME NEW m \in net, VmReceive(m)
        PROVE  Kept
    <2>1. CASE RefuseToken(m) \/ RefuseFormat(m) \/ RefuseBusy(m) \/ RecvForeign(m)
      BY <2>1 DEF RefuseToken, RefuseFormat, RefuseBusy, Refuse, RecvForeign, vmVars,
                  HasSession, MicInv
    <2>2. CASE KeepSession(m) \/ RecvPing(m)
      BY <1>1, <2>2 DEF KeepSession, Unchanged, RecvPing, FromOwner, Sessions, MicInv
    <2>3. CASE RecvMic(m)
      <3>1. /\ session \in Sessions /\ session.id \in Host /\ session.rx \in Receivers
            /\ session'.id = session.id
            /\ session'.rx = Hears(session.rx, m)
        BY <1>1, <2>3 DEF RecvMic, FromOwner, Sessions
      <3>2. m \in Mics(net, session.id)
        BY <2>3 DEF RecvMic, FromOwner, Mics
      <3>3. /\ Remembers(session.rx, Mics(net, session.id), micSent[session.id])
            /\ Numbered(Mics(net, session.id), micSent[session.id])
        BY <2>3, <3>1 DEF RecvMic, FromOwner, MicInv
      <3>4. Remembers(Hears(session.rx, m), Mics(net, session.id), micSent[session.id])
        BY <1>2, <3>1, <3>2, <3>3, TakesOnce
      <3> QED
        BY <3>1, <3>4
    <2>4. CASE OpenSession(m)
      <3>1. session'.rx = Deaf /\ session'.id \in Host
        BY <2>4, TakenType DEF OpenSession, MayOpen, IsHello, TypeInv, TypeOK
      <3> QED
        BY <1>2, <3>1, DeafRemembers
    <2>5. CASE (\E failing \in SpawnFails : FailSession(m, failing)) \/ RecvHostBye(m)
      BY <2>5 DEF FailSession, RecvHostBye, HasSession
    <2> QED
      BY <1>6, <2>1, <2>2, <2>3, <2>4, <2>5 DEF VmReceive, HandleHello
  <1> QED
    BY <1>3, <1>4, <1>5, <1>6 DEF VmStep

\* A host that sends no audio goes on counting where it was, or starts over.
LEMMA MicCounted ==
    ASSUME TypeInv, MicInv, NEW p \in Host,
           \/ HostStep(p) /\ ~SendMic(p)
           \/ \E m \in net : HostReceive(p, m)
    PROVE  \A q \in Host : hostSeq'[q] <= micSent'[q]
  <1>1. /\ hostSeq \in [Host -> SeqNumbers] /\ \A q \in Host : micSent[q] \in Nat
        /\ \A q \in Host : hostSeq[q] <= micSent[q]
    BY HostAssumption DEF TypeInv, TypeOK, HostTypeOK, MicInv
  <1>2. micSent' = micSent
    BY HostSendsMicOnly, HostReceivesOnly
  <1>3. HostStep(p) /\ ~SendMic(p) =>
            hostSeq' = hostSeq \/ hostSeq' = [hostSeq EXCEPT ![p] = 0]
    BY DEF HostStep, HostStart, HelloTick, PingTick, LinkLost, SpeakerReopened, HostQuiet,
           HostStop, HostCrash, Gone, hostVars
  <1>4. ASSUME NEW m \in net, HostReceive(p, m)
        PROVE  hostSeq' = hostSeq \/ hostSeq' = [hostSeq EXCEPT ![p] = 0]
    <2>1. RecvAccept(p, m) => hostSeq' = [hostSeq EXCEPT ![p] = 0]
      BY DEF RecvAccept
    <2>2. RecvSpeaker(p, m) \/ RecvReject(p, m) \/ RecvVmBye(p, m) \/ RecvSignOfLife(p, m)
            => hostSeq' = hostSeq
      BY DEF RecvSpeaker, RecvReject, RecvVmBye, RecvSignOfLife
    <2> QED
      BY <1>4, <2>1, <2>2 DEF HostReceive
  <1> QED
    BY <1>1, <1>2, <1>3, <1>4

\* A host that sends a packet gives it a count no buffer knows.
LEMMA MicSentOnce ==
    ASSUME MaxMic < HalfSpace, TypeInv, MicInv, NEW p \in Host, SendMic(p),
           UNCHANGED vmVars
    PROVE  MicInv'
  <1> DEFINE new == Mic(p, hostSeq[p], micSent[p] + 1)
  <1>1. /\ micSent \in [Host -> 0 .. MaxMic] /\ hostSeq \in [Host -> SeqNumbers]
        /\ MaxMic \in Nat /\ HalfSpace \in Nat /\ SeqNumbers \subseteq Nat
    BY HostAssumption, SeqSpaceAssumption
    DEF TypeInv, TypeOK, HostTypeOK, SeqNumbers, SeqMod
  <1>2. /\ hostSeq[p] \in Nat /\ micSent[p] \in Nat
        /\ hostSeq[p] <= micSent[p] /\ micSent[p] < MaxMic
    <2>1. hostSeq[p] <= micSent[p]
      BY DEF MicInv
    <2>2. micSent[p] < MaxMic
      BY DEF SendMic
    <2>3. hostSeq[p] \in Nat /\ micSent[p] \in 0 .. MaxMic
      BY <1>1
    <2> QED
      BY <1>1, <2>1, <2>2, <2>3
  <1>3. SeqOf(hostSeq[p] + 1) = hostSeq[p] + 1
    <2>1. hostSeq[p] + 1 \in Nat /\ hostSeq[p] + 1 < HalfSpace
      BY <1>1, <1>2
    <2> QED
      BY <2>1, NoWrap
  <1>4. /\ micSent' = [micSent EXCEPT ![p] = @ + 1]
        /\ hostSeq' = [hostSeq EXCEPT ![p] = hostSeq[p] + 1]
    BY <1>3 DEF SendMic
  <1>5. /\ Mics(net', p) \subseteq Mics(net, p) \cup {new}
        /\ \A q \in Host \ {p} : Mics(net', q) \subseteq Mics(net, q)
    BY PostedAdds DEF SendMic, Mics, Mic
  <1>6. new.nth = micSent[p] + 1 /\ new.seq = hostSeq[p]
    BY DEF Mic
  <1> HIDE DEF new
  <1>7. /\ Numbered(Mics(net', p), micSent'[p])
        /\ \A rx \in Receivers :
              Remembers(rx, Mics(net, p), micSent[p]) => Remembers(rx, Mics(net', p), micSent'[p])
    <2>1. micSent'[p] = micSent[p] + 1
      BY <1>1, <1>4
    <2> QED
      BY <1>2, <1>5, <1>6, <2>1, OneMoreRemembered DEF MicInv
  <1>8. ASSUME NEW q \in Host \ {p}
        PROVE  /\ Numbered(Mics(net', q), micSent'[q])
               /\ \A rx : Remembers(rx, Mics(net, q), micSent[q])
                             => Remembers(rx, Mics(net', q), micSent'[q])
    <2>1. micSent'[q] = micSent[q]
      BY <1>1, <1>4
    <2> QED
      BY <1>5, <2>1, FewerRemembered DEF MicInv
  <1>9. \A q \in Host : hostSeq'[q] <= micSent'[q]
    BY <1>1, <1>2, <1>4 DEF MicInv
  <1>10. HasSession' => Remembers(session'.rx, Mics(net', session'.id), micSent'[session'.id])
    <2>1. HasSession => session.id \in Host /\ session.rx \in Receivers
      BY SessionType DEF TypeInv, TypeOK, Sessions
    <2>2. session' = session
      BY DEF vmVars
    <2>3. HasSession => Remembers(session.rx, Mics(net, session.id), micSent[session.id])
      BY DEF MicInv
    <2>4. HasSession => Remembers(session.rx, Mics(net', session.id), micSent'[session.id])
      BY <1>7, <1>8, <2>1, <2>3
    <2> QED
      BY <2>2, <2>4 DEF HasSession
  <1> QED
    BY <1>7, <1>8, <1>9, <1>10 DEF MicInv

\* The microphone streams stay in order.
LEMMA MicInvInvariant ==
    ASSUME MaxMic < HalfSpace
    PROVE  Spec => []MicInv
  <1>1. Init => MicInv
    BY DEF Init, HostInit, VmInit, MicInv, Mics, Numbered, HasSession
  <1>2. TypeInv /\ MicInv /\ [Next]_vars => MicInv'
    <2> SUFFICES ASSUME TypeInv, MicInv, [Next]_vars
                 PROVE  MicInv'
      OBVIOUS
    <2>1. HasSession => session.id \in Host
      BY SessionType DEF TypeInv, TypeOK, Sessions
    <2>2. HasSession' => session'.id \in Host
      <3>1. TypeInv'
        BY TypeInvStep
      <3> QED
        BY <3>1 DEF TypeInv, TypeOK, VmTypeOK, HasSession, Sessions
    <2>3. ASSUME \A p \in Host : Mics(net', p) \subseteq Mics(net, p),
                 UNCHANGED micSent,
                 \A p \in Host : hostSeq'[p] <= micSent'[p],
                 HasSession' =>
                    Remembers(session'.rx, Mics(net, session'.id), micSent[session'.id])
          PROVE  MicInv'
      <3>1. \A p \in Host : Numbered(Mics(net', p), micSent'[p])
        BY <2>3, FewerRemembered DEF MicInv
      <3>2. HasSession' =>
               Remembers(session'.rx, Mics(net', session'.id), micSent'[session'.id])
        BY <2>2, <2>3, FewerRemembered
      <3> QED
        BY <2>3, <3>1, <3>2 DEF MicInv
    <2>4. UNCHANGED hostVars =>
             UNCHANGED micSent /\ \A p \in Host : hostSeq'[p] <= micSent'[p]
      BY DEF MicInv, hostVars
    <2>5. UNCHANGED session =>
             (HasSession' =>
                Remembers(session'.rx, Mics(net, session'.id), micSent[session'.id]))
      BY DEF MicInv, HasSession
    <2>6. ASSUME NEW p \in Host, UNCHANGED vmVars,
                 \/ HostStep(p) /\ ~SendMic(p)
                 \/ \E m \in net : HostReceive(p, m)
          PROVE  MicInv'
      <3>1. NoAudioSent /\ UNCHANGED micSent
        BY <2>6, HostSendsMicOnly, HostReceivesOnly
      <3>2. \A q \in Host : hostSeq'[q] <= micSent'[q]
        BY <2>6, MicCounted
      <3> QED
        BY <2>3, <2>5, <2>6, <3>1, <3>2, StreamsThin DEF vmVars
    <2>7. ASSUME NEW p \in Host, SendMic(p), UNCHANGED vmVars
          PROVE  MicInv'
      BY <2>7, MicSentOnce
    <2>8. ASSUME VmStep \/ (\E m \in net : VmReceive(m)), UNCHANGED hostVars
          PROVE  MicInv'
      <3>1. SendSpeaker => \A p \in Host : Mics(net', p) \subseteq Mics(net, p)
        BY PostedAdds DEF SendSpeaker, Speaker, Mics
      <3>2. \A p \in Host : Mics(net', p) \subseteq Mics(net, p)
        BY <2>8, <3>1, VmSendsSpeakerOnly, StreamsThin
      <3>3. HasSession' =>
               Remembers(session'.rx, Mics(net, session'.id), micSent[session'.id])
        BY <2>8, MicHeard
      <3> QED
        BY <2>3, <2>4, <2>8, <3>2, <3>3
    <2>9. CASE (Lose /\ UNCHANGED <<hostVars, vmVars>>) \/ UNCHANGED vars
      <3>1. /\ \A p \in Host : Mics(net', p) \subseteq Mics(net, p)
            /\ UNCHANGED <<session, hostVars>>
        BY <2>9 DEF Lose, vars, vmVars, Mics
      <3> QED
        BY <2>3, <2>4, <2>5, <3>1
    <2> QED
      BY <2>6, <2>7, <2>8, <2>9 DEF Next
  <1> QED
    BY <1>1, <1>2, TypeInvInvariant, PTL DEF Spec

\* Between two resets of its buffer a packet is taken in once at most, however the
\* network repeats and reorders and however often a sender starts over at 0, as long
\* as no sender has used up half of the 2^32 numbers: a packet repeated that much
\* later would pass for a new one.  A repeat after a reset is another matter: the
\* buffer has forgotten what it played.
THEOREM TakenOnceBetweenResets ==
    ASSUME MaxMic < HalfSpace, MaxSpeaker < HalfSpace
    PROVE  Spec => OnceBetweenResets
  <1>1. TypeInv /\ MicInv =>
          \A m \in net : RecvMic(m) /\ Admits(session.rx, m) => m.nth \notin session.rx.taken
    <2> SUFFICES ASSUME TypeInv, MicInv, NEW m \in net, RecvMic(m), Admits(session.rx, m)
                 PROVE  m.nth \notin session.rx.taken
      OBVIOUS
    <2>1. HasSession /\ m \in Mics(net, session.id)
      BY DEF RecvMic, FromOwner, Mics
    <2>2. session.id \in Host /\ session.rx \in Receivers
      BY <2>1, SessionType DEF TypeInv, TypeOK, Sessions
    <2>3. micSent[session.id] \in Nat /\ micSent[session.id] < HalfSpace
      BY <2>2, HostAssumption, SeqSpaceAssumption DEF TypeInv, TypeOK, HostTypeOK
    <2> QED
      BY <2>1, <2>2, <2>3, TakesOnce DEF MicInv
  <1>2. TypeInv /\ SpeakerInv =>
          \A m \in net, p \in Host :
             RecvSpeaker(p, m) /\ Admits(speaker[p], m) => m.nth \notin speaker[p].taken
    <2> SUFFICES ASSUME TypeInv, SpeakerInv, NEW m \in net, NEW p \in Host,
                        RecvSpeaker(p, m), Admits(speaker[p], m)
                 PROVE  m.nth \notin speaker[p].taken
      OBVIOUS
    <2>1. m \in Speakers /\ speaker[p] \in Receivers
      BY DEF RecvSpeaker, Speakers, TypeInv, TypeOK, HostTypeOK
    <2>2. spkSent \in Nat /\ spkSent < HalfSpace
      BY VmAssumption, SeqSpaceAssumption DEF TypeInv, TypeOK, VmTypeOK
    <2> QED
      BY <2>1, <2>2, TakesOnce DEF SpeakerInv
  <1> QED
    BY <1>1, <1>2, TypeInvInvariant, MicInvInvariant, SpeakerInvInvariant, PTL
    DEF OnceBetweenResets

-----------------------------------------------------------------------------
(* SpeakerLateMeansPlayed *)

\* A host that is up runs, and two that run do not share an address.
AloneInv ==
    /\ \A p \in Host : established[p] => Running(p)
    /\ \A p, q \in Host : Running(p) /\ Running(q) /\ AddrOf[p] = AddrOf[q] => p = q

LEMMA AloneInvInvariant == Spec => []AloneInv
  <1>1. Init => AloneInv
    BY DEF Init, HostInit, AloneInv, Running
  <1>2. TypeInv /\ AloneInv /\ [Next]_vars => AloneInv'
    <2> SUFFICES ASSUME TypeInv, AloneInv, [Next]_vars
                 PROVE  AloneInv'
      OBVIOUS
    <2>1. /\ phase \in [Host -> {"off", "running", "gone"}]
          /\ established \in [Host -> BOOLEAN]
      BY DEF TypeInv, TypeOK, HostTypeOK
    <2>2. ASSUME UNCHANGED phase, \A q \in Host : established'[q] => established[q] \/ Running(q)
          PROVE  AloneInv'
      BY <2>2 DEF AloneInv, Running
    <2>3. ASSUME NEW p \in Host, HostStep(p)
          PROVE  AloneInv'
      <3>1. CASE HostStart(p)
        BY <2>1, <3>1 DEF HostStart, AloneInv, Running
      <3>2. CASE HostStop(p) \/ HostCrash(p)
        BY <2>1, <3>2 DEF HostStop, HostCrash, Gone, AloneInv, Running
      <3>3. CASE HelloTick(p) \/ PingTick(p) \/ LinkLost(p) \/ SendMic(p)
                 \/ SpeakerReopened(p) \/ HostQuiet(p)
        BY <2>1, <2>2, <3>3
        DEF HelloTick, PingTick, LinkLost, SendMic, SpeakerReopened, HostQuiet, hostVars
      <3> QED
        BY <2>3, <3>1, <3>2, <3>3 DEF HostStep
    <2>4. ASSUME NEW p \in Host, NEW m \in net, HostReceive(p, m)
          PROVE  AloneInv'
      BY <2>1, <2>2, <2>4
      DEF HostReceive, RecvSpeaker, RecvAccept, RecvReject, RecvVmBye, RecvSignOfLife,
          Receive
    <2>5. UNCHANGED hostVars => AloneInv'
      BY <2>2 DEF hostVars
    <2> QED
      BY <2>3, <2>4, <2>5 DEF Next, vars
  <1> QED
    BY <1>1, <1>2, TypeInvInvariant, PTL DEF Spec

\* A step after which no Hello and no ack is in flight that was not before.
NoHelloSent == \A m \in net' : m \in net \/ m.type \notin {"Hello", "HelloAck"}

\* The VM sends acks in answer to a Hello, ...
LEMMA VmStepSendsNoAck ==
    ASSUME VmStep
    PROVE  NoHelloSent
  <1>1. ASSUME NEW new, new.type \notin {"Hello", "HelloAck"}, net' \subseteq net \cup {new}
        PROVE  NoHelloSent
    BY <1>1 DEF NoHelloSent
  <1>2. CASE SendSpeaker
    BY <1>1, <1>2, PostedAdds DEF SendSpeaker, Speaker
  <1>3. CASE VmStop
    BY <1>1, <1>3, PostedAdds DEF VmStop, VmBye, NoHelloSent
  <1>4. CASE VmStart \/ Capture \/ DropSpeaker \/ RenderReopened \/ VmQuiet \/ Sweep
             \/ VmCrash
    BY <1>4 DEF VmStart, Capture, DropSpeaker, RenderReopened, VmQuiet, Sweep, VmCrash,
                NoHelloSent
  <1> QED
    BY <1>2, <1>3, <1>4 DEF VmStep

\* ... one that says Ok when it has a session for the process that asked.
LEMMA VmAnswersHello ==
    ASSUME NEW m \in net, VmReceive(m)
    PROVE  \/ NoHelloSent
           \/ \E status :
                 /\ m.type = "Hello" /\ m.to = VmAddr
                 /\ net' \subseteq net \cup {HelloAck(m.session, m.from, status)}
                 /\ status = "Ok" => KeepSession(m) \/ OpenSession(m)
  <1>1. ASSUME NEW status, IsHello(m), Answer(m, HelloAck(m.session, m.from, status))
        PROVE  /\ m.type = "Hello" /\ m.to = VmAddr
               /\ net' \subseteq net \cup {HelloAck(m.session, m.from, status)}
    BY <1>1, AnswerAdds DEF IsHello, Take
  <1>2. CASE RefuseToken(m) \/ RefuseFormat(m) \/ RefuseBusy(m)
    BY <1>1, <1>2 DEF RefuseToken, RefuseFormat, RefuseBusy, Refuse
  <1>3. CASE KeepSession(m) \/ OpenSession(m)
    BY <1>1, <1>3 DEF KeepSession, OpenSession, MayOpen
  <1>4. CASE \E failing \in SpawnFails : FailSession(m, failing)
    BY <1>1, <1>4 DEF FailSession, MayOpen
  <1>5. CASE RecvPing(m)
    <2>1. net' \subseteq net \cup {Pong(m.session, m.from)}
      BY <1>5, AnswerAdds DEF RecvPing
    <2> QED
      BY <2>1 DEF NoHelloSent, Pong
  <1>6. CASE RecvMic(m) \/ RecvHostBye(m) \/ RecvForeign(m)
    BY <1>6 DEF RecvMic, RecvHostBye, RecvForeign, After, NoHelloSent
  <1> QED
    BY <1>2, <1>3, <1>4, <1>5, <1>6 DEF VmReceive, HandleHello

\* An ack is for the address of the process that asked.
Addressed == \A m \in net : m.type = "HelloAck" => m.to = AddrOf[m.session]

LEMMA HostSendsNoAck ==
    ASSUME \/ \E p \in Host : HostStep(p)
           \/ \E p \in Host, m \in net : HostReceive(p, m)
    PROVE  \A m \in net' : m \in net \/ m.type # "HelloAck"
  <1>1. ASSUME NEW p \in Host, HostStep(p)
        PROVE  \A m \in net' : m \in net \/ m.type # "HelloAck"
    <2>1. CASE HelloTick(p)
      BY <2>1, PostedAdds DEF HelloTick, Hello, FromHost
    <2>2. CASE PingTick(p)
      BY <2>2, PostedAdds DEF PingTick, Ping, FromHost
    <2>3. CASE SendMic(p)
      BY <2>3, PostedAdds DEF SendMic, Mic
    <2>4. CASE HostStop(p)
      BY <2>4, PostedAdds DEF HostStop, HostBye, FromHost
    <2>5. CASE HostStart(p) \/ LinkLost(p) \/ SpeakerReopened(p) \/ HostQuiet(p)
               \/ HostCrash(p)
      BY <2>5 DEF HostStart, LinkLost, SpeakerReopened, HostQuiet, HostCrash, Gone
    <2> QED
      BY <1>1, <2>1, <2>2, <2>3, <2>4, <2>5 DEF HostStep
  <1>2. ASSUME NEW p \in Host, NEW m \in net, HostReceive(p, m)
        PROVE  net' \subseteq net
    BY <1>2 DEF HostReceive, RecvSpeaker, RecvAccept, RecvReject, RecvVmBye,
                RecvSignOfLife, Receive, After
  <1> QED
    BY <1>1, <1>2

LEMMA AddressedInvariant == Spec => []Addressed
  <1>1. Init => Addressed
    BY DEF Init, Addressed
  <1>2. LeaseInv /\ Addressed /\ [Next]_vars => Addressed'
    <2> SUFFICES ASSUME LeaseInv, Addressed, [Next]_vars
                 PROVE  Addressed'
      OBVIOUS
    <2>1. (\A m \in net' : m \in net \/ m.type # "HelloAck") => Addressed'
      BY DEF Addressed
    <2>2. NoHelloSent => Addressed'
      BY <2>1 DEF NoHelloSent
    <2>3. ASSUME NEW m \in net, VmReceive(m)
          PROVE  Addressed'
      <3>1. CASE m.type = "Hello" /\ m.to = VmAddr
                 /\ \E status : net' \subseteq net \cup {HelloAck(m.session, m.from, status)}
        <4>1. m.from = AddrOf[m.session]
          BY <3>1 DEF LeaseInv, Authored
        <4> QED
          BY <3>1, <4>1 DEF Addressed, HelloAck
      <3> QED
        BY <2>2, <2>3, <3>1, VmAnswersHello
    <2>4. Lose \/ UNCHANGED vars => Addressed'
      BY DEF Lose, vars, Addressed
    <2> QED
      BY <2>1, <2>2, <2>3, <2>4, HostSendsNoAck, VmStepSendsNoAck DEF Next
  <1> QED
    BY <1>1, <1>2, LeaseInvInvariant, PTL DEF Spec

\* The VM serves p, unless it is down, in which case nothing it is sent now
\* outlives its restart.
Serves(p) == vmUp => HasSession /\ session.id = p /\ session.fresh

\* A datagram in flight that opened the session of p, or tells that it is open.
Claims(p) ==
    /\ Running(p)
    /\ \E m \in net :
          /\ m.session = p
          /\ \/ m.type = "Hello" /\ established[p]
             \/ m.type = "HelloAck" /\ m.status = "Ok"

\* No Hello survives the process that sent it once another has its address.
ClaimInv ==
    /\ \A p \in Host : Claims(p) => Serves(p)
    /\ \A m \in net, p \in Host :
          m.type = "Hello" /\ Running(p) /\ AddrOf[p] = m.from => p = m.session

\* The packets in flight are of one session, numbered from one offset, and of
\* the session that is there.
OneStream ==
    /\ \A m, n \in Speakers : m.session = n.session /\ m.nth - m.seq = n.nth - n.seq
    /\ HasSession => \A m \in Speakers :
          m.session = session.id /\ m.nth - m.seq = spkSent + 1 - session.seq

\* A host that is up expects the packet after one it took in: what it will hear
\* is numbered from the same offset.
Follows(p) ==
    established[p] /\ speaker[p].expected # NoSeq =>
        \E k \in speaker[p].taken :
            /\ \A m \in Speakers :
                  m.session = p => m.nth - m.seq = k + 1 - speaker[p].expected
            /\ SessionOf(p) => spkSent + 1 - session.seq = k + 1 - speaker[p].expected

PlaybackInv == ClaimInv /\ OneStream /\ \A p \in Host : Follows(p)

AudioInv == TypeInv /\ LeaseInv /\ SpeakerInv /\ AloneInv /\ Addressed

LEMMA SpeakerNumbers ==
    ASSUME AudioInv
    PROVE  /\ spkSent \in Nat
           /\ \A m \in Speakers : m.seq \in Nat /\ m.nth \in Nat /\ m.seq < m.nth
           /\ HasSession => session \in Sessions /\ session.seq \in Nat
           /\ speaker \in [Host -> Receivers]
           /\ \A p \in Host : /\ speaker[p].expected \in Int
                              /\ \A k \in speaker[p].taken : k \in Nat
  <1>1. spkSent \in Nat /\ speaker \in [Host -> Receivers]
    BY DEF AudioInv, TypeInv, TypeOK, VmTypeOK, HostTypeOK
  <1>2. \A m \in Speakers : m.seq \in Nat /\ m.nth \in Nat /\ m.seq < m.nth
    BY DEF AudioInv, SpeakerInv, Numbered
  <1>3. HasSession => session \in Sessions /\ session.seq \in Nat
    BY SessionType, SeqSpaceAssumption
    DEF AudioInv, TypeInv, TypeOK, Sessions, SeqNumbers, SeqMod
  <1>4. \A rx \in Receivers : rx.expected \in Int /\ \A k \in rx.taken : k \in Nat
    BY SeqSpaceAssumption DEF Receivers, SeqNumbers, SeqMod, NoSeq, Nth
  <1> QED
    BY <1>1, <1>2, <1>3, <1>4

\* A Hello that would open a session finds nobody's claim: whoever has one holds
\* the session, at the address the Hello came from, and is the one who sent it.
LEMMA NoClaimOpens ==
    ASSUME AudioInv, ClaimInv, NEW m \in net, MayOpen(m), ~Unchanged(m), NEW p \in Host
    PROVE  ~Claims(p)
  <1> SUFFICES ASSUME Claims(p)
               PROVE  FALSE
    OBVIOUS
  <1>1. m.type = "Hello" /\ m.to = VmAddr /\ vmUp /\ ~OwnedByAnother(m)
    BY DEF MayOpen, IsHello, Take
  <1>2. HasSession /\ session.id = p /\ session.fresh /\ session.peer = AddrOf[p]
        /\ session.format = FormatOf[p]
    BY <1>1 DEF ClaimInv, Serves, AudioInv, LeaseInv, Owned
  <1>3. m.from = AddrOf[p]
    BY <1>1, <1>2 DEF OwnedByAnother
  <1>4. m.session = p
    BY <1>1, <1>3 DEF ClaimInv, Claims
  <1> QED
    BY <1>2, <1>3, <1>4 DEF Unchanged

-----------------------------------------------------------------------------
(* SpeakerLateMeansPlayed: the claims *)

LEMMA HostClaims ==
    ASSUME AudioInv, ClaimInv, Prompt, NEW p \in Host, HostStep(p), UNCHANGED vmVars
    PROVE  ClaimInv'
  <1>1. /\ phase \in [Host -> {"off", "running", "gone"}]
        /\ established \in [Host -> BOOLEAN]
    BY DEF AudioInv, TypeInv, TypeOK, HostTypeOK
  <1>2. \A q : Serves(q)' = Serves(q)
    BY DEF Serves, HasSession, vmVars
  <1>3. ASSUME NEW new, net' \subseteq net \cup {new},
               new.type \notin {"Hello", "HelloAck"},
               \A q \in Host : (Running(q)' => Running(q)) /\ (established'[q] => established[q])
        PROVE  ClaimInv'
    BY <1>2, <1>3 DEF ClaimInv, Claims
  <1>4. ASSUME net' \subseteq net,
               \A q \in Host : (Running(q)' => Running(q)) /\ (established'[q] => established[q])
        PROVE  ClaimInv'
    BY <1>2, <1>4 DEF ClaimInv, Claims
  <1>5. CASE HelloTick(p)
    <2>1. net' \subseteq net \cup {Hello(p)} /\ UNCHANGED hostVars
      BY <1>5, PostedAdds DEF HelloTick
    <2>2. \A q : Running(q)' = Running(q)
      BY <2>1 DEF hostVars, Running
    <2>3. ~established[p] /\ Running(p) /\ established' = established
      BY <1>5, <2>1 DEF HelloTick, hostVars
    <2>4. /\ Hello(p).session = p /\ Hello(p).type = "Hello" /\ Hello(p).from = AddrOf[p]
      BY DEF Hello, FromHost
    <2>5. \A q \in Host : Claims(q)' => Claims(q)
      BY <2>1, <2>2, <2>3, <2>4 DEF Claims
    <2>6. \A m \in net', q \in Host :
              m.type = "Hello" /\ Running(q) /\ AddrOf[q] = m.from => q = m.session
      BY <2>1, <2>3, <2>4 DEF ClaimInv, AudioInv, AloneInv
    <2> QED
      BY <1>2, <2>2, <2>5, <2>6 DEF ClaimInv
  <1>6. CASE HostStart(p)
    <2>1. net' = net /\ established' = established
          /\ \A q \in Host : Running(q)' => Running(q) \/ q = p
      BY <1>1, <1>6 DEF HostStart, Running
    <2>2. \A m \in net : (m.to = VmAddr /\ m.from = AddrOf[p]) \/ m.to = AddrOf[p]
                         => m.type = "Speaker"
      BY <1>6 DEF Prompt
    <2>3. ~Claims(p)'
      <3>1. ~established[p]
        BY <1>6 DEF HostStart, AudioInv, AloneInv, Running
      <3>2. \A m \in net : m.session = p /\ m.type = "HelloAck" => m.to = AddrOf[p]
        BY DEF AudioInv, Addressed
      <3> QED
        BY <2>1, <2>2, <3>1, <3>2 DEF Claims
    <2>4. \A q \in Host : q # p /\ Claims(q)' => Claims(q)
      BY <2>1 DEF Claims
    <2>5. \A m \in net : m.type = "Hello" => m.from # AddrOf[p]
      <3>1. \A m \in net : m.type = "Hello" => m.to = VmAddr
        BY DEF AudioInv, TypeInv, TypeOK, WireTypeOK, ForVm, ForHosts
      <3> QED
        BY <2>2, <3>1
    <2> QED
      BY <1>2, <2>1, <2>3, <2>4, <2>5 DEF ClaimInv
  <1>7. CASE PingTick(p) \/ SendMic(p)
    BY <1>3, <1>7, PostedAdds DEF PingTick, SendMic, Ping, FromHost, Mic, hostVars, Running
  <1>8. CASE HostStop(p)
    <2>1. net' \subseteq net \cup {HostBye(p)}
      BY <1>8, PostedAdds DEF HostStop
    <2> QED
      BY <1>1, <1>3, <1>8, <2>1 DEF HostStop, Gone, HostBye, FromHost, Running
  <1>9. CASE LinkLost(p) \/ SpeakerReopened(p) \/ HostQuiet(p) \/ HostCrash(p)
    BY <1>1, <1>4, <1>9 DEF LinkLost, SpeakerReopened, HostQuiet, HostCrash, Gone, Running
  <1> QED
    BY <1>5, <1>6, <1>7, <1>8, <1>9 DEF HostStep

\* A host is up when an ack told it so, and the ack holds a claim for it.
LEMMA HostReceiveClaims ==
    ASSUME AudioInv, ClaimInv, NEW p \in Host, NEW m \in net, HostReceive(p, m),
           UNCHANGED vmVars
    PROVE  ClaimInv'
  <1>1. established \in [Host -> BOOLEAN]
    BY DEF AudioInv, TypeInv, TypeOK, HostTypeOK
  <1>2. \A q : Serves(q)' = Serves(q) /\ Running(q)' = Running(q)
    BY DEF Serves, HasSession, vmVars, HostReceive, RecvSpeaker, RecvAccept, RecvReject,
           RecvVmBye, RecvSignOfLife, Receive, Running
  <1>3. net' \subseteq net
    BY DEF HostReceive, RecvSpeaker, RecvAccept, RecvReject, RecvVmBye, RecvSignOfLife,
           Receive, After
  <1>4. \A q \in Host : Claims(q)' => Claims(q)
    <2>1. CASE RecvAccept(p, m)
      <3>1. Claims(p)
        BY <2>1 DEF RecvAccept, Receive, Mine, Claims
      <3>2. \A q \in Host \ {p} : established'[q] = established[q]
        BY <1>1, <2>1 DEF RecvAccept
      <3> QED
        BY <1>2, <1>3, <3>1, <3>2 DEF Claims
    <2>2. CASE ~RecvAccept(p, m)
      <3>1. \A q \in Host : established'[q] => established[q]
        BY <1>1, <2>2
        DEF HostReceive, RecvSpeaker, RecvReject, RecvVmBye, RecvSignOfLife
      <3> QED
        BY <1>2, <1>3, <3>1 DEF Claims
    <2> QED
      BY <2>1, <2>2
  <1> QED
    BY <1>2, <1>3, <1>4 DEF ClaimInv

\* Claims are kept, or nobody has one: the VM ends a session that is fresh only
\* at the word of its host, which is gone then, or when it ends itself.
LEMMA VmStepClaims ==
    ASSUME AudioInv, ClaimInv, Prompt, VmStep, UNCHANGED hostVars
    PROVE  ClaimInv'
  <1>1. \A q : Running(q)' = Running(q)
    BY DEF hostVars, Running
  <1>2. \A q : Claims(q)' => Claims(q)
    BY <1>1, VmStepSendsNoAck DEF Claims, NoHelloSent, hostVars
  <1>3. \A m \in net', q \in Host :
            m.type = "Hello" /\ Running(q)' /\ AddrOf[q] = m.from => q = m.session
    BY <1>1, VmStepSendsNoAck DEF ClaimInv, NoHelloSent
  <1>4. ASSUME NEW q \in Host, Claims(q)
        PROVE  Serves(q)'
    <2>1. Serves(q)
      BY <1>4 DEF ClaimInv
    <2>2. HasSession => session \in Sessions /\ vmUp /\ session.peer = AddrOf[session.id]
      BY SessionType DEF AudioInv, TypeInv, TypeOK, LeaseInv, Owned
    <2>3. CASE VmStart
      BY <1>4, <2>3 DEF Prompt, Claims
    <2>4. CASE VmQuiet
      <3>1. session.peer = AddrOf[q]
        BY <2>1, <2>2, <2>4 DEF VmQuiet, Serves
      <3>2. \A m \in net : m.to \in {VmAddr, AddrOf[q]} => m.type = "Speaker"
        BY <2>4, <3>1 DEF Prompt
      <3>3. \A m \in net : m.type = "Hello" => m.to = VmAddr
        BY DEF AudioInv, TypeInv, TypeOK, WireTypeOK, ForVm, ForHosts
      <3>4. \A m \in net : m.type = "HelloAck" /\ m.session = q => m.to = AddrOf[q]
        BY DEF AudioInv, Addressed
      <3> QED
        BY <1>4, <3>2, <3>3, <3>4 DEF Claims
    <2>5. CASE Sweep
      BY <2>1, <2>2, <2>5 DEF Sweep, Serves
    <2>6. CASE VmStop \/ VmCrash
      BY <2>6 DEF VmStop, VmCrash, VmGone, Serves
    <2>7. CASE SendSpeaker \/ RenderReopened
      <3>1. /\ HasSession /\ vmUp' = vmUp
            /\ session' \in Sessions /\ session'.id = session.id
            /\ session'.fresh = session.fresh
        BY <2>2, <2>7, NextSeqType, DeafType DEF SendSpeaker, RenderReopened, Sessions
      <3>2. HasSession'
        BY <3>1, SomeSession DEF HasSession
      <3> QED
        BY <2>1, <3>1, <3>2 DEF Serves
    <2>8. CASE Capture \/ DropSpeaker
      BY <2>1, <2>8 DEF Capture, DropSpeaker, Serves, HasSession
    <2> QED
      BY <2>3, <2>4, <2>5, <2>6, <2>7, <2>8 DEF VmStep
  <1> QED
    BY <1>2, <1>3, <1>4 DEF ClaimInv

LEMMA VmReceiveClaims ==
    ASSUME AudioInv, ClaimInv, NEW m \in net, VmReceive(m), UNCHANGED hostVars
    PROVE  ClaimInv'
  <1>1. \A q : Running(q)' = Running(q) /\ established' = established
    BY DEF hostVars, Running
  <1>2. \A n \in net', q \in Host :
            n.type = "Hello" /\ Running(q)' /\ AddrOf[q] = n.from => q = n.session
    BY <1>1, VmAnswersHello DEF ClaimInv, NoHelloSent, HelloAck
  <1>3. ASSUME NEW q \in Host, Claims(q)', ~Claims(q)
        PROVE  q = m.session /\ (KeepSession(m) \/ OpenSession(m))
    <2>1. PICK n \in net' :
              /\ n.session = q
              /\ \/ n.type = "Hello" /\ established[q]
                 \/ n.type = "HelloAck" /\ n.status = "Ok"
      BY <1>1, <1>3 DEF Claims
    <2>2. n \notin net
      BY <1>1, <1>3, <2>1 DEF Claims
    <2>3. PICK status :
              /\ net' \subseteq net \cup {HelloAck(m.session, m.from, status)}
              /\ status = "Ok" => KeepSession(m) \/ OpenSession(m)
      BY <2>1, <2>2, VmAnswersHello DEF NoHelloSent
    <2>4. n = HelloAck(m.session, m.from, status)
      BY <2>2, <2>3
    <2> QED
      BY <2>1, <2>3, <2>4 DEF HelloAck
  <1>4. HasSession => session \in Sessions
    BY SessionType DEF AudioInv, TypeInv, TypeOK
  <1>5. CASE OpenSession(m)
    <2>1. \A q \in Host : ~Claims(q)
      BY <1>5, NoClaimOpens DEF OpenSession
    <2>2. m.session \in Host /\ session' \in Sessions
      BY <1>5, OpenedType, TakenType
      DEF OpenSession, MayOpen, IsHello, AudioInv, TypeInv, TypeOK
    <2>3. Serves(m.session)'
      BY <1>5, <2>2, SomeSession DEF OpenSession, Serves, HasSession
    <2> QED
      BY <1>2, <1>3, <2>1, <2>3 DEF ClaimInv
  <1>6. CASE \E failing \in SpawnFails : FailSession(m, failing)
    <2>1. \A q \in Host : ~Claims(q)
      BY <1>6, NoClaimOpens DEF FailSession
    <2>2. ~KeepSession(m) /\ ~OpenSession(m)
      <3>1. MayOpen(m) /\ ~Unchanged(m) /\ session' = NoSession
        BY <1>6 DEF FailSession
      <3>2. OpenSession(m) => session' \in Sessions
        BY OpenedType DEF AudioInv, TypeInv, TypeOK
      <3> QED
        BY <3>1, <3>2, SomeSession DEF KeepSession
    <2> QED
      BY <1>2, <1>3, <2>1, <2>2 DEF ClaimInv
  <1>7. CASE KeepSession(m) \/ RecvMic(m) \/ RecvPing(m)
    <2>1. HasSession /\ vmUp' = vmUp
      BY <1>7 DEF KeepSession, Unchanged, RecvMic, RecvPing, FromOwner
    <2>2. session' \in Sessions /\ session'.id = session.id /\ session'.fresh
      <3>1. CASE KeepSession(m) \/ RecvPing(m)
        BY <1>4, <2>1, <3>1 DEF KeepSession, RecvPing, Sessions
      <3>2. CASE RecvMic(m)
        <4>1. m \in Datagrams /\ session.rx \in Receivers
          BY <1>4, <2>1, <3>2, TakenType DEF RecvMic, AudioInv, TypeInv, TypeOK, Sessions
        <4>2. Hears(session.rx, m) \in Receivers
          BY <3>2, <4>1, HearsType DEF RecvMic
        <4> QED
          BY <1>4, <2>1, <3>2, <4>2 DEF RecvMic, Sessions
      <3> QED
        BY <1>7, <3>1, <3>2
    <2>3. HasSession'
      BY <2>2, SomeSession DEF HasSession
    <2>4. \A q \in Host : Claims(q) => Serves(q)'
      BY <2>1, <2>2, <2>3 DEF ClaimInv, Serves
    <2>5. KeepSession(m) => Serves(m.session)'
      BY <2>2, <2>3 DEF KeepSession, Unchanged, Serves
    <2>6. ~OpenSession(m)
      BY <1>7 DEF KeepSession, RecvMic, RecvPing, OpenSession, MayOpen, IsHello
    <2> QED
      BY <1>2, <1>3, <2>4, <2>5, <2>6 DEF ClaimInv
  <1>8. CASE RecvHostBye(m)
    <2>1. m.session = session.id /\ m.session \in Ended /\ HasSession /\ m.type = "Bye"
      BY <1>8 DEF RecvHostBye, FromOwner, AudioInv, LeaseInv, Authored, Take
    <2>2. vmUp
      BY <1>8 DEF RecvHostBye, Take
    <2>3. \A q \in Host : ~Claims(q)
      BY <2>1, <2>2 DEF ClaimInv, Serves, Claims, Running, Ended
    <2>4. ~KeepSession(m) /\ ~OpenSession(m)
      BY <2>1 DEF KeepSession, OpenSession, MayOpen, IsHello
    <2> QED
      BY <1>2, <1>3, <2>3, <2>4 DEF ClaimInv
  <1>9. CASE RefuseToken(m) \/ RefuseFormat(m) \/ RefuseBusy(m) \/ RecvForeign(m)
    <2>1. UNCHANGED vmVars
      BY <1>9 DEF RefuseToken, RefuseFormat, RefuseBusy, RecvForeign, Refuse
    <2>2. \A q : Serves(q)' = Serves(q)
      BY <2>1 DEF Serves, HasSession, vmVars
    <2>3. ~KeepSession(m) /\ ~OpenSession(m)
      BY <1>9 DEF RefuseToken, RefuseFormat, RefuseBusy, RecvForeign, KeepSession,
                  OpenSession, MayOpen, IsHello
    <2> QED
      BY <1>2, <1>3, <2>2, <2>3 DEF ClaimInv
  <1> QED
    BY <1>5, <1>6, <1>7, <1>8, <1>9 DEF VmReceive, HandleHello

LEMMA LoseClaims ==
    ASSUME ClaimInv, net' \subseteq net, UNCHANGED <<hostVars, vmVars>>
    PROVE  ClaimInv'
  <1>1. \A q : /\ Serves(q)' = Serves(q) /\ Running(q)' = Running(q)
               /\ established' = established
    BY DEF Serves, HasSession, vmVars, hostVars, Running
  <1> QED
    BY <1>1 DEF ClaimInv, Claims

-----------------------------------------------------------------------------
(* SpeakerLateMeansPlayed: the numbering *)

\* The session, if there is one still, sends on where it was.
SendsOn ==
    HasSession' => HasSession /\ session'.id = session.id /\ session'.seq = session.seq

\* Then a stream that only gets thinner stays one, ...
LEMMA StreamKept ==
    ASSUME OneStream, Speakers' \subseteq Speakers, UNCHANGED spkSent, SendsOn
    PROVE  OneStream'
  <1>1. \A m, n \in Speakers' : m.session = n.session /\ m.nth - m.seq = n.nth - n.seq
    BY DEF OneStream
  <1>2. HasSession' => \A m \in Speakers' :
            m.session = session'.id /\ m.nth - m.seq = spkSent' + 1 - session'.seq
    BY DEF OneStream, SendsOn
  <1> QED
    BY <1>1, <1>2 DEF OneStream

\* ... and who followed it still does, or has nothing to follow.
LEMMA FollowsKept ==
    ASSUME NEW p \in Host, Follows(p), Speakers' \subseteq Speakers, UNCHANGED spkSent,
           SendsOn,
           \/ speaker'[p] = Deaf
           \/ ~established'[p]
           \/ established[p] /\ speaker'[p] = speaker[p]
    PROVE  Follows(p)'
  <1>1. CASE speaker'[p] = Deaf \/ ~established'[p]
    BY <1>1 DEF Follows, Deaf
  <1>2. CASE established[p] /\ speaker'[p] = speaker[p] /\ speaker[p].expected # NoSeq
    <2>1. PICK k \in speaker[p].taken :
              /\ \A m \in Speakers :
                    m.session = p => m.nth - m.seq = k + 1 - speaker[p].expected
              /\ SessionOf(p) => spkSent + 1 - session.seq = k + 1 - speaker[p].expected
      BY <1>2 DEF Follows
    <2>2. SessionOf(p)' =>
              SessionOf(p) /\ spkSent' + 1 - session'.seq = spkSent + 1 - session.seq
      BY DEF SessionOf, SendsOn
    <2> QED
      BY <1>2, <2>1, <2>2 DEF Follows
  <1> QED
    BY <1>1, <1>2 DEF Follows

LEMMA HostNumbering ==
    ASSUME AudioInv, PlaybackInv, NEW p \in Host, HostStep(p), UNCHANGED vmVars
    PROVE  OneStream' /\ \A q \in Host : Follows(q)'
  <1>1. SendMic(p) => Speakers' \subseteq Speakers
    BY PostedAdds DEF SendMic, Mic, Speakers
  <1>2. Speakers' \subseteq Speakers
    BY <1>1, HostSendsMicOnly, StreamsThin
  <1>3. SendsOn /\ UNCHANGED spkSent
    BY DEF SendsOn, HasSession, vmVars
  <1>4. ASSUME NEW q \in Host
        PROVE  \/ speaker'[q] = Deaf
               \/ ~established'[q]
               \/ established[q] /\ speaker'[q] = speaker[q]
    <2>1. /\ established \in [Host -> BOOLEAN]
          /\ speaker \in [Host -> Receivers]
      BY DEF AudioInv, TypeInv, TypeOK, HostTypeOK
    <2>2. CASE HostStart(p) \/ HelloTick(p) \/ PingTick(p) \/ SendMic(p) \/ HostQuiet(p)
      BY <2>2 DEF HostStart, HelloTick, PingTick, SendMic, HostQuiet, hostVars
    <2>3. CASE LinkLost(p) \/ SpeakerReopened(p) \/ HostStop(p) \/ HostCrash(p)
      BY <2>1, <2>3 DEF LinkLost, SpeakerReopened, HostStop, HostCrash, Gone
    <2> QED
      BY <2>2, <2>3 DEF HostStep
  <1> QED
    BY <1>2, <1>3, <1>4, StreamKept, FollowsKept DEF PlaybackInv

\* The packet a host takes in is one it can count from.
LEMMA HostReceiveNumbering ==
    ASSUME MaxSpeaker < HalfSpace, AudioInv, PlaybackInv, NEW p \in Host, NEW m \in net,
           HostReceive(p, m), UNCHANGED vmVars
    PROVE  OneStream' /\ \A q \in Host : Follows(q)'
  <1>1. Speakers' \subseteq Speakers
    BY HostReceivesOnly, StreamsThin
  <1>2. SendsOn /\ UNCHANGED <<spkSent, session>>
    BY DEF SendsOn, HasSession, vmVars
  <1>3. /\ established \in [Host -> BOOLEAN]
        /\ speaker \in [Host -> Receivers]
    BY DEF AudioInv, TypeInv, TypeOK, HostTypeOK
  <1>4. ASSUME NEW q \in Host, ~(q = p /\ RecvSpeaker(p, m) /\ Admits(speaker[p], m))
        PROVE  Follows(q)'
    <2>1. \/ speaker'[q] = Deaf
          \/ ~established'[q]
          \/ established[q] /\ speaker'[q] = speaker[q]
      BY <1>3, <1>4
      DEF HostReceive, RecvSpeaker, RecvAccept, RecvReject, RecvVmBye, RecvSignOfLife,
          Hears
    <2> QED
      BY <1>1, <1>2, <2>1, FollowsKept DEF PlaybackInv
  <1>5. ASSUME RecvSpeaker(p, m), Admits(speaker[p], m)
        PROVE  Follows(p)'
    <2>1. m \in Speakers
      BY <1>5 DEF RecvSpeaker, Speakers
    <2>2. m.seq \in Nat /\ m.nth \in Nat /\ m.seq < m.nth /\ m.nth <= spkSent
      BY <2>1 DEF AudioInv, SpeakerInv, Numbered
    <2>3. m.seq + 1 \in Nat /\ m.seq + 1 < HalfSpace
      BY <2>2, VmAssumption, SeqSpaceAssumption DEF AudioInv, TypeInv, TypeOK, VmTypeOK
    <2>4. speaker'[p] = [expected |-> m.seq + 1, taken |-> speaker[p].taken \cup {m.nth}]
      BY <1>3, <1>5, <2>3, NoWrap DEF RecvSpeaker, Hears
    <2>5. speaker'[p].expected = m.seq + 1 /\ m.nth \in speaker'[p].taken
      BY <2>4
    <2>6. m.nth + 1 - (m.seq + 1) = m.nth - m.seq
      BY <2>2
    <2>7. \A n \in Speakers' : n.nth - n.seq = m.nth - m.seq
      BY <1>1, <2>1 DEF PlaybackInv, OneStream
    <2>8. SessionOf(p)' => spkSent' + 1 - session'.seq = m.nth - m.seq
      BY <1>2, <2>1 DEF PlaybackInv, OneStream, SessionOf, HasSession
    <2> QED
      BY <2>5, <2>6, <2>7, <2>8 DEF Follows
  <1> QED
    BY <1>1, <1>2, <1>4, <1>5, StreamKept DEF PlaybackInv

\* The next packet continues the numbering of the one before.
LEMMA SendNumbering ==
    ASSUME MaxSpeaker < HalfSpace, AudioInv, PlaybackInv, SendSpeaker, UNCHANGED hostVars
    PROVE  OneStream' /\ \A q \in Host : Follows(q)'
  <1>1. HasSession /\ session \in Sessions /\ spkSent' = spkSent + 1
    BY SpeakerNumbers DEF SendSpeaker
  <1>2. /\ spkSent \in Nat /\ session.seq \in Nat /\ session.seq <= spkSent
        /\ spkSent + 1 < HalfSpace
    BY <1>1, SpeakerNumbers, VmAssumption, SeqSpaceAssumption
    DEF SendSpeaker, AudioInv, SpeakerInv
  <1>3. session.seq + 1 \in Nat /\ session.seq + 1 < HalfSpace
    BY <1>2, SeqSpaceAssumption
  <1>4. session'.id = session.id /\ session'.seq = session.seq + 1
    BY <1>1, <1>3, NoWrap DEF SendSpeaker, Sessions
  <1>5. spkSent' + 1 - session'.seq = spkSent + 1 - session.seq
    BY <1>1, <1>2, <1>4
  <1>6. ASSUME NEW m \in Speakers'
        PROVE  m.session = session.id /\ m.nth - m.seq = spkSent + 1 - session.seq
    <2>1. CASE m \in Speakers
      BY <1>1, <2>1 DEF PlaybackInv, OneStream
    <2>2. CASE m \notin Speakers
      <3>1. m = Speaker(session.id, session.peer, session.seq, spkSent + 1, Head(captured))
        BY <2>2, PostedAdds DEF SendSpeaker, Speakers
      <3>2. \A q, addr, seq, nth, f :
                /\ Speaker(q, addr, seq, nth, f).session = q
                /\ Speaker(q, addr, seq, nth, f).seq = seq
                /\ Speaker(q, addr, seq, nth, f).nth = nth
        BY DEF Speaker
      <3>3. m.session = session.id /\ m.seq = session.seq /\ m.nth = spkSent + 1
        BY <3>1, <3>2
      <3> QED
        BY <1>2, <3>3
    <2> QED
      BY <2>1, <2>2
  <1>7. session' \in Sessions
    <2>1. SeqOf(session.seq + 1) \in SeqNumbers
      BY <1>1, NextSeqType DEF Sessions
    <2> QED
      BY <1>1, <2>1 DEF SendSpeaker, Sessions
  <1>8. OneStream'
    <2>1. \A m \in Speakers' :
              m.session = session'.id /\ m.nth - m.seq = spkSent' + 1 - session'.seq
      BY <1>4, <1>5, <1>6
    <2>2. \A m, n \in Speakers' : m.session = n.session /\ m.nth - m.seq = n.nth - n.seq
      BY <1>6
    <2> QED
      BY <2>1, <2>2 DEF OneStream
  <1>9. ASSUME NEW q \in Host, established[q], speaker[q].expected # NoSeq
        PROVE  Follows(q)'
    <2>1. PICK k \in speaker[q].taken :
              /\ \A m \in Speakers :
                    m.session = q => m.nth - m.seq = k + 1 - speaker[q].expected
              /\ SessionOf(q) => spkSent + 1 - session.seq = k + 1 - speaker[q].expected
      BY <1>9 DEF PlaybackInv, Follows
    <2>2. session.id = q => SessionOf(q)
      BY <1>1 DEF SessionOf
    <2>3. \A m \in Speakers' : m.session = q => m.nth - m.seq = k + 1 - speaker[q].expected
      BY <1>6, <2>1, <2>2
    <2>4. SessionOf(q)' => spkSent' + 1 - session'.seq = k + 1 - speaker[q].expected
      BY <1>4, <1>5, <2>1, <2>2 DEF SessionOf
    <2> QED
      BY <2>1, <2>3, <2>4 DEF Follows, hostVars
  <1> QED
    BY <1>8, <1>9 DEF Follows, hostVars

\* A session opens on a stream of its own, for a host that is not up.
LEMMA OpenNumbering ==
    ASSUME AudioInv, PlaybackInv, Prompt, NEW m \in net, OpenSession(m),
           UNCHANGED hostVars
    PROVE  OneStream' /\ \A q \in Host : Follows(q)'
  <1>1. Speakers = {}
    BY DEF Prompt, Speakers
  <1>2. VmReceive(m)
    BY DEF VmReceive, HandleHello
  <1>3. Speakers' = {}
    BY <1>1, <1>2, VmSendsSpeakerOnly, StreamsThin
  <1>4. session'.id = m.session
    BY DEF OpenSession
  <1>5. ~established[m.session] \/ m.session \notin Host
    <2>1. MayOpen(m) /\ ~Unchanged(m) /\ m.type = "Hello"
      BY DEF OpenSession, MayOpen, IsHello
    <2>2. m.session \in Host /\ established[m.session] => Claims(m.session)
      BY <2>1 DEF Claims, AudioInv, AloneInv
    <2> QED
      BY <2>1, <2>2, NoClaimOpens DEF PlaybackInv
  <1>6. ASSUME NEW q \in Host
        PROVE  Follows(q)'
    <2>1. CASE q = m.session
      BY <1>5, <2>1 DEF Follows, hostVars
    <2>2. CASE q # m.session /\ established[q] /\ speaker[q].expected # NoSeq
      <3>1. PICK k : k \in speaker[q].taken
        BY <2>2 DEF PlaybackInv, Follows
      <3>2. ~SessionOf(q)'
        BY <1>4, <2>2 DEF SessionOf
      <3> QED
        BY <1>3, <3>1, <3>2 DEF Follows, hostVars
    <2> QED
      BY <2>1, <2>2 DEF Follows, hostVars
  <1> QED
    BY <1>3, <1>6 DEF OneStream

LEMMA VmNumbering ==
    ASSUME AudioInv, PlaybackInv,
           (VmStep /\ ~SendSpeaker) \/ (\E m \in net : VmReceive(m) /\ ~OpenSession(m)),
           UNCHANGED hostVars
    PROVE  OneStream' /\ \A q \in Host : Follows(q)'
  <1>1. Speakers' \subseteq Speakers /\ UNCHANGED spkSent
    BY VmSendsSpeakerOnly, StreamsThin
  <1>2. SendsOn
    <2>1. HasSession => session \in Sessions
      BY SpeakerNumbers
    <2>2. CASE VmStep /\ ~SendSpeaker
      BY <2>1, <2>2
      DEF VmStep, VmStart, Capture, DropSpeaker, RenderReopened, VmQuiet, Sweep, VmStop,
          VmCrash, VmGone, SendsOn, HasSession, Sessions
    <2>3. ASSUME NEW m \in net, VmReceive(m), ~OpenSession(m)
          PROVE  SendsOn
      <3>1. CASE KeepSession(m) \/ RecvMic(m) \/ RecvPing(m)
        BY <2>1, <3>1 DEF KeepSession, Unchanged, RecvMic, RecvPing, FromOwner, SendsOn,
                          Sessions
      <3>2. CASE RefuseToken(m) \/ RefuseFormat(m) \/ RefuseBusy(m) \/ RecvForeign(m)
        BY <3>2 DEF RefuseToken, RefuseFormat, RefuseBusy, Refuse, RecvForeign, vmVars,
                    SendsOn, HasSession
      <3>3. CASE RecvHostBye(m) \/ \E failing \in SpawnFails : FailSession(m, failing)
        BY <3>3 DEF RecvHostBye, FailSession, SendsOn, HasSession
      <3> QED
        BY <2>3, <3>1, <3>2, <3>3 DEF VmReceive, HandleHello
    <2> QED
      BY <2>2, <2>3
  <1>3. \A q \in Host : Follows(q)'
    <2>1. speaker' = speaker /\ established' = established
      BY DEF hostVars
    <2> QED
      BY <1>1, <1>2, <2>1, FollowsKept DEF PlaybackInv
  <1> QED
    BY <1>1, <1>2, <1>3, StreamKept DEF PlaybackInv

-----------------------------------------------------------------------------
(* SpeakerLateMeansPlayed: the theorem *)

\* What AudioInv is made of holds whatever the link is like.
LEMMA AudioInvInvariant ==
    ASSUME MaxSpeaker < HalfSpace
    PROVE  Spec => []AudioInv
  BY TypeInvInvariant, LeaseInvInvariant, SpeakerInvInvariant, AloneInvInvariant,
     AddressedInvariant, PTL DEF AudioInv

\* The claims and the numbering are kept by the steps of a prompt link.
LEMMA PlaybackStep ==
    ASSUME MaxSpeaker < HalfSpace, AudioInv, PlaybackInv, Prompt, [Next]_vars
    PROVE  PlaybackInv'
  <1>1. ASSUME NEW p \in Host, HostStep(p), UNCHANGED vmVars
        PROVE  PlaybackInv'
    <2>1. ClaimInv'
      BY <1>1, HostClaims DEF PlaybackInv
    <2>2. OneStream' /\ \A q \in Host : Follows(q)'
      BY <1>1, HostNumbering
    <2> QED
      BY <2>1, <2>2 DEF PlaybackInv
  <1>2. ASSUME NEW p \in Host, NEW m \in net, HostReceive(p, m), UNCHANGED vmVars
        PROVE  PlaybackInv'
    <2>1. ClaimInv'
      BY <1>2, HostReceiveClaims DEF PlaybackInv
    <2>2. OneStream' /\ \A q \in Host : Follows(q)'
      BY <1>2, HostReceiveNumbering
    <2> QED
      BY <2>1, <2>2 DEF PlaybackInv
  <1>3. ASSUME VmStep, UNCHANGED hostVars
        PROVE  PlaybackInv'
    <2>1. ClaimInv'
      BY <1>3, VmStepClaims DEF PlaybackInv
    <2>2. OneStream' /\ \A q \in Host : Follows(q)'
      BY <1>3, SendNumbering, VmNumbering
    <2> QED
      BY <2>1, <2>2 DEF PlaybackInv
  <1>4. ASSUME NEW m \in net, VmReceive(m), UNCHANGED hostVars
        PROVE  PlaybackInv'
    <2>1. ClaimInv'
      BY <1>4, VmReceiveClaims DEF PlaybackInv
    <2>2. OneStream' /\ \A q \in Host : Follows(q)'
      BY <1>4, OpenNumbering, VmNumbering
    <2> QED
      BY <2>1, <2>2 DEF PlaybackInv
  <1>5. ASSUME net' \subseteq net, UNCHANGED <<hostVars, vmVars>>
        PROVE  PlaybackInv'
    <2>1. ClaimInv'
      BY <1>5, LoseClaims DEF PlaybackInv
    <2>2. Speakers' \subseteq Speakers
      BY <1>5 DEF Speakers
    <2>3. SendsOn /\ UNCHANGED <<spkSent, speaker, established>>
      BY <1>5 DEF SendsOn, HasSession, vmVars, hostVars
    <2>4. OneStream'
      BY <2>2, <2>3, StreamKept DEF PlaybackInv
    <2>5. \A q \in Host : Follows(q)'
      <3>1. established \in [Host -> BOOLEAN]
        BY DEF AudioInv, TypeInv, TypeOK, HostTypeOK
      <3> QED
        BY <2>2, <2>3, <3>1, FollowsKept DEF PlaybackInv
    <2> QED
      BY <2>1, <2>4, <2>5 DEF PlaybackInv
  <1> QED
    BY <1>1, <1>2, <1>3, <1>4, <1>5 DEF Next, Lose, vars

\* A late packet has a number lower than the one its host expects next, which is
\* the number after that of a packet taken in, counted from the same offset.
LEMMA LateIsPlayed ==
    ASSUME MaxSpeaker < HalfSpace, AudioInv, PlaybackInv, NEW m \in net, NEW p \in Host,
           established[p], RecvSpeaker(p, m), ~Admits(speaker[p], m)
    PROVE  \E k \in speaker[p].taken : m.nth <= k
  <1>1. m \in Speakers /\ m.session = p
    BY DEF RecvSpeaker, Mine, Speakers
  <1>2. m.seq \in Nat /\ m.nth \in Nat /\ m.nth <= spkSent /\ m.seq < m.nth
    BY <1>1 DEF AudioInv, SpeakerInv, Numbered
  <1>3. /\ speaker[p].expected # NoSeq /\ speaker[p].expected \in Nat
        /\ speaker[p].expected <= spkSent
    BY SeqSpaceAssumption
    DEF Admits, AudioInv, TypeInv, TypeOK, HostTypeOK, Receivers, SeqNumbers, SeqMod,
        SpeakerInv, Remembers
  <1>4. spkSent \in Nat /\ spkSent < HalfSpace /\ HalfSpace \in Nat
    BY VmAssumption, SeqSpaceAssumption DEF AudioInv, TypeInv, TypeOK, VmTypeOK
  <1>5. m.seq < speaker[p].expected
    <2>1. m.seq < HalfSpace /\ speaker[p].expected < HalfSpace
      BY <1>2, <1>3, <1>4
    <2> QED
      BY <1>2, <1>3, <2>1, LateIsLower DEF Admits
  <1>6. PICK k \in speaker[p].taken : m.nth - m.seq = k + 1 - speaker[p].expected
    BY <1>1, <1>3 DEF PlaybackInv, Follows
  <1>7. k \in Nat
    BY SpeakerNumbers
  <1> QED
    BY <1>2, <1>3, <1>5, <1>6, <1>7

\* On a prompt link a host that is up drops as late only what it has played, or
\* what comes before it, with any number of hosts that share addresses, start
\* and stop, and any number of restarts of the VM agent, as long as it has not
\* used up half of the 2^32 numbers.
THEOREM OnlyPlayedIsLate ==
    ASSUME MaxSpeaker < HalfSpace
    PROVE  AudioSpec => SpeakerLateMeansPlayed
  <1> DEFINE PromptInv == prompt \in BOOLEAN /\ (prompt => PlaybackInv)
             Played == prompt' =>
                          \A m \in net, p \in Host :
                             established[p] /\ RecvSpeaker(p, m) /\ ~Admits(speaker[p], m)
                             => \E k \in speaker[p].taken : m.nth <= k
             AudioNext == Next /\ prompt' = (prompt /\ Prompt)
             audioVars == <<vars, prompt>>
  <1>1. prompt = TRUE /\ Init => PromptInv
    <2>1. Init => Speakers = {} /\ ~HasSession /\ \A p \in Host : ~established[p]
      BY DEF Init, HostInit, VmInit, Speakers, HasSession
    <2>2. Init => ClaimInv
      BY DEF Init, ClaimInv, Claims
    <2>3. Init => OneStream /\ \A p \in Host : Follows(p)
      BY <2>1 DEF OneStream, Follows
    <2> QED
      BY <2>2, <2>3 DEF PlaybackInv
  <1>2. AudioInv /\ PromptInv /\ [AudioNext]_audioVars => PromptInv'
    <2> SUFFICES ASSUME AudioInv, PromptInv, [AudioNext]_audioVars
                 PROVE  PromptInv'
      OBVIOUS
    <2>1. [Next]_vars /\ prompt' \in BOOLEAN
      BY Zenon DEF vars
    <2>2. CASE AudioNext
      <3>1. prompt' => prompt /\ Prompt
        BY <2>2
      <3> QED
        BY <2>1, <3>1, PlaybackStep
    <2>3. CASE UNCHANGED audioVars
      <3>1. UNCHANGED vars /\ prompt' = prompt
        BY <2>3
      <3>2. PlaybackInv' = PlaybackInv
        BY <3>1 DEF vars, hostVars, vmVars, PlaybackInv, ClaimInv, Claims, Serves, Running,
                    HasSession, OneStream, Speakers, Follows, SessionOf
      <3> QED
        BY <3>1, <3>2
    <2> QED
      BY <2>2, <2>3
  <1>3. AudioInv /\ PromptInv /\ [AudioNext]_audioVars => [Played]_vars
    <2> SUFFICES ASSUME AudioInv, PromptInv, AudioNext, prompt'
                 PROVE  Played
      BY DEF Played, vars
    <2>1. PlaybackInv
      BY Zenon
    <2> QED
      BY <2>1, LateIsPlayed
  <1>4. AudioSpec => Spec
    <2>1. [AudioNext]_audioVars => [Next]_vars
      BY DEF vars
    <2> QED
      BY <2>1, PTL DEF AudioSpec, Spec
  <1> QED
    BY <1>1, <1>2, <1>3, <1>4, AudioInvInvariant, PTL DEF AudioSpec, SpeakerLateMeansPlayed
=============================================================================
