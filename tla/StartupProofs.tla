--------------------------- MODULE StartupProofs ----------------------------
(***************************************************************************)
(* Who may stream, and that a stream is cut at whole packets, for every    *)
(* pair of configurations.                                                 *)
(***************************************************************************)
EXTENDS Startup, TLAPS

-----------------------------------------------------------------------------
(* Packets *)

\* A packet of a valid format is a whole number of frames.
LEMMA FramesType ==
    ASSUME NEW format, Valid(format)
    PROVE  FramesPerPacket(format) \in Nat /\ format.channels \in {1, 2}
  <1>1. format.rate \in Nat /\ format.frameMs \in Nat
    BY DEF Valid, SupportedRates
  <1>2. format.rate * format.frameMs \in Nat
    BY <1>1
  <1> QED
    BY <1>2 DEF Valid, FramesPerPacket

\* A packet that does not fit the buffer ends within a sample, because the
\* header is of odd length and the buffer of even: what decodes was not cut,
\* and is taken apart into the frames it was put together from.
LEMMA WhatDecodesIsWhole ==
    ASSUME NEW format, Valid(format),
           DecodesAudio(Received(AudioLen(PayloadLen(format))))
    PROVE  FramesReceived(Received(AudioLen(PayloadLen(format))), format)
               = FramesPerPacket(format)
  <1> DEFINE frames == FramesPerPacket(format)
             len == AudioLen(PayloadLen(format))
  <1>1. frames \in Nat /\ format.channels \in {1, 2}
    BY FramesType
  <1>2. AudioHeaderLen = 17
    BY DEF AudioHeaderLen, HeaderLen
  <1>3. len = 17 + frames * format.channels * 2
    BY <1>2 DEF AudioLen, PayloadLen
  <1> HIDE DEF frames
  <1>4. Received(len) = len
    <2>1. CASE len <= MaxPacket
      BY <2>1 DEF Received, Smaller
    <2>2. CASE ~(len <= MaxPacket)
      <3>1. Received(len) = 4096
        BY <2>2 DEF Received, Smaller, MaxPacket
      <3> QED
        BY <1>2, <3>1 DEF DecodesAudio
    <2> QED
      BY <2>1, <2>2
  <1>5. CASE format.channels = 1
    <2>1. len - 17 = frames * 2
      BY <1>1, <1>3, <1>5
    <2>2. (frames * 2) \div 2 = frames /\ frames \div 1 = frames
      BY <1>1
    <2> QED
      BY <1>2, <1>4, <1>5, <2>1, <2>2 DEF FramesReceived, frames
  <1>6. CASE format.channels = 2
    <2>1. len - 17 = frames * 2 * 2
      BY <1>1, <1>3, <1>6
    <2>2. (frames * 2 * 2) \div 2 = frames * 2 /\ (frames * 2) \div 2 = frames
      BY <1>1
    <2> QED
      BY <1>2, <1>4, <1>6, <2>1, <2>2 DEF FramesReceived, frames
  <1> QED
    BY <1>1, <1>5, <1>6

-----------------------------------------------------------------------------
(* The inductive invariant *)

Checked == HostValid(hostCfg) /\ hostCfg.handshakeMs # 0

Agreed ==
    /\ Checked
    /\ VmValid(vmCfg)
    /\ SentToken(hostCfg.token) = vmCfg.token

\* Whatever is under way was sent by somebody entitled to send it.
WireInv ==
    wire # Nothing =>
        /\ wire.type = "Hello" =>
              Checked /\ wire.token = SentToken(hostCfg.token)
        /\ wire.type = "HelloAck" /\ wire.status = "Ok" => Agreed
        /\ \A dir \in Directions : wire.type = dir =>
              Agreed /\ wire.len = AudioLen(PayloadLen(FormatOf(dir)))

HeardInv ==
    /\ heard = [dir \in Directions |-> heard[dir]]
    /\ \A dir \in Directions : heard[dir] # Nothing =>
          Agreed /\ heard[dir] = FramesPerPacket(FormatOf(dir))

StartInv ==
    /\ host \in {"loaded", "running"} => HostValid(hostCfg)
    /\ host = "running" => Checked
    /\ vm = "running" => VmValid(vmCfg)
    /\ session # Nothing => Agreed
    /\ established => Agreed
    /\ WireInv
    /\ HeardInv

Settings == UNCHANGED <<hostCfg, vmCfg>>

LEMMA SettingsStay ==
    ASSUME Settings
    PROVE  /\ Checked' = Checked /\ Agreed' = Agreed
           /\ HostValid(hostCfg)' = HostValid(hostCfg)
           /\ VmValid(vmCfg)' = VmValid(vmCfg)
           /\ \A dir : FormatOf(dir)' = FormatOf(dir)
  BY DEF Settings, Checked, Agreed, FormatOf

LEMMA InitStarts == Init => StartInv
  BY DEF Init, StartInv, WireInv, HeardInv

LEMMA LoadKeeps ==
    ASSUME StartInv, LoadHost \/ LoadVm \/ RunHost
    PROVE  StartInv'
  <1>1. Settings /\ UNCHANGED <<wire, session, established, heard>>
    BY DEF LoadHost, LoadVm, RunHost, Settings
  <1>2. WireInv'
    <2>1. SentToken(hostCfg.token)' = SentToken(hostCfg.token)
      BY <1>1 DEF Settings
    <2> QED
      BY <1>1, <2>1, SettingsStay DEF StartInv, WireInv
  <1>3. HeardInv'
    BY <1>1, SettingsStay DEF StartInv, HeardInv
  <1> QED
    BY <1>1, <1>2, <1>3, SettingsStay DEF StartInv, LoadHost, LoadVm, RunHost, Checked

LEMMA HelloKeeps ==
    ASSUME StartInv, SendHello
    PROVE  StartInv'
  <1>1. Settings /\ UNCHANGED <<host, vm, session, established, heard>>
    BY DEF SendHello, Settings
  <1>2. WireInv'
    BY <1>1, SettingsStay DEF SendHello, StartInv, WireInv, Directions, Settings
  <1>3. HeardInv'
    BY <1>1, SettingsStay DEF StartInv, HeardInv
  <1> QED
    BY <1>1, <1>2, <1>3, SettingsStay DEF StartInv

\* An Ok is the answer of a VM that runs to the token of a host that runs.
LEMMA AnswerKeeps ==
    ASSUME StartInv, AnswerHello
    PROVE  StartInv'
  <1>1. Settings /\ UNCHANGED <<host, vm, established, heard>>
    BY DEF AnswerHello, Settings
  <1>2. StatusFor(wire.token) = "Ok" => Agreed
    BY DEF AnswerHello, StatusFor, TokenMatches, StartInv, WireInv, Agreed
  <1>3. WireInv'
    BY <1>1, <1>2, SettingsStay DEF AnswerHello, WireInv, Directions
  <1>4. session' # Nothing => Agreed
    BY <1>2 DEF AnswerHello, StartInv
  <1>5. HeardInv'
    BY <1>1, SettingsStay DEF StartInv, HeardInv
  <1> QED
    BY <1>1, <1>3, <1>4, <1>5, SettingsStay DEF StartInv

LEMMA AckKeeps ==
    ASSUME StartInv, HearAck
    PROVE  StartInv'
  <1>1. Settings /\ UNCHANGED <<host, vm, session, heard>>
    BY DEF HearAck, Settings
  <1>2. WireInv' /\ (established' => Agreed)
    BY DEF HearAck, StartInv, WireInv
  <1>3. HeardInv'
    BY <1>1, SettingsStay DEF StartInv, HeardInv
  <1> QED
    BY <1>1, <1>2, <1>3, SettingsStay DEF StartInv

LEMMA AudioKeeps ==
    ASSUME StartInv, NEW dir \in Directions, SendAudio(dir) \/ HearAudio(dir)
    PROVE  StartInv'
  <1>1. Settings /\ UNCHANGED <<host, vm, session, established>>
    BY DEF SendAudio, HearAudio, Settings
  <1>2. CASE SendAudio(dir)
    <2>1. Agreed
      BY <1>2 DEF SendAudio, StartInv
    <2>2. WireInv'
      BY <1>1, <1>2, <2>1, SettingsStay DEF SendAudio, WireInv, Directions
    <2>3. HeardInv'
      BY <1>1, <1>2, SettingsStay DEF SendAudio, StartInv, HeardInv
    <2> QED
      BY <1>1, <2>2, <2>3, SettingsStay DEF StartInv
  <1>3. CASE HearAudio(dir)
    <2>1. Agreed /\ wire.len = AudioLen(PayloadLen(FormatOf(dir)))
      BY <1>3 DEF HearAudio, StartInv, WireInv
    <2>2. Valid(FormatOf(dir))
      BY <2>1 DEF Agreed, Checked, HostValid, FormatOf
    <2>3. \/ heard' = heard
          \/ heard' = [heard EXCEPT ![dir] = FramesPerPacket(FormatOf(dir))]
      BY <1>3, <2>1, <2>2, WhatDecodesIsWhole DEF HearAudio
    <2>4. HeardInv'
      BY <1>1, <2>1, <2>3, SettingsStay DEF StartInv, HeardInv
    <2>5. WireInv'
      BY <1>3 DEF HearAudio, WireInv
    <2> QED
      BY <1>1, <2>4, <2>5, SettingsStay DEF StartInv
  <1> QED
    BY <1>2, <1>3

LEMMA StartInvInvariant == Spec => []StartInv
  <1>1. StartInv /\ UNCHANGED vars => StartInv'
    BY DEF vars, StartInv, WireInv, HeardInv, Checked, Agreed, FormatOf
  <1>2. StartInv /\ [Next]_vars => StartInv'
    BY <1>1, LoadKeeps, HelloKeeps, AnswerKeeps, AckKeeps, AudioKeeps DEF Next
  <1> QED
    BY <1>2, InitStarts, PTL DEF Spec

-----------------------------------------------------------------------------
(* Types *)

LEMMA SentTokenType ==
    ASSUME NEW cfg \in HostConfigs
    PROVE  SentToken(cfg.token).len \in 0 .. MaxField
  <1>1. "len" \in DOMAIN cfg.token /\ cfg.token.len \in Nat
    BY StartupAssumption
  <1>2. SentToken(cfg.token).len = Cut(cfg.token.len)
    BY <1>1 DEF SentToken
  <1>3. MaxField \in Nat
    BY DEF MaxField
  <1> QED
    BY <1>1, <1>2, <1>3 DEF Cut, Smaller

LEMMA TypeKeeps ==
    ASSUME TypeOK, StartInv, Next
    PROVE  TypeOK'
  <1>1. UNCHANGED <<hostCfg, vmCfg>>
    BY DEF Next, LoadHost, LoadVm, RunHost, SendHello, AnswerHello, HearAck, SendAudio,
           HearAudio
  <1>2. CASE LoadHost \/ LoadVm \/ RunHost
    BY <1>2 DEF LoadHost, LoadVm, RunHost, TypeOK, Places
  <1>3. CASE SendHello
    <2>1. wire'.type = "Hello" /\ wire'.token = SentToken(hostCfg.token)
      BY <1>3 DEF SendHello
    <2>2. wire'.token.len \in 0 .. MaxField
      BY <2>1, SentTokenType DEF TypeOK
    <2> QED
      BY <1>3, <2>1, <2>2 DEF SendHello, TypeOK
  <1>4. CASE AnswerHello
    <2>1. wire' = Nothing \/ wire'.type = "HelloAck"
      BY <1>4 DEF AnswerHello
    <2>2. session' = session \/ session' = hostCfg.format
      BY <1>4 DEF AnswerHello
    <2>3. DOMAIN hostCfg.format = Directions
      BY StartupAssumption DEF TypeOK, Directions
    <2> QED
      BY <1>4, <2>1, <2>2, <2>3 DEF AnswerHello, TypeOK
  <1>5. CASE HearAck
    BY <1>5 DEF HearAck, TypeOK
  <1>6. ASSUME NEW dir \in Directions, SendAudio(dir)
        PROVE  TypeOK'
    BY <1>6 DEF SendAudio, TypeOK
  <1>7. ASSUME NEW dir \in Directions, HearAudio(dir)
        PROVE  TypeOK'
    <2>1. wire # Nothing /\ wire.type = dir /\ wire' = Nothing
      BY <1>7 DEF HearAudio
    <2>2. Agreed /\ wire.len = AudioLen(PayloadLen(FormatOf(dir)))
      BY <2>1 DEF StartInv, WireInv
    <2>3. Valid(FormatOf(dir))
      BY <2>2 DEF Agreed, Checked, HostValid, FormatOf
    <2>4. \/ heard' = heard
          \/ heard' = [heard EXCEPT ![dir] = FramesPerPacket(FormatOf(dir))]
      BY <1>7, <2>2, <2>3, WhatDecodesIsWhole DEF HearAudio
    <2>5. FramesPerPacket(FormatOf(dir)) \in Nat
      BY <2>3, FramesType
    <2>6. heard = [d \in Directions |-> heard[d]]
      BY DEF StartInv, HeardInv
    <2>7. \A d \in Directions : heard'[d] = Nothing \/ heard'[d] \in Nat
      BY <2>4, <2>5, <2>6 DEF TypeOK
    <2> QED
      BY <1>7, <2>1, <2>7 DEF HearAudio, TypeOK
  <1> QED
    BY <1>2, <1>3, <1>4, <1>5, <1>6, <1>7 DEF Next

-----------------------------------------------------------------------------
(* The theorems *)

\* The state is typed, for every set of configurations.
THEOREM StartupTypeCorrect == Spec => []TypeOK
  <1>1. Init => TypeOK
    BY DEF Init, TypeOK, Places
  <1>2. TypeOK /\ StartInv /\ [Next]_vars => TypeOK'
    BY TypeKeeps DEF TypeOK, vars
  <1> QED
    BY <1>1, <1>2, StartInvInvariant, PTL DEF Spec

\* For every format that validates, the largest included, a receiver pushes
\* whole packets or nothing, though recv cuts off what does not fit its buffer.
THEOREM StreamsAreWhole == Spec => []WholeOrNothing
  <1>1. StartInv => WholeOrNothing
    BY DEF StartInv, HeardInv, WholeOrNothing
  <1> QED
    BY <1>1, StartInvInvariant, PTL

\* For every pair of configurations, nothing streams unless both validate and
\* the token that was sent is the VM's.
THEOREM OnlyCompatibleStream == Spec => []OnlyCompatible
  <1>1. StartInv => OnlyCompatible
    BY DEF StartInv, HeardInv, OnlyCompatible, Agreed, Checked
  <1> QED
    BY <1>1, StartInvInvariant, PTL
=============================================================================
