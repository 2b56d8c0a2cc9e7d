------------------------------ MODULE Startup ------------------------------
(***************************************************************************)
(* From two configurations to two streams: which pairs of configurations   *)
(* the agents accept, which come up, and whose audio is heard.             *)
(*                                                                         *)
(* The network is the reliable one of a link that works: what it loses and *)
(* reorders, and what is sent again, is the matter of Bridge.              *)
(***************************************************************************)
EXTENDS WireFormat

CONSTANTS
    HostConfigs,    \* the configurations of the host agent
    VmConfigs,      \* those of the VM agent
    Nothing         \* no datagram, no session, no packet

VARIABLES
    hostCfg, vmCfg,
    host, vm,       \* where each main is
    wire,           \* the datagram under way
    session,        \* VM: the formats of the session
    established,    \* host: an Ok was received
    heard           \* the last packet each end pushed, in frames

vars == <<hostCfg, vmCfg, host, vm, wire, session, established, heard>>

\* What toml deserializes: a format of each direction and a token of some length.
ASSUME StartupAssumption ==
    \A cfg \in HostConfigs :
        /\ DOMAIN cfg.format = {"Mic", "Speaker"}
        /\ "len" \in DOMAIN cfg.token /\ cfg.token.len \in Nat

Places == {"loading", "loaded", "refused", "panicked", "running"}
Directions == {"Mic", "Speaker"}

TypeOK ==
    /\ hostCfg \in HostConfigs /\ vmCfg \in VmConfigs
    /\ host \in Places /\ vm \in Places
    /\ \/ wire = Nothing
       \/ wire.type = "Hello" /\ wire.token.len \in 0 .. MaxField
       \/ wire.type \in {"HelloAck"} \cup Directions
    /\ session = Nothing \/ DOMAIN session = Directions
    /\ established \in BOOLEAN
    /\ \A dir \in Directions : heard[dir] = Nothing \/ heard[dir] \in Nat

Init ==
    /\ hostCfg \in HostConfigs /\ vmCfg \in VmConfigs
    /\ host = "loading" /\ vm = "loading"
    /\ wire = Nothing
    /\ session = Nothing
    /\ established = FALSE
    /\ heard = [dir \in Directions |-> Nothing]

FormatOf(dir) == hostCfg.format[dir]

-----------------------------------------------------------------------------
(* Configuration *)

Enabled(cfg) == {dir \in Directions : cfg.enabled[dir]}

\* HostConfig::validate; the formats of a direction that is off count too.
HostValid(cfg) ==
    /\ Enabled(cfg) # {}
    /\ \A dir \in Directions : Valid(cfg.format[dir])
    /\ cfg.enabled["Speaker"] =>
          cfg.bufferMs >= 2 * cfg.format["Speaker"].frameMs
    /\ cfg.idleMs >= cfg.handshakeMs

\* VmConfig::validate.
VmValid(cfg) ==
    /\ Enabled(cfg) # {}
    /\ cfg.enabled["Mic"] => cfg.bufferMs >= 10

LoadHost ==
    /\ host = "loading"
    /\ host' = IF HostValid(hostCfg) THEN "loaded" ELSE "refused"
    /\ UNCHANGED <<hostCfg, vmCfg, vm, wire, session, established, heard>>

LoadVm ==
    /\ vm = "loading"
    /\ vm' = IF VmValid(vmCfg) THEN "running" ELSE "refused"
    /\ UNCHANGED <<hostCfg, vmCfg, host, wire, session, established, heard>>

\* tokio panics on an interval without a period.
RunHost ==
    /\ host = "loaded"
    /\ host' = IF hostCfg.handshakeMs = 0 THEN "panicked" ELSE "running"
    /\ UNCHANGED <<hostCfg, vmCfg, vm, wire, session, established, heard>>

-----------------------------------------------------------------------------
(* The handshake *)

SendHello ==
    /\ host = "running"
    /\ ~established
    /\ wire = Nothing
    /\ wire' = [type |-> "Hello", token |-> SentToken(hostCfg.token),
                len |-> HelloLen(hostCfg.token)]
    /\ UNCHANGED <<hostCfg, vmCfg, host, vm, session, established, heard>>

\* The status handle_hello answers with, no other host being there; the mutant
\* does not ask for the token.
StatusForAnyone(token) ==
    IF \E dir \in Directions : ~Valid(FormatOf(dir)) THEN "UnsupportedFormat"
    ELSE "Ok"

StatusFor(token) ==
    IF ~TokenMatches(vmCfg.token, token) THEN "AuthFailed"
    ELSE IF \E dir \in Directions : ~Valid(FormatOf(dir)) THEN "UnsupportedFormat"
    ELSE "Ok"

\* The summary of an Ok names the devices of the configuration.
MessageFor(status) ==
    IF status = "Ok" THEN vmCfg.summary ELSE [chars |-> 0, width |-> 1]

AnswerHello ==
    /\ vm = "running"
    /\ wire # Nothing /\ wire.type = "Hello"
    /\ IF DecodesHello(wire.token, Received(wire.len))
       THEN LET status == StatusFor(wire.token)
            IN  /\ session' = IF status = "Ok" THEN hostCfg.format ELSE session
                /\ wire' = [type |-> "HelloAck", status |-> status,
                            message |-> MessageFor(status),
                            len |-> AckLen(MessageFor(status))]
       ELSE wire' = Nothing /\ UNCHANGED session
    /\ UNCHANGED <<hostCfg, vmCfg, host, vm, established, heard>>

HearAck ==
    /\ wire # Nothing /\ wire.type = "HelloAck"
    /\ established' = (/\ DecodesAck(wire.message, Received(wire.len))
                       /\ wire.status = "Ok")
    /\ wire' = Nothing
    /\ UNCHANGED <<hostCfg, vmCfg, host, vm, session, heard>>

-----------------------------------------------------------------------------
(* Audio *)

\* A microphone packet is sent by a host that is up, a playback packet by a VM
\* with a session, in the directions the sender has enabled.
SendAudio(dir) ==
    /\ IF dir = "Mic" THEN established /\ dir \in Enabled(hostCfg)
                      ELSE session # Nothing /\ dir \in Enabled(vmCfg)
    /\ wire = Nothing
    /\ heard[dir] = Nothing
    /\ wire' = [type |-> dir, len |-> AudioLen(PayloadLen(FormatOf(dir)))]
    /\ UNCHANGED <<hostCfg, vmCfg, host, vm, session, established, heard>>

\* The VM plays microphone audio of its session, the host any playback of its
\* session, each if it has a jitter buffer.
Plays(dir) == dir \in Enabled(IF dir = "Mic" THEN vmCfg ELSE hostCfg)

HearAudio(dir) ==
    /\ wire # Nothing /\ wire.type = dir
    /\ wire' = Nothing
    /\ heard' = IF DecodesAudio(Received(wire.len)) /\ Plays(dir)
                THEN [heard EXCEPT ![dir] =
                         FramesReceived(Received(wire.len), FormatOf(dir))]
                ELSE heard
    /\ UNCHANGED <<hostCfg, vmCfg, host, vm, session, established>>

Next ==
    \/ LoadHost \/ LoadVm \/ RunHost
    \/ SendHello \/ AnswerHello \/ HearAck
    \/ \E dir \in Directions : SendAudio(dir) \/ HearAudio(dir)

Spec == Init /\ [][Next]_vars

\* The agents and the network go on; no packet that is sent again and again is
\* left unsent for ever.
LiveSpec ==
    /\ Spec
    /\ WF_vars(LoadHost) /\ WF_vars(LoadVm) /\ WF_vars(RunHost)
    /\ SF_vars(SendHello) /\ WF_vars(AnswerHello) /\ WF_vars(HearAck)
    /\ \A dir \in Directions : SF_vars(SendAudio(dir)) /\ WF_vars(HearAudio(dir))

-----------------------------------------------------------------------------
(* Properties *)

Fits(dir) == AudioLen(PayloadLen(FormatOf(dir))) <= MaxPacket

Compatible ==
    /\ HostValid(hostCfg) /\ VmValid(vmCfg)
    /\ hostCfg.handshakeMs > 0
    /\ hostCfg.token = vmCfg.token /\ hostCfg.token.len <= MaxField
    /\ WholeCharacters(vmCfg.summary)

\* What a receiver pushes is a whole packet of the sender's, whatever recv cut
\* off: no stream is ever shifted by part of a packet.
WholeOrNothing ==
    \A dir \in Directions : heard[dir] # Nothing =>
        heard[dir] = FramesPerPacket(FormatOf(dir))

\* Neither end has a session, and neither hears audio, under a configuration
\* that one of them would refuse to start with, with a format that is not
\* valid, or with a token other than the one that was sent.
OnlyCompatible ==
    \/ established \/ session # Nothing
    \/ \E dir \in Directions : heard[dir] # Nothing
    => /\ HostValid(hostCfg) /\ VmValid(vmCfg)
       /\ hostCfg.handshakeMs # 0
       /\ SentToken(hostCfg.token) = vmCfg.token

\* Configurations that agree come up, and every direction that both ends have
\* enabled, and whose packets fit the receive buffer, is heard.
CompatibleStream ==
    Compatible => <>(/\ established
                     /\ \A dir \in Enabled(hostCfg) \cap Enabled(vmCfg) :
                           Fits(dir) => heard[dir] # Nothing)
=============================================================================
