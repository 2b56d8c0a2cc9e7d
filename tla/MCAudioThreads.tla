--------------------------- MODULE MCAudioThreads ---------------------------
(***************************************************************************)
(* A small instance of AudioThreads for TLC: the threads of the VM, or     *)
(* those of the host.                                                      *)
(***************************************************************************)
EXTENDS AudioThreads

CONSTANTS cable, card, other, cableIn

\* A wait, on an event, for the next poll or in a call on the stream, is one
\* unit at most.
VmWaits == [render |-> 1, capture |-> 1]
HostWaits == [render |-> 1, capture |-> 1]

\* The endpoints of config/vm.toml and one more: the cable by a part of its
\* name, the card by its full name, which is a part of the other's.
VmNames == {cable, card, other}
VmMatches == [wanted \in {cableIn, card} |->
                 IF wanted = cableIn THEN {cable} ELSE {card, other}]
VmWanted == [render |-> cableIn, capture |-> card]

\* PulseAudio knows a name or it does not.
HostMatches == [wanted \in Names |-> {wanted}]
HostWanted == [render |-> cable, capture |-> card]

VARIABLE agent      \* whose threads they are

HostThreads == INSTANCE AudioThreads WITH
    First <- "capture", WaitMax <- HostWaits, EventDriven <- {},
    BlockingCalls <- TRUE, InitFails <- {}, SpawnFails <- {},
    Matches <- HostMatches, Wanted <- HostWanted

AgentInit == Init /\ agent \in {"vm", "host"}

\* The host starts its threads once, and ends if it cannot.
AgentNext ==
    \/ agent = "vm" /\ Next /\ UNCHANGED agent
    \/ agent = "host" /\ HostThreads!Next /\ session' <= 1 /\ UNCHANGED agent

AgentSpec ==
    /\ AgentInit
    /\ [][AgentNext]_<<vars, agent>>
    /\ \A x \in Thread :
          WF_vars(IF agent = "vm" THEN ThreadGoesOn(x)
                  ELSE HostThreads!ThreadGoesOn(x))
    /\ WF_vars(IF agent = "vm" THEN LoopGoesOn ELSE HostThreads!LoopGoesOn)
    /\ WF_vars(IF agent = "vm" THEN Tick ELSE HostThreads!Tick)
=============================================================================
