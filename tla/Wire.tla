-------------------------------- MODULE Wire --------------------------------
(***************************************************************************)
(* The UDP socket between the host agents and the VM agent, the datagrams  *)
(* on it, and what an audio receiver makes of one.                         *)
(*                                                                         *)
(* A host process stands for its session identifier as well: every process *)
(* draws one (new_session_id) and keeps it.  The token and the formats its *)
(* Hello carries come from its configuration and never change either.      *)
(***************************************************************************)
EXTENDS SeqSpace, FiniteSets

CONSTANTS
    Host,       \* host agent processes; a restarted agent is another process
    AddrOf,     \* the address a process sends from and receives on
    FormatOf,   \* the formats a process asks for
    NetCap,     \* bound on the datagrams in flight
    VmAddr      \* the address the VM agent listens on

ASSUME WireAssumption ==
    /\ NetCap \in Nat
    /\ \A p \in Host : AddrOf[p] # VmAddr

VARIABLE net    \* the datagrams in flight

-----------------------------------------------------------------------------
(* Datagrams.  `nth` counts the audio packets of a sender from 1 on and is  *)
(* not on the wire: it is what a listener would call newer and older.       *)

FromHost(p, type) ==
    [to |-> VmAddr, from |-> AddrOf[p], type |-> type, session |-> p]

Hello(p)   == FromHost(p, "Hello")
Ping(p)    == FromHost(p, "Ping")
HostBye(p) == FromHost(p, "Bye")

Mic(p, seq, nth) ==
    [to |-> VmAddr, from |-> AddrOf[p], type |-> "Mic", session |-> p,
     seq |-> seq, nth |-> nth]

HelloAck(p, addr, status) ==
    [to |-> addr, type |-> "HelloAck", session |-> p, status |-> status]

Pong(p, addr)  == [to |-> addr, type |-> "Pong", session |-> p]
VmBye(p, addr) == [to |-> addr, type |-> "Bye", session |-> p]

Speaker(p, addr, seq, nth, format) ==
    [to |-> addr, type |-> "Speaker", session |-> p, seq |-> seq, nth |-> nth,
     format |-> format]

Statuses == {"Ok", "AuthFailed", "UnsupportedFormat", "Busy", "ServerError"}

Address == {AddrOf[p] : p \in Host}

Formats == {FormatOf[p] : p \in Host}

Nth == Nat \ {0}

ForVm ==
    [to : {VmAddr}, from : Address, type : {"Hello", "Ping", "Bye"}, session : Host]
    \cup [to : {VmAddr}, from : Address, type : {"Mic"}, session : Host,
          seq : SeqNumbers, nth : Nth]

ForHosts ==
    [to : Address, type : {"HelloAck"}, session : Host, status : Statuses]
    \cup [to : Address, type : {"Pong", "Bye"}, session : Host]
    \cup [to : Address, type : {"Speaker"}, session : Host,
          seq : SeqNumbers, nth : Nth, format : Formats]

WireTypeOK ==
    /\ net \subseteq ForVm \cup ForHosts
    /\ IsFiniteSet(net)
    /\ Cardinality(net) <= NetCap

-----------------------------------------------------------------------------
(* The network loses, repeats and reorders.                                *)

\* `m` is put on the wire, or lost because NetCap others are there.
Posted(base, m) ==
    IF m \in base \/ Cardinality(base) < NetCap THEN base \cup {m} ELSE base

\* What is in flight after `m` was delivered: it may arrive again.
After(m) == {net, net \ {m}}

Lose == \E m \in net : net' = net \ {m}

-----------------------------------------------------------------------------
(* JitterBuffer::push and reset as the session sees them: which packets are *)
(* taken in.  What the buffer does with those is the module JitterBuffer.   *)

\* `taken` is history: the packets taken in since the buffer was last reset.
Deaf == [expected |-> NoSeq, taken |-> {}]

Receivers == [expected : SeqNumbers \cup {NoSeq}, taken : SUBSET Nth]

\* The mutant admits a repeat of the newest packet.
AdmitsRepeat(rx, m) == rx.expected = NoSeq \/ Delta(m.seq, rx.expected) >= -1
Admits(rx, m) == rx.expected = NoSeq \/ ~IsLate(m.seq, rx.expected)

Hears(rx, m) ==
    IF Admits(rx, m)
    THEN [expected |-> SeqOf(m.seq + 1), taken |-> rx.taken \cup {m.nth}]
    ELSE rx
=============================================================================
