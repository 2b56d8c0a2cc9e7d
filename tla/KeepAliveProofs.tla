-------------------------- MODULE KeepAliveProofs ---------------------------
(***************************************************************************)
(* How long the two ends can be mistaken about each other, for any         *)
(* timeouts, delays and losses.                                            *)
(***************************************************************************)
EXTENDS MCKeepAlive, TLAPS

\* Every time is a number, and no timer is due later than its interval.
Numbers ==
    /\ HandshakeTimeout \in Nat \ {0} /\ PingInterval \in Nat \ {0}
    /\ SweepInterval \in Nat \ {0}
    /\ HostIdle \in Nat /\ VmIdle \in Nat /\ MaxJoin \in Nat
    /\ MaxDelay \in Nat /\ MaxLosses \in Nat /\ MaxMissed \in Nat
    /\ HandshakeTimeout <= HostIdle

LEMMA NumbersHold == Numbers
  BY KeepAliveAssumption DEF Numbers

LEMMA BoundsType ==
    /\ MaxAge \in Nat /\ MaxApart \in Nat
    /\ HostIdle + PingInterval + 1 <= MaxAge
    /\ VmIdle + SweepInterval + 1 <= MaxAge
    /\ 0 \in 0 .. MaxAge /\ MaxAge \in 0 .. MaxAge
    /\ 0 \in 0 .. MaxApart
  BY NumbersHold DEF Numbers, MaxAge, MaxApart

\* Growing older, and sooner due, within the bounds.
LEMMA OlderType ==
    ASSUME NEW bound \in Nat, NEW n \in 0 .. bound
    PROVE  Older(n, bound) \in 0 .. bound /\ Older(n, bound) <= n + 1
  BY DEF Older

LEMMA SoonerType ==
    ASSUME NEW interval \in Nat, NEW due \in -MaxMissed .. interval
    PROVE  /\ Sooner(due) \in -MaxMissed .. interval
           /\ due > 0 => Sooner(due) = due - 1
  BY NumbersHold DEF Numbers, Sooner

LEMMA FiredType ==
    ASSUME NEW interval \in Nat, NEW due \in -MaxMissed .. interval, due <= 0
    PROVE  due + interval \in -MaxMissed .. interval
  BY NumbersHold DEF Numbers

Datagrams == [type : ToVm \cup ToHost, age : 0 .. MaxDelay]

LEMMA PostedType ==
    ASSUME NEW base \in SUBSET Datagrams, NEW type \in ToVm \cup ToHost
    PROVE  Posted(base, type) \in SUBSET Datagrams
  <1>1. [type |-> type, age |-> 0] \in Datagrams
    BY NumbersHold DEF Numbers, Datagrams
  <1> QED
    BY <1>1 DEF Posted

-----------------------------------------------------------------------------
(* The inductive invariant *)

\* Every ping that was sent found a datagram younger than the idle timeout.
PingInv ==
    established =>
        /\ hostAge + pingDue <= HostIdle + PingInterval
        /\ hostAge > 0 => pingDue >= 0

\* The same of the sweep, which is not held up while there is a session.
SweepInv ==
    session =>
        /\ busy = 0
        /\ vmAge + sweepDue <= VmIdle + SweepInterval
        /\ vmAge > 0 => sweepDue >= 0

KeepInv == TypeOK /\ PingInv /\ SweepInv

LEMMA InitKeeps == Init => KeepInv
  <1> SUFFICES ASSUME Init
               PROVE  KeepInv
    OBVIOUS
  <1>1. /\ 0 \in -MaxMissed .. HandshakeTimeout
        /\ 0 \in -MaxMissed .. PingInterval
        /\ 0 \in -MaxMissed .. SweepInterval
        /\ 0 \in 0 .. MaxJoin /\ 0 \in 0 .. MaxLosses
    BY NumbersHold DEF Numbers
  <1>2. TypeOK
    BY <1>1, BoundsType DEF Init, TypeOK
  <1> QED
    BY <1>2 DEF Init, KeepInv, PingInv, SweepInv

LEMMA HostKeeps ==
    ASSUME KeepInv, SendHello \/ SendPing \/ GiveUp
    PROVE  KeepInv'
  <1> USE NumbersHold, BoundsType
      DEF KeepInv, PingInv, SweepInv
  <1>1. wire \in SUBSET Datagrams
    BY DEF TypeOK, Datagrams
  <1>2. CASE SendHello
    <2>1. helloDue' \in -MaxMissed .. HandshakeTimeout
      BY <1>2, FiredType DEF SendHello, HelloTick, TypeOK, Numbers
    <2>2. wire' \in SUBSET Datagrams
      BY <1>1, <1>2, PostedType DEF SendHello, ToVm
    <2>3. TypeOK'
      BY <1>2, <2>1, <2>2 DEF SendHello, TypeOK, Datagrams, vmVars
    <2> QED
      BY <1>2, <2>3 DEF SendHello, vmVars
  <1>3. PingTick => pingDue' \in -MaxMissed .. PingInterval /\ pingDue' = pingDue + PingInterval
    BY FiredType DEF PingTick, TypeOK, Numbers
  <1>4. CASE SendPing
    <2>1. wire' \in SUBSET Datagrams
      BY <1>1, <1>4, PostedType DEF SendPing, ToVm
    <2>2. TypeOK'
      BY <1>3, <1>4, <2>1 DEF SendPing, TypeOK, Datagrams, vmVars
    <2>3. pingDue <= 0 /\ hostAge <= HostIdle /\ pingDue \in Int /\ hostAge \in Nat
      BY <1>4 DEF SendPing, PingTick, TypeOK
    <2>4. hostAge' + pingDue' <= HostIdle + PingInterval
      BY <1>3, <1>4, <2>3 DEF SendPing, Numbers
    <2>5. hostAge > 0 => pingDue = 0
      BY <1>4, <2>3 DEF SendPing, PingTick
    <2> QED
      BY <1>3, <1>4, <2>2, <2>4, <2>5 DEF SendPing, vmVars, Numbers
  <1>5. CASE GiveUp
    <2>1. TypeOK'
      BY <1>3, <1>5, BoundsType DEF GiveUp, TypeOK, vmVars
    <2> QED
      BY <1>5, <2>1 DEF GiveUp, vmVars
  <1> QED
    BY <1>2, <1>4, <1>5

LEMMA DatagramKeeps ==
    ASSUME KeepInv, NEW m \in wire,
           RecvAck(m) \/ RecvPong(m) \/ RecvHello(m) \/ RecvPing(m) \/ Lose(m)
    PROVE  KeepInv'
  <1> USE DEF KeepInv, PingInv, SweepInv
  <1>1. wire \in SUBSET Datagrams /\ wire \ {m} \in SUBSET Datagrams
    BY DEF TypeOK, Datagrams
  <1>2. CASE RecvAck(m) \/ RecvPong(m)
    <2>1. hostAge' = 0 /\ losses' = 0 /\ established' \in BOOLEAN
      BY <1>2 DEF RecvAck, RecvPong, HostHears, TypeOK
    <2>2. TypeOK'
      BY <1>1, <1>2, <2>1, BoundsType, NumbersHold
      DEF RecvAck, RecvPong, HostHears, TypeOK, Datagrams, vmVars, Numbers
    <2>3. pingDue \in -MaxMissed .. PingInterval /\ pingDue' = pingDue
      BY <1>2 DEF RecvAck, RecvPong, HostHears, TypeOK
    <2>4. 0 + pingDue <= HostIdle + PingInterval
      BY <2>3, NumbersHold DEF Numbers
    <2> QED
      BY <1>2, <2>1, <2>2, <2>3, <2>4 DEF RecvAck, RecvPong, HostHears, vmVars
  <1>3. CASE RecvHello(m) \/ RecvPing(m)
    <2>1. vmAge' = 0 /\ busy = 0 /\ busy' = 0 /\ session' \in BOOLEAN
      BY <1>3 DEF RecvHello, RecvPing, VmTakes, TypeOK
    <2>2. wire' \in SUBSET Datagrams
      BY <1>1, <1>3, PostedType DEF RecvHello, RecvPing, ToHost
    <2>3. TypeOK'
      BY <1>3, <2>1, <2>2, BoundsType
      DEF RecvHello, RecvPing, TypeOK, Datagrams, hostVars
    <2>4. sweepDue \in -MaxMissed .. SweepInterval /\ sweepDue' = sweepDue
      BY <1>3 DEF RecvHello, RecvPing, TypeOK
    <2>5. 0 + sweepDue <= VmIdle + SweepInterval
      BY <2>4, NumbersHold DEF Numbers
    <2> QED
      BY <1>3, <2>1, <2>3, <2>4, <2>5 DEF RecvHello, RecvPing, hostVars
  <1>4. CASE Lose(m)
    <2>1. losses' \in 0 .. MaxLosses
      BY <1>4, NumbersHold DEF Lose, TypeOK, Numbers
    <2>2. TypeOK'
      BY <1>1, <1>4, <2>1, BoundsType DEF Lose, TypeOK, Datagrams, hostVars, vmVars
    <2> QED
      BY <1>4, <2>2 DEF Lose, hostVars, vmVars
  <1> QED
    BY <1>2, <1>3, <1>4

LEMMA VmKeeps ==
    ASSUME KeepInv, Sweep \/ Restart \/ Break
    PROVE  KeepInv'
  <1> USE DEF KeepInv, PingInv, SweepInv
  <1>1. CASE Sweep
    <2>1. sweepDue' \in -MaxMissed .. SweepInterval /\ sweepDue' = sweepDue + SweepInterval
      BY <1>1, FiredType, NumbersHold DEF Sweep, TypeOK, Numbers
    <2>2. CASE Sweeps
      <3>1. TypeOK'
        BY <1>1, <2>1, <2>2, BoundsType DEF Sweep, TypeOK, hostVars
      <3> QED
        BY <1>1, <2>2, <3>1 DEF Sweep, hostVars
    <2>3. CASE ~Sweeps
      <3>1. TypeOK'
        BY <1>1, <2>1, <2>3 DEF Sweep, TypeOK, hostVars
      <3>2. session => sweepDue <= 0 /\ vmAge <= VmIdle /\ sweepDue \in Int /\ vmAge \in Nat
        BY <1>1, <2>3, NumbersHold, BoundsType DEF Sweep, Sweeps, TypeOK, Numbers
      <3>3. session => vmAge + (sweepDue + SweepInterval) <= VmIdle + SweepInterval
        BY <3>2, NumbersHold DEF Numbers
      <3>4. session /\ vmAge > 0 => sweepDue + SweepInterval >= 0
        BY <3>2, NumbersHold DEF Numbers
      <3> QED
        BY <1>1, <2>1, <2>3, <3>1, <3>3, <3>4 DEF Sweep, hostVars
    <2> QED
      BY <2>2, <2>3
  <1>2. CASE Restart
    <2>1. /\ 0 \in -MaxMissed .. SweepInterval /\ 0 \in 0 .. MaxJoin
      BY NumbersHold DEF Numbers
    <2>2. TypeOK'
      BY <1>2, <2>1, BoundsType DEF Restart, TypeOK, hostVars
    <2> QED
      BY <1>2, <2>2 DEF Restart, hostVars
  <1>3. CASE Break
    <2>1. TypeOK'
      BY <1>3, BoundsType DEF Break, TypeOK, hostVars, vmVars
    <2> QED
      BY <1>3, <2>1 DEF Break, hostVars, vmVars
  <1> QED
    BY <1>1, <1>2, <1>3

\* What an age gains in a tick, a timer that is not due yet loses.
LEMMA AgeForDue ==
    ASSUME NEW age \in Nat, NEW due \in Int, NEW older \in Nat, NEW sooner \in Int,
           NEW bound \in Nat, age + due <= bound,
           due > 0, sooner = due - 1, older <= age + 1
    PROVE  older + sooner <= bound /\ sooner >= 0
  OBVIOUS

\* Time passes at an end only when its timer is not yet due.
LEMMA TimeKeeps ==
    ASSUME KeepInv, Tick
    PROVE  KeepInv'
  <1> USE DEF KeepInv, PingInv, SweepInv
  <1>1. /\ helloDue' \in -MaxMissed .. HandshakeTimeout
        /\ pingDue' \in -MaxMissed .. PingInterval
        /\ sweepDue' \in -MaxMissed .. SweepInterval
    BY SoonerType, NumbersHold DEF Tick, TypeOK, Numbers
  <1>2. /\ hostAge' \in 0 .. MaxAge /\ vmAge' \in 0 .. MaxAge
        /\ apart' \in 0 .. MaxApart
    BY OlderType, BoundsType DEF Tick, TypeOK
  <1>3. busy' \in 0 .. MaxJoin
    BY NumbersHold DEF Tick, TypeOK, Numbers
  <1>4. wire' \subseteq Datagrams
    <2>1. ASSUME NEW m \in wire
          PROVE  [m EXCEPT !.age = Older(@, MaxDelay)] \in Datagrams
      <3>1. m \in Datagrams
        BY DEF TypeOK, Datagrams
      <3>2. Older(m.age, MaxDelay) \in 0 .. MaxDelay
        BY <3>1, OlderType, NumbersHold DEF Datagrams, Numbers
      <3> QED
        BY <3>1, <3>2 DEF Datagrams
    <2> QED
      BY <2>1 DEF Tick
  <1>5. TypeOK'
    BY <1>1, <1>2, <1>3, <1>4 DEF Tick, TypeOK, Datagrams
  <1>6. PingInv'
    <2>1. CASE established
      <3>1. pingDue > 0 /\ pingDue' = pingDue - 1 /\ pingDue \in Int
        BY <2>1, SoonerType, NumbersHold DEF Tick, TypeOK, Numbers
      <3>2. hostAge' <= hostAge + 1 /\ hostAge \in Nat /\ hostAge' \in Nat
        BY <1>2, <2>1, OlderType, BoundsType DEF Tick, TypeOK
      <3>3. HostIdle + PingInterval \in Nat /\ hostAge + pingDue <= HostIdle + PingInterval /\ pingDue' \in Int
        BY <2>1, <3>1, NumbersHold DEF Numbers
      <3>4. hostAge' + pingDue' <= HostIdle + PingInterval /\ pingDue' >= 0
        BY <3>1, <3>2, <3>3, AgeForDue
      <3> QED
        BY <3>4
    <2>2. CASE ~established
      BY <2>2 DEF Tick
    <2> QED
      BY <2>1, <2>2 DEF TypeOK
  <1>7. SweepInv'
    <2>1. CASE session
      <3>1. busy = 0 /\ busy' = 0
        BY <2>1 DEF Tick
      <3>2. sweepDue > 0 /\ sweepDue' = sweepDue - 1 /\ sweepDue \in Int
        BY <2>1, <3>1, SoonerType, NumbersHold DEF Tick, TypeOK, Numbers
      <3>3. vmAge' <= vmAge + 1 /\ vmAge \in Nat /\ vmAge' \in Nat
        BY <1>2, <2>1, OlderType, BoundsType DEF Tick, TypeOK
      <3>4. VmIdle + SweepInterval \in Nat /\ vmAge + sweepDue <= VmIdle + SweepInterval /\ sweepDue' \in Int
        BY <2>1, <3>2, NumbersHold DEF Numbers
      <3>5. vmAge' + sweepDue' <= VmIdle + SweepInterval /\ sweepDue' >= 0
        BY <3>2, <3>3, <3>4, AgeForDue
      <3> QED
        BY <3>1, <3>5
    <2>2. CASE ~session
      BY <2>2 DEF Tick
    <2> QED
      BY <2>1, <2>2 DEF TypeOK
  <1> QED
    BY <1>5, <1>6, <1>7

LEMMA KeepInvInvariant == Spec => []KeepInv
  <1>1. KeepInv /\ UNCHANGED vars => KeepInv'
    BY DEF KeepInv, TypeOK, PingInv, SweepInv, vars, hostVars, vmVars
  <1>2. KeepInv /\ [Next]_vars => KeepInv'
    BY <1>1, HostKeeps, DatagramKeeps, VmKeeps, TimeKeeps DEF Next
  <1> QED
    BY <1>2, InitKeeps, PTL DEF Spec

-----------------------------------------------------------------------------
(* How long the two can disagree *)

\* A sweep does not give up a host whose answer is still under way, and joining
\* the threads takes no longer than a host takes to notice.
Patient ==
    /\ MaxDelay <= VmIdle
    /\ HandshakeTimeout + MaxJoin <= HostIdle + PingInterval + MaxDelay

\* How long a host that was left alone goes on, with its last answer under way.
Noticed == HostIdle + PingInterval + MaxDelay

\* The host asks the VM again by the time t, or has, in a Hello under way.
AskedBy(t) ==
    \/ apart <= t /\ apart + helloDue <= t
    \/ \E m \in wire : m.type = "Hello" /\ apart <= t + m.age

\* An Ok under way that finds the session as the Hello left it.
AckDue ==
    \E m \in wire :
        /\ m.type = "HelloAck"
        /\ vmAge <= m.age
        /\ apart <= Noticed + MaxDelay + m.age

\* What is under way to the host is from this disagreement only if the VM has
\* the session it answered for, and has heard nothing since.
AnswersInv ==
    \A m \in wire : m.type \in ToHost => m.age >= apart \/ (session /\ vmAge <= m.age)

\* A host that hears nothing for the handshake timeout may ask at once.
HelloInv == established => helloDue <= 0 \/ helloDue + hostAge <= HandshakeTimeout

\* Neither, only the VM, both, and only the host has the session.
NeitherInv == ~established /\ ~session => AskedBy(Noticed)
VmAloneInv == ~established /\ session => AskedBy(HandshakeTimeout) \/ AckDue
BothInv ==
    established /\ session =>
        \/ apart = 0
        \/ hostAge = 0 /\ (vmAge <= MaxDelay \/ apart <= MaxDelay)
        \/ AckDue
HostAloneInv == established /\ ~session => apart <= hostAge + MaxDelay

\* A Hello that waits for threads to be joined was sent early enough.
JoinInv == busy > 0 => apart + busy <= HandshakeTimeout + MaxDelay + MaxJoin

ApartInv ==
    /\ ~link => wire = {} /\ apart = 0
    /\ AnswersInv /\ HelloInv
    /\ NeitherInv /\ VmAloneInv /\ BothInv /\ HostAloneInv
    /\ JoinInv
    /\ TogetherAgain

LEMMA ConstantsAreNaturals ==
    /\ HandshakeTimeout \in Nat /\ PingInterval \in Nat
    /\ HostIdle \in Nat /\ VmIdle \in Nat
    /\ MaxDelay \in Nat /\ MaxJoin \in Nat
    /\ HandshakeTimeout <= HostIdle
  BY NumbersHold DEF Numbers

LEMMA StateNumbers ==
    ASSUME KeepInv
    PROVE  /\ hostAge \in Nat /\ vmAge \in Nat /\ apart \in Nat /\ busy \in Nat
           /\ helloDue \in Int /\ helloDue <= HandshakeTimeout
           /\ busy <= MaxJoin
           /\ Noticed \in Nat /\ HandshakeTimeout <= Noticed
           /\ \A m \in wire : m.age \in Nat /\ m.age <= MaxDelay
                              /\ m.type \in ToVm \cup ToHost
           /\ established => hostAge <= HostIdle + PingInterval
  BY NumbersHold, BoundsType DEF KeepInv, TypeOK, PingInv, Noticed, Numbers

LEMMA ZeroPlus == \A n \in Int : 0 + n = n
  OBVIOUS

\* Who is asked early enough for one is asked early enough for the other.
LEMMA AskedLater ==
    ASSUME KeepInv, AskedBy(HandshakeTimeout)
    PROVE  AskedBy(Noticed)
  <1>1. CASE apart <= HandshakeTimeout /\ apart + helloDue <= HandshakeTimeout
    BY <1>1, StateNumbers, ConstantsAreNaturals DEF AskedBy
  <1>2. CASE \E m \in wire : m.type = "Hello" /\ apart <= HandshakeTimeout + m.age
    BY <1>2, StateNumbers, ConstantsAreNaturals DEF AskedBy
  <1> QED
    BY <1>1, <1>2 DEF AskedBy

LEMMA InitApart == Init => ApartInv
  <1> SUFFICES ASSUME Init
               PROVE  ApartInv
    OBVIOUS
  <1>1. TogetherAgain /\ AskedBy(Noticed)
    BY ConstantsAreNaturals DEF Init, TogetherAgain, AskedBy, Noticed
  <1> QED
    BY <1>1 DEF Init, ApartInv, AnswersInv, HelloInv, NeitherInv, VmAloneInv, BothInv,
                HostAloneInv, JoinInv

\* Whatever resets the history: the host asks within a handshake timeout.
LEMMA ResetApart ==
    ASSUME KeepInv, KeepInv', ApartInv, apart' = 0, busy' = busy \/ busy' = 0,
           UNCHANGED hostVars, ~link' => wire' = {}
    PROVE  ApartInv'
  <1>1. /\ helloDue' = helloDue /\ hostAge' = hostAge /\ established' = established
        /\ helloDue \in Int /\ helloDue <= HandshakeTimeout
        /\ hostAge \in Nat /\ busy' \in Nat /\ busy' <= MaxJoin
        /\ Noticed \in Nat /\ HandshakeTimeout <= Noticed
    BY StateNumbers, ConstantsAreNaturals DEF hostVars
  <1>2. AnswersInv'
    <2>1. \A m \in wire' : m.age \in Nat
      BY ConstantsAreNaturals DEF KeepInv, TypeOK
    <2> QED
      BY <2>1 DEF AnswersInv
  <1>3. AskedBy(Noticed)' /\ AskedBy(HandshakeTimeout)'
    BY <1>1, ConstantsAreNaturals DEF AskedBy, Noticed
  <1>4. HelloInv' /\ BothInv'
    BY <1>1 DEF ApartInv, HelloInv, BothInv
  <1>5. HostAloneInv'
    BY <1>1, ConstantsAreNaturals DEF HostAloneInv
  <1>6. JoinInv'
    <2>1. busy' <= HandshakeTimeout + MaxDelay + MaxJoin
      BY <1>1, ConstantsAreNaturals
    <2> QED
      BY <1>1, <2>1, ZeroPlus DEF JoinInv
  <1>7. TogetherAgain'
    BY ConstantsAreNaturals DEF TogetherAgain
  <1> QED
    BY <1>2, <1>3, <1>4, <1>5, <1>6, <1>7 DEF ApartInv, NeitherInv, VmAloneInv

LEMMA HostApart ==
    ASSUME KeepInv, KeepInv', ApartInv, SendHello \/ SendPing \/ GiveUp
    PROVE  ApartInv'
  <1> USE DEF ApartInv
  <1>1. CASE SendHello
    <2>1. /\ ~established /\ ~established' /\ session' = session /\ vmAge' = vmAge
          /\ busy' = busy /\ link' = link /\ apart' = apart
          /\ helloDue' <= HandshakeTimeout /\ helloDue' \in Int
      BY <1>1, StateNumbers, ConstantsAreNaturals
      DEF SendHello, HelloTick, vmVars, KeepInv, TypeOK
    <2>2. wire \subseteq wire' /\ \A m \in wire' \ wire : m.type = "Hello"
      BY <1>1 DEF SendHello, Posted
    <2>3. AnswersInv'
      BY <2>1, <2>2 DEF AnswersInv, ToHost
    <2>4. ~link => wire' = {}
      BY <1>1 DEF SendHello, Posted
    <2>5. ASSUME NEW t \in Nat, HandshakeTimeout <= t, AskedBy(t)
          PROVE  AskedBy(t)'
      <3>1. CASE \E m \in wire : m.type = "Hello" /\ apart <= t + m.age
        BY <2>1, <2>2, <3>1 DEF AskedBy
      <3>2. CASE apart <= t /\ link
        <4>1. [type |-> "Hello", age |-> 0] \in wire'
          BY <1>1, <3>2 DEF SendHello, Posted
        <4> QED
          BY <2>1, <3>2, <4>1 DEF AskedBy
      <3>3. CASE ~link
        <4>1. apart' = 0
          BY <2>1, <3>3
        <4>2. 0 <= t
          OBVIOUS
        <4>3. helloDue' <= t
          BY <2>1, <2>5, ConstantsAreNaturals
        <4>4. 0 + helloDue' = helloDue'
          BY <2>1, ZeroPlus
        <4> QED
          BY <4>1, <4>2, <4>3, <4>4 DEF AskedBy
      <3> QED
        BY <2>5, <3>1, <3>2, <3>3 DEF AskedBy
    <2>6. AckDue => AckDue'
      BY <2>1, <2>2 DEF AckDue, Noticed
    <2>7. NeitherInv' /\ VmAloneInv'
      BY <2>1, <2>5, <2>6, StateNumbers, ConstantsAreNaturals DEF NeitherInv, VmAloneInv
    <2> QED
      BY <2>1, <2>3, <2>4, <2>7
      DEF HelloInv, BothInv, HostAloneInv, JoinInv, TogetherAgain
  <1>2. CASE SendPing
    <2>1. /\ established /\ established' /\ session' = session /\ vmAge' = vmAge
          /\ busy' = busy /\ link' = link /\ apart' = apart
          /\ helloDue' = helloDue /\ hostAge' = hostAge
      BY <1>2 DEF SendPing, PingTick, vmVars
    <2>2. wire \subseteq wire' /\ \A m \in wire' \ wire : m.type = "Ping"
      BY <1>2 DEF SendPing, Posted
    <2>3. AnswersInv'
      BY <2>1, <2>2 DEF AnswersInv, ToHost
    <2>4. ~link => wire' = {}
      BY <1>2 DEF SendPing, Posted
    <2>5. AckDue => AckDue'
      BY <2>1, <2>2 DEF AckDue, Noticed
    <2> QED
      BY <2>1, <2>3, <2>4, <2>5
      DEF HelloInv, NeitherInv, VmAloneInv, BothInv, HostAloneInv, JoinInv, TogetherAgain
  <1>3. CASE GiveUp
    <2>1. /\ established /\ ~established' /\ session' = session /\ vmAge' = vmAge
          /\ busy' = busy /\ link' = link /\ apart' = apart /\ wire' = wire
          /\ helloDue' = helloDue /\ hostAge > HostIdle
      BY <1>3 DEF GiveUp, PingTick, vmVars
    <2>2. helloDue <= 0 /\ hostAge > 0
      BY <2>1, StateNumbers, ConstantsAreNaturals DEF HelloInv
    <2>3. session => AskedBy(HandshakeTimeout)' \/ AckDue'
      <3>1. AckDue => AckDue'
        BY <2>1 DEF AckDue, Noticed
      <3>2. apart = 0 => AskedBy(HandshakeTimeout)'
        BY <2>1, <2>2, StateNumbers, ConstantsAreNaturals DEF AskedBy
      <3> QED
        BY <2>1, <2>2, <3>1, <3>2, StateNumbers DEF BothInv
    <2>4. ~session => AskedBy(Noticed)'
      <3>1. ~session => apart <= Noticed
        BY <2>1, StateNumbers, ConstantsAreNaturals DEF HostAloneInv, Noticed
      <3> QED
        BY <2>1, <2>2, <3>1, StateNumbers DEF AskedBy, Noticed
    <2> QED
      BY <2>1, <2>3, <2>4
      DEF AnswersInv, HelloInv, NeitherInv, VmAloneInv, BothInv, HostAloneInv, JoinInv,
          TogetherAgain
  <1> QED
    BY <1>1, <1>2, <1>3

LEMMA HostHearsApart ==
    ASSUME KeepInv, KeepInv', ApartInv, NEW m \in wire, RecvAck(m) \/ RecvPong(m)
    PROVE  ApartInv'
  <1> USE DEF ApartInv
  <1>1. /\ m.type \in {"HelloAck", "Pong"} /\ wire' = wire \ {m} /\ hostAge' = 0
        /\ helloDue' = helloDue /\ session' = session /\ vmAge' = vmAge
        /\ busy' = busy /\ link' = link /\ apart' = apart
    BY DEF RecvAck, RecvPong, HostHears, vmVars
  <1>2. AnswersInv' /\ (~link' => wire' = {} /\ apart' = 0)
    BY <1>1 DEF AnswersInv
  <1>3. JoinInv' /\ TogetherAgain'
    BY <1>1 DEF JoinInv, TogetherAgain
  <1>4. CASE established'
    <2>1. HelloInv'
      <3>1. helloDue + 0 <= HandshakeTimeout
        BY StateNumbers, ConstantsAreNaturals
      <3> QED
        BY <1>1, <3>1 DEF HelloInv
    <2>2. m.age >= apart \/ (session /\ vmAge <= m.age)
      BY <1>1 DEF AnswersInv, ToHost
    <2>3. apart <= MaxDelay \/ (session /\ vmAge <= MaxDelay)
      BY <2>2, StateNumbers, ConstantsAreNaturals
    <2>4. BothInv'
      BY <1>1, <2>3 DEF BothInv
    <2>5. HostAloneInv'
      BY <1>1, <2>3, ZeroPlus, ConstantsAreNaturals DEF HostAloneInv
    <2> QED
      BY <1>2, <1>3, <1>4, <2>1, <2>4, <2>5 DEF NeitherInv, VmAloneInv
  <1>5. CASE ~established'
    <2>1. ~established /\ m.type = "Pong"
      BY <1>5 DEF RecvAck, RecvPong
    <2>2. \A t : AskedBy(t) => AskedBy(t)'
      BY <1>1 DEF AskedBy
    <2>3. AckDue => AckDue'
      BY <1>1, <2>1 DEF AckDue, Noticed
    <2>4. NeitherInv' /\ VmAloneInv'
      BY <1>1, <2>1, <2>2, <2>3 DEF NeitherInv, VmAloneInv
    <2> QED
      BY <1>2, <1>3, <1>5, <2>4 DEF HelloInv, BothInv, HostAloneInv
  <1> QED
    BY <1>4, <1>5

LEMMA VmHearsApart ==
    ASSUME KeepInv, KeepInv', ApartInv, NEW m \in wire, RecvHello(m) \/ RecvPing(m)
    PROVE  ApartInv'
  <1> USE DEF ApartInv
  <1>1. /\ m.type \in ToVm /\ link /\ vmAge' = 0 /\ busy = 0 /\ busy' = 0
        /\ hostAge' = hostAge /\ helloDue' = helloDue /\ established' = established
        /\ link' = link /\ apart' = apart
    BY DEF RecvHello, RecvPing, VmTakes, hostVars, ToVm
  <1>2. \A n \in wire : n.age >= 0
    BY StateNumbers
  <1>3. HelloInv' /\ JoinInv' /\ TogetherAgain' /\ (~link' => wire' = {} /\ apart' = 0)
    BY <1>1 DEF HelloInv, JoinInv, TogetherAgain
  <1>4. CASE RecvHello(m)
    <2>1. session' /\ wire' = (wire \ {m}) \cup {[type |-> "HelloAck", age |-> 0]}
      BY <1>1, <1>4 DEF RecvHello, Posted
    <2>2. AnswersInv'
      BY <1>1, <1>2, <2>1 DEF AnswersInv
    <2>3. apart <= Noticed + MaxDelay => AckDue'
      <3> DEFINE ack == [type |-> "HelloAck", age |-> 0]
      <3>1. apart <= Noticed + MaxDelay => apart <= Noticed + MaxDelay + ack.age
        BY StateNumbers, ConstantsAreNaturals
      <3>2. ack \in wire' /\ ack.type = "HelloAck" /\ vmAge' <= ack.age
        BY <1>1, <2>1
      <3> HIDE DEF ack
      <3> QED
        BY <1>1, <3>1, <3>2 DEF AckDue, Noticed
    <2>4. AckDue => AckDue'
      BY <1>1, <1>2, <1>4, <2>1 DEF AckDue, Noticed, RecvHello
    <2>5. AskedBy(Noticed) => apart <= Noticed + MaxDelay
      BY StateNumbers, ConstantsAreNaturals DEF AskedBy
    <2>6. VmAloneInv'
      BY <1>1, <2>3, <2>4, <2>5, AskedLater DEF VmAloneInv, NeitherInv
    <2>7. BothInv'
      <3>1. CASE session
        BY <1>1, <2>4, <3>1, ConstantsAreNaturals DEF BothInv
      <3>2. CASE ~session /\ established
        <4>1. apart <= Noticed + MaxDelay
          BY <3>2, StateNumbers, ConstantsAreNaturals DEF HostAloneInv, Noticed
        <4> QED
          BY <2>3, <4>1 DEF BothInv
      <3> QED
        BY <1>1, <3>1, <3>2 DEF BothInv
    <2> QED
      BY <1>3, <2>1, <2>2, <2>6, <2>7 DEF NeitherInv, HostAloneInv
  <1>5. CASE RecvPing(m)
    <2>1. /\ session' = session
          /\ wire' = IF session THEN (wire \ {m}) \cup {[type |-> "Pong", age |-> 0]}
                     ELSE wire \ {m}
      BY <1>1, <1>5 DEF RecvPing, Posted
    <2>2. AnswersInv'
      BY <1>1, <1>2, <2>1 DEF AnswersInv
    <2>3. \A t : AskedBy(t) => AskedBy(t)'
      BY <1>1, <1>5, <2>1 DEF AskedBy, RecvPing
    <2>4. AckDue => AckDue'
      BY <1>1, <1>2, <1>5, <2>1 DEF AckDue, Noticed, RecvPing
    <2>5. NeitherInv' /\ VmAloneInv'
      BY <1>1, <2>1, <2>3, <2>4 DEF NeitherInv, VmAloneInv
    <2>6. BothInv' /\ HostAloneInv'
      BY <1>1, <2>1, <2>4, ConstantsAreNaturals DEF BothInv, HostAloneInv
    <2> QED
      BY <1>3, <2>2, <2>5, <2>6
  <1> QED
    BY <1>4, <1>5

LEMMA SweepApart ==
    ASSUME KeepInv, KeepInv', ApartInv, Patient, Sweep
    PROVE  ApartInv'
  <1> USE DEF ApartInv
  <1>1. /\ wire' = wire /\ link' = link /\ apart' = apart /\ established' = established
        /\ hostAge' = hostAge /\ helloDue' = helloDue /\ busy = 0
    BY DEF Sweep, hostVars
  <1>2. CASE Sweeps
    <2>1. /\ session /\ vmAge > VmIdle /\ ~session' /\ busy' \in 0 .. MaxJoin
      BY <1>2 DEF Sweep, Sweeps
    <2>2. \A n \in wire : ~(vmAge <= n.age)
      BY <2>1, StateNumbers, ConstantsAreNaturals DEF Patient
    <2>3. ~AckDue /\ AnswersInv'
      BY <1>1, <2>2 DEF AckDue, AnswersInv
    <2>4. NeitherInv'
      <3>1. AskedBy(Noticed) => AskedBy(Noticed)'
        BY <1>1 DEF AskedBy, Noticed
      <3> QED
        BY <1>1, <2>1, <2>3, <3>1, AskedLater DEF NeitherInv, VmAloneInv
    <2>5. established => apart <= MaxDelay
      <3>1. ~(vmAge <= MaxDelay)
        BY <2>1, StateNumbers, ConstantsAreNaturals DEF Patient
      <3> QED
        BY <2>1, <2>3, <3>1, ConstantsAreNaturals DEF BothInv
    <2>6. HostAloneInv'
      BY <1>1, <2>5, StateNumbers, ConstantsAreNaturals DEF HostAloneInv
    <2>7. apart <= HandshakeTimeout + MaxDelay
      <3>1. AskedBy(HandshakeTimeout) => apart <= HandshakeTimeout + MaxDelay
        BY StateNumbers, ConstantsAreNaturals DEF AskedBy
      <3> QED
        BY <2>1, <2>3, <2>5, <3>1, StateNumbers, ConstantsAreNaturals DEF VmAloneInv
    <2>8. JoinInv'
      BY <1>1, <2>1, <2>7, StateNumbers, ConstantsAreNaturals DEF JoinInv
    <2> QED
      BY <1>1, <2>1, <2>3, <2>4, <2>6, <2>8
      DEF HelloInv, VmAloneInv, BothInv, TogetherAgain
  <1>3. CASE ~Sweeps
    <2>1. session' = session /\ vmAge' = vmAge /\ busy' = busy
      BY <1>3 DEF Sweep
    <2> QED
      BY <1>1, <2>1
      DEF AnswersInv, HelloInv, NeitherInv, VmAloneInv, BothInv, HostAloneInv, JoinInv,
          TogetherAgain, AskedBy, AckDue, Noticed
  <1> QED
    BY <1>2, <1>3

LEMMA FaultsApart ==
    ASSUME KeepInv, KeepInv', ApartInv,
           Restart \/ Break \/ \E m \in wire : Lose(m)
    PROVE  ApartInv'
  <1>1. /\ apart' = 0 /\ (busy' = busy \/ busy' = 0) /\ UNCHANGED hostVars
        /\ ~link' => wire' = {}
    BY DEF Restart, Break, Lose, vmVars, ApartInv
  <1> QED
    BY <1>1, ResetApart

\* What is not held up by threads being joined arrives in time.
LEMMA TickAges ==
    ASSUME KeepInv, Tick, NEW m \in wire
    PROVE  \E n \in wire' :
               /\ n.type = m.type /\ n.age <= MaxDelay
               /\ n.age = m.age + 1 \/ (busy > 0 /\ m.type \in ToVm /\ n.age = MaxDelay)
  <1>1. m.age \in Nat /\ m.age <= MaxDelay /\ m \in Datagrams
    BY StateNumbers DEF KeepInv, TypeOK, Datagrams
  <1> DEFINE n == [m EXCEPT !.age = Older(@, MaxDelay)]
  <1>2. n \in wire'
    BY DEF Tick
  <1>3. n.type = m.type /\ n.age = Older(m.age, MaxDelay)
    BY <1>1 DEF Datagrams
  <1>4. m.age < MaxDelay \/ (busy > 0 /\ m.type \in ToVm)
    BY DEF Tick, Held
  <1>5. m.age < MaxDelay => Older(m.age, MaxDelay) = m.age + 1
    BY DEF Older
  <1>6. ~(m.age < MaxDelay) => Older(m.age, MaxDelay) = MaxDelay
    BY <1>1, ConstantsAreNaturals DEF Older
  <1>7. m.age + 1 <= MaxDelay \/ ~(m.age < MaxDelay)
    BY <1>1, ConstantsAreNaturals
  <1> HIDE DEF n
  <1> QED
    BY <1>1, <1>2, <1>3, <1>4, <1>5, <1>6, <1>7, ConstantsAreNaturals

LEMMA TickAged ==
    ASSUME KeepInv, Tick, NEW n \in wire', n.type \in ToHost
    PROVE  \E m \in wire : n.type = m.type /\ n.age = m.age + 1
  <1>1. PICK m \in wire : n = [m EXCEPT !.age = Older(@, MaxDelay)]
    BY DEF Tick
  <1>2. m \in Datagrams
    BY DEF KeepInv, TypeOK, Datagrams
  <1>3. n.type = m.type /\ n.age = Older(m.age, MaxDelay)
    BY <1>1, <1>2 DEF Datagrams
  <1>4. m.age < MaxDelay
    BY <1>3 DEF Tick, Held, ToVm, ToHost
  <1> QED
    BY <1>3, <1>4 DEF Older

LEMMA TickNumbers ==
    ASSUME KeepInv, KeepInv', Tick
    PROVE  /\ hostAge' \in Nat /\ vmAge' \in Nat /\ apart' \in Nat /\ helloDue' \in Int
           /\ hostAge' <= hostAge + 1 /\ vmAge' <= vmAge + 1 /\ apart' <= apart + 1
           /\ established => hostAge' = hostAge + 1
           /\ helloDue <= 0 => helloDue' <= 0
           /\ helloDue > 0 => helloDue' = helloDue - 1
  <1>1. /\ hostAge' \in Nat /\ vmAge' \in Nat /\ apart' \in Nat /\ helloDue' \in Int
    BY NumbersHold, BoundsType DEF KeepInv, TypeOK, Numbers
  <1>2. hostAge' <= hostAge + 1 /\ vmAge' <= vmAge + 1 /\ apart' <= apart + 1
    BY OlderType, BoundsType, StateNumbers DEF Tick, KeepInv, TypeOK
  <1>3. established => hostAge' = hostAge + 1
    <2>1. established => hostAge < MaxAge
      BY BoundsType, StateNumbers, ConstantsAreNaturals
    <2> QED
      BY <2>1 DEF Tick, Older
  <1>4. helloDue' = Sooner(helloDue) /\ helloDue \in Int
    BY StateNumbers DEF Tick
  <1>5. helloDue <= 0 => helloDue' <= 0
    BY <1>4 DEF Sooner
  <1>6. helloDue > 0 => helloDue' = helloDue - 1
    BY <1>4, NumbersHold DEF Sooner, Numbers
  <1> QED
    BY <1>1, <1>2, <1>3, <1>5, <1>6

\* Who was asked in time still is, a tick later.
LEMMA TickAsks ==
    ASSUME KeepInv, KeepInv', Tick, ~established, NEW t \in Nat, AskedBy(t),
           busy > 0 => apart + 1 <= t + MaxDelay
    PROVE  AskedBy(t)'
  <1>1. helloDue > 0 /\ helloDue' = helloDue - 1
    BY TickNumbers DEF Tick
  <1>2. CASE apart <= t /\ apart + helloDue <= t
    <2>1. apart' <= t /\ apart' + helloDue' <= t
      BY <1>1, <1>2, TickNumbers, StateNumbers
    <2> QED
      BY <2>1 DEF AskedBy
  <1>3. CASE \E m \in wire : m.type = "Hello" /\ apart <= t + m.age
    <2>1. PICK m \in wire : m.type = "Hello" /\ apart <= t + m.age
      BY <1>3
    <2>2. PICK n \in wire' :
              /\ n.type = m.type /\ n.age <= MaxDelay
              /\ n.age = m.age + 1 \/ (busy > 0 /\ m.type \in ToVm /\ n.age = MaxDelay)
      BY TickAges
    <2>3. m.age \in Nat
      BY StateNumbers
    <2>4. apart' <= t + n.age
      <3>1. CASE n.age = m.age + 1
        BY <2>1, <2>3, <3>1, TickNumbers, StateNumbers
      <3>2. CASE busy > 0 /\ n.age = MaxDelay
        BY <3>2, TickNumbers, StateNumbers, ConstantsAreNaturals
      <3> QED
        BY <2>2, <3>1, <3>2
    <2> QED
      BY <2>1, <2>2, <2>4 DEF AskedBy
  <1> QED
    BY <1>2, <1>3 DEF AskedBy

LEMMA TickAcks ==
    ASSUME KeepInv, KeepInv', Tick, AckDue
    PROVE  AckDue'
  <1>1. PICK m \in wire : /\ m.type = "HelloAck"
                          /\ vmAge <= m.age
                          /\ apart <= Noticed + MaxDelay + m.age
    BY DEF AckDue
  <1>2. PICK n \in wire' :
            /\ n.type = m.type /\ n.age <= MaxDelay
            /\ n.age = m.age + 1 \/ (busy > 0 /\ m.type \in ToVm /\ n.age = MaxDelay)
    BY TickAges
  <1>3. m.age \in Nat /\ n.age = m.age + 1
    BY <1>1, <1>2, StateNumbers DEF ToVm
  <1>4. vmAge' <= n.age
    BY <1>1, <1>3, TickNumbers, StateNumbers
  <1>5. apart' <= Noticed + MaxDelay + n.age
    BY <1>1, <1>3, TickNumbers, StateNumbers, ConstantsAreNaturals
  <1> QED
    BY <1>1, <1>2, <1>4, <1>5 DEF AckDue, Noticed

LEMMA TickApart ==
    ASSUME KeepInv, KeepInv', ApartInv, Patient, Tick
    PROVE  ApartInv'
  <1> USE DEF ApartInv
  <1>1. established' = established /\ session' = session /\ link' = link
    BY DEF Tick
  <1>2. ~link' => wire' = {} /\ apart' = 0
    BY DEF Tick
  <1>3. AnswersInv'
    <2> SUFFICES ASSUME NEW n \in wire', n.type \in ToHost
                 PROVE  n.age >= apart' \/ (session /\ vmAge' <= n.age)
      BY <1>1 DEF AnswersInv
    <2>1. PICK m \in wire : n.type = m.type /\ n.age = m.age + 1
      BY TickAged
    <2>2. m.age \in Nat /\ (m.age >= apart \/ (session /\ vmAge <= m.age))
      BY <2>1, StateNumbers DEF AnswersInv
    <2> QED
      BY <2>1, <2>2, TickNumbers, StateNumbers
  <1>4. HelloInv'
    <2>1. established /\ helloDue > 0 => helloDue' + hostAge' <= HandshakeTimeout
      BY TickNumbers, StateNumbers, ConstantsAreNaturals DEF HelloInv
    <2> QED
      BY <1>1, <2>1, TickNumbers, StateNumbers DEF HelloInv
  <1>5. busy > 0 => apart + 1 <= Noticed + MaxDelay
    BY StateNumbers, ConstantsAreNaturals DEF JoinInv, Patient, Noticed
  <1>6. NeitherInv'
    BY <1>1, <1>5, TickAsks, StateNumbers DEF NeitherInv, Noticed
  <1>7. VmAloneInv'
    <2>1. session => busy = 0
      BY DEF KeepInv, SweepInv
    <2> QED
      BY <1>1, <2>1, TickAsks, TickAcks, ConstantsAreNaturals DEF VmAloneInv
  <1>8. established /\ session => apart' = 0
    BY DEF Tick
  <1>9. HostAloneInv'
    BY <1>1, TickNumbers, StateNumbers, ConstantsAreNaturals DEF HostAloneInv
  <1>10. JoinInv'
    <2>1. busy > 0 => busy' = busy - 1
      BY DEF Tick
    <2>2. busy' > 0 => busy > 0
      BY DEF Tick
    <2> QED
      BY <2>1, <2>2, TickNumbers, StateNumbers, ConstantsAreNaturals DEF JoinInv
  <1>11. TogetherAgain'
    <2>1. \A m \in wire' : m.age \in Nat /\ m.age <= MaxDelay
      BY NumbersHold DEF KeepInv, TypeOK, Numbers
    <2>2. AskedBy(Noticed)' => apart' <= Noticed + MaxDelay
      BY <2>1, TickNumbers, StateNumbers, ConstantsAreNaturals DEF AskedBy, Noticed
    <2>3. AskedBy(HandshakeTimeout)' => apart' <= Noticed + MaxDelay
      BY <2>1, TickNumbers, StateNumbers, ConstantsAreNaturals DEF AskedBy
    <2>4. AckDue' => apart' <= Noticed + MaxDelay + MaxDelay
      BY <2>1, TickNumbers, StateNumbers, ConstantsAreNaturals DEF AckDue, Noticed
    <2>5. established /\ ~session => apart' <= Noticed
      <3>1. established => hostAge' <= HostIdle + PingInterval
        <4>1. pingDue' \in Int
          BY NumbersHold DEF KeepInv, TypeOK, Numbers
        <4>2. established => /\ hostAge' + pingDue' <= HostIdle + PingInterval
                             /\ hostAge' > 0 => pingDue' >= 0
          BY <1>1 DEF KeepInv, PingInv
        <4> QED
          BY <4>1, <4>2, TickNumbers, ConstantsAreNaturals
      <3> QED
        BY <1>1, <1>9, <3>1, TickNumbers, ConstantsAreNaturals DEF HostAloneInv, Noticed
    <2>6. apart' <= Noticed + MaxDelay + MaxDelay
      BY <1>1, <1>6, <1>7, <1>8, <2>2, <2>3, <2>4, <2>5, TickNumbers, StateNumbers,
         ConstantsAreNaturals
      DEF NeitherInv, VmAloneInv, KeepInv, TypeOK
    <2> QED
      BY <2>6, TickNumbers, ConstantsAreNaturals DEF TogetherAgain, Noticed
  <1> QED
    BY <1>1, <1>2, <1>3, <1>4, <1>6, <1>7, <1>8, <1>9, <1>10, <1>11 DEF BothInv

-----------------------------------------------------------------------------
(* The theorems *)

\* The state is typed, however far a timer that nobody looked at fell behind.
THEOREM KeepAliveTypeCorrect == Spec => []TypeOK
  BY KeepInvInvariant, PTL DEF KeepInv

\* For any timeouts, losses and delays, a host whose VM disappears knows it
\* within its idle timeout and one ping.
THEOREM HostsNotice == Spec => []HostNotices
  <1>1. KeepInv => HostNotices
    <2> SUFFICES ASSUME KeepInv, established
                 PROVE  hostAge <= HostIdle + PingInterval
      BY DEF HostNotices
    <2>1. hostAge \in Nat /\ pingDue \in Int
      BY NumbersHold, BoundsType DEF KeepInv, TypeOK, Numbers
    <2> QED
      BY <2>1, NumbersHold DEF KeepInv, PingInv, Numbers
  <1> QED
    BY <1>1, KeepInvInvariant, PTL

\* For any timeouts and however long its own threads take to be joined, the VM
\* keeps the devices of a silent host for its idle timeout and one sweep.
THEOREM DevicesAreReleased == Spec => []VmReleases
  <1>1. KeepInv => VmReleases
    <2> SUFFICES ASSUME KeepInv, session
                 PROVE  vmAge <= VmIdle + SweepInterval
      BY DEF VmReleases
    <2>1. vmAge \in Nat /\ sweepDue \in Int
      BY NumbersHold, BoundsType DEF KeepInv, TypeOK, Numbers
    <2> QED
      BY <2>1, NumbersHold DEF KeepInv, SweepInv, Numbers
  <1> QED
    BY <1>1, KeepInvInvariant, PTL

\* For any timeouts that are patient, and however many datagrams are lost, the
\* two never disagree on a good link for longer than each takes to give up the
\* other, whichever of them was restarted or cut off.
THEOREM TogetherAgainInTime ==
    ASSUME Patient
    PROVE  Spec => []TogetherAgain
  <1>1. KeepInv /\ ApartInv /\ KeepInv' /\ UNCHANGED vars => ApartInv'
    BY DEF ApartInv, AnswersInv, HelloInv, NeitherInv, VmAloneInv, BothInv, HostAloneInv,
           JoinInv, TogetherAgain, AskedBy, AckDue, Noticed, vars, hostVars, vmVars
  <1>2. KeepInv /\ KeepInv' /\ ApartInv /\ [Next]_vars => ApartInv'
    BY <1>1, HostApart, HostHearsApart, VmHearsApart, SweepApart, FaultsApart, TickApart
    DEF Next
  <1>3. ApartInv => TogetherAgain
    BY DEF ApartInv
  <1> QED
    BY <1>2, <1>3, InitApart, KeepInvInvariant, PTL DEF Spec

-----------------------------------------------------------------------------
(* A calm link *)

\* A datagram and its answer pass between two pings, and the pings that are not
\* lost outlast both idle timeouts.
Steady ==
    /\ 2 * MaxDelay < PingInterval
    /\ (MaxLosses + 1) * PingInterval <= HostIdle
    /\ (MaxLosses + 1) * PingInterval + 2 * MaxDelay <= VmIdle

\* The time of n pings.
Pings(n) == n * PingInterval

LEMMA PingsAdd ==
    ASSUME NEW n \in Nat
    PROVE  Pings(n) \in Nat /\ Pings(n + 1) = Pings(n) + PingInterval
  <1>1. PingInterval \in Nat
    BY ConstantsAreNaturals
  <1> QED
    BY <1>1 DEF Pings

LEMMA PingsGrow ==
    ASSUME NEW n \in Nat, NEW k \in Nat, n <= k
    PROVE  Pings(n) <= Pings(k)
  <1>1. PingInterval \in Nat
    BY ConstantsAreNaturals
  <1> QED
    BY <1>1 DEF Pings

\* The ping that the timer was last set for is under way, or its answer is.
PingUnderWay == \E m \in wire : m.type = "Ping" /\ pingDue + m.age >= PingInterval
PongUnderWay ==
    \E m \in wire : m.type \in ToHost /\ pingDue + m.age + MaxDelay >= PingInterval

\* While the link is calm each end has heard the other a ping and the pings
\* that were lost ago, or what it is about to hear is under way.
HeardInv ==
    \/ hostAge + pingDue <= Pings(losses + 1)
    \/ hostAge + pingDue <= Pings(losses + 2) /\ (PingUnderWay \/ PongUnderWay)

VmHeardInv ==
    \/ vmAge + pingDue <= Pings(losses + 1) + MaxDelay
    \/ vmAge + pingDue <= Pings(losses + 2) + MaxDelay /\ PingUnderWay

CalmInv ==
    /\ link
    /\ \A m \in wire : m.type \in ToHost => session /\ vmAge <= m.age
    /\ ~established => pingDue <= 0
    /\ established =>
        /\ session
        /\ vmAge <= hostAge + MaxDelay
        /\ HeardInv
        /\ VmHeardInv

LEMMA CalmNumbers ==
    ASSUME KeepInv
    PROVE  /\ pingDue \in Int /\ pingDue <= PingInterval
           /\ losses \in Nat /\ losses <= MaxLosses /\ MaxLosses \in Nat
           /\ Pings(losses + 1) \in Nat
           /\ Pings(losses + 2) = Pings(losses + 1) + PingInterval
           /\ PingInterval <= Pings(losses + 1)
           /\ established => hostAge = 0 \/ pingDue >= 0
  <1>1. /\ pingDue \in Int /\ pingDue <= PingInterval
        /\ losses \in Nat /\ losses <= MaxLosses /\ MaxLosses \in Nat
    BY NumbersHold DEF KeepInv, TypeOK, Numbers
  <1>2. Pings(losses + 1) \in Nat /\ Pings((losses + 1) + 1) = Pings(losses + 1) + PingInterval
    BY <1>1, PingsAdd
  <1>3. (losses + 1) + 1 = losses + 2
    BY <1>1
  <1>4. Pings(1) = PingInterval
    BY ConstantsAreNaturals DEF Pings
  <1>5. Pings(1) <= Pings(losses + 1)
    BY <1>1, PingsGrow
  <1>6. established => hostAge = 0 \/ pingDue >= 0
    BY StateNumbers DEF KeepInv, PingInv
  <1> QED
    BY <1>1, <1>2, <1>3, <1>4, <1>5, <1>6

\* When the next ping is due, the last one and its answer have arrived.
LEMMA NoneUnderWay ==
    ASSUME KeepInv, Steady, pingDue <= 0
    PROVE  ~PingUnderWay /\ ~PongUnderWay
  BY CalmNumbers, StateNumbers, ConstantsAreNaturals DEF Steady, PingUnderWay, PongUnderWay

\* Neither end gives up the other while the link is calm.
LEMMA NobodyGivesUp ==
    ASSUME KeepInv, CalmInv, Steady, established
    PROVE  vmAge <= VmIdle /\ (pingDue <= 0 => hostAge <= HostIdle)
  <1>1. Pings(losses + 1) <= (MaxLosses + 1) * PingInterval
    BY CalmNumbers, PingsGrow DEF Pings
  <1>2. Pings(losses + 1) <= HostIdle /\ Pings(losses + 1) + 2 * MaxDelay <= VmIdle
    <2>1. (MaxLosses + 1) * PingInterval \in Nat
      BY CalmNumbers, ConstantsAreNaturals
    <2> QED
      BY <1>1, <2>1, CalmNumbers, ConstantsAreNaturals DEF Steady
  <1>3. PingUnderWay => PingInterval <= pingDue + MaxDelay
    BY CalmNumbers, StateNumbers, ConstantsAreNaturals DEF PingUnderWay
  <1>4. vmAge <= VmIdle
    <2>1. CASE hostAge = 0
      BY <1>2, <2>1, CalmNumbers, StateNumbers, ConstantsAreNaturals DEF CalmInv
    <2>2. CASE pingDue >= 0
      BY <1>2, <1>3, <2>2, CalmNumbers, StateNumbers, ConstantsAreNaturals
      DEF CalmInv, VmHeardInv
    <2> QED
      BY <2>1, <2>2, CalmNumbers
  <1>5. pingDue <= 0 => hostAge <= HostIdle
    BY <1>2, NoneUnderWay, CalmNumbers, StateNumbers, ConstantsAreNaturals
    DEF CalmInv, HeardInv
  <1> QED
    BY <1>4, <1>5

LEMMA HostCalm ==
    ASSUME KeepInv, KeepInv', CalmInv, Steady, SendHello \/ SendPing \/ GiveUp
    PROVE  CalmInv' /\ (established => established' /\ session')
  <1> USE DEF CalmInv
  <1>1. CASE SendHello
    BY <1>1, CalmNumbers DEF SendHello, Posted, vmVars, ToHost
  <1>2. CASE SendPing
    <2>1. /\ established /\ established' /\ session' = session /\ vmAge' = vmAge
          /\ link' = link /\ hostAge' = hostAge /\ losses' = losses
          /\ pingDue <= 0 /\ pingDue' = pingDue + PingInterval
          /\ wire' = wire \cup {[type |-> "Ping", age |-> 0]}
      BY <1>2 DEF SendPing, PingTick, Posted, vmVars
    <2>2. \A m \in wire' : m.type \in ToHost => session' /\ vmAge' <= m.age
      BY <2>1 DEF ToHost
    <2>3. pingDue = 0 => PingUnderWay'
      <3> DEFINE ping == [type |-> "Ping", age |-> 0]
      <3>1. ping \in wire' /\ ping.type = "Ping" /\ ping.age = 0
        BY <2>1
      <3> HIDE DEF ping
      <3>2. pingDue = 0 => pingDue' + ping.age >= PingInterval
        BY <2>1, <3>1, ConstantsAreNaturals
      <3> QED
        BY <3>1, <3>2 DEF PingUnderWay
    <2>4. hostAge = 0 \/ pingDue = 0
      BY <2>1, CalmNumbers
    <2>5. HeardInv'
      <3>1. CASE hostAge = 0
        BY <2>1, <3>1, CalmNumbers, StateNumbers, ConstantsAreNaturals DEF HeardInv, Pings
      <3>2. CASE pingDue = 0
        <4>1. hostAge <= Pings(losses + 1)
          BY <2>1, <3>2, NoneUnderWay, CalmNumbers, StateNumbers DEF HeardInv
        <4>2. hostAge + pingDue' <= Pings(losses + 2)
          BY <2>1, <3>2, <4>1, CalmNumbers, StateNumbers, ConstantsAreNaturals
        <4> QED
          BY <2>1, <2>3, <3>2, <4>2 DEF HeardInv, Pings
      <3> QED
        BY <2>4, <3>1, <3>2
    <2>6. VmHeardInv'
      <3>1. CASE hostAge = 0
        BY <2>1, <3>1, CalmNumbers, StateNumbers, ConstantsAreNaturals DEF VmHeardInv, Pings
      <3>2. CASE pingDue = 0
        <4>1. vmAge <= Pings(losses + 1) + MaxDelay
          BY <2>1, <3>2, NoneUnderWay, CalmNumbers, StateNumbers, ConstantsAreNaturals
          DEF VmHeardInv
        <4>2. vmAge + pingDue' <= Pings(losses + 2) + MaxDelay
          BY <2>1, <3>2, <4>1, CalmNumbers, StateNumbers, ConstantsAreNaturals
        <4> QED
          BY <2>1, <2>3, <3>2, <4>2 DEF VmHeardInv, Pings
      <3> QED
        BY <2>4, <3>1, <3>2
    <2> QED
      BY <2>1, <2>2, <2>5, <2>6
  <1>3. ~GiveUp
    <2> SUFFICES ASSUME GiveUp
                 PROVE  FALSE
      OBVIOUS
    <2>1. established /\ pingDue <= 0 /\ hostAge > HostIdle
      BY DEF GiveUp, PingTick
    <2>2. hostAge <= HostIdle
      BY <2>1, NobodyGivesUp
    <2> QED
      BY <2>1, <2>2, StateNumbers, ConstantsAreNaturals
  <1> QED
    BY <1>1, <1>2, <1>3

LEMMA HostHearsCalm ==
    ASSUME KeepInv, KeepInv', CalmInv, Steady, NEW m \in wire, RecvAck(m) \/ RecvPong(m)
    PROVE  CalmInv' /\ (established => established' /\ session')
  <1> USE DEF CalmInv
  <1>1. /\ m.type \in ToHost /\ wire' = wire \ {m} /\ hostAge' = 0 /\ losses' = 0
        /\ pingDue' = pingDue /\ session' = session /\ vmAge' = vmAge /\ link' = link
        /\ established' = established \/ established'
        /\ session /\ vmAge <= m.age
    BY DEF RecvAck, RecvPong, HostHears, vmVars, ToHost
  <1>2. vmAge <= MaxDelay
    BY <1>1, StateNumbers, ConstantsAreNaturals
  <1>3. Pings(0 + 1) = PingInterval
    BY ConstantsAreNaturals DEF Pings
  <1>4. HeardInv'
    <2>1. 0 + pingDue <= Pings(0 + 1)
      BY <1>3, CalmNumbers, ConstantsAreNaturals
    <2> QED
      BY <1>1, <2>1 DEF HeardInv, Pings
  <1>5. VmHeardInv'
    <2>1. vmAge + pingDue <= Pings(0 + 1) + MaxDelay
      BY <1>2, <1>3, CalmNumbers, StateNumbers, ConstantsAreNaturals
    <2> QED
      BY <1>1, <2>1 DEF VmHeardInv, Pings
  <1>6. vmAge' <= hostAge' + MaxDelay
    BY <1>1, <1>2, ZeroPlus, ConstantsAreNaturals
  <1> QED
    BY <1>1, <1>4, <1>5, <1>6

LEMMA VmHearsCalm ==
    ASSUME KeepInv, KeepInv', CalmInv, Steady, NEW m \in wire,
           RecvHello(m) \/ RecvPing(m)
    PROVE  CalmInv' /\ (established => established' /\ session')
  <1> USE DEF CalmInv
  <1>1. /\ vmAge' = 0 /\ hostAge' = hostAge /\ pingDue' = pingDue
        /\ established' = established /\ link' = link /\ losses' = losses
        /\ session => session'
    BY DEF RecvHello, RecvPing, hostVars
  <1>2. \A n \in wire' : n.type \in ToHost => session' /\ vmAge' <= n.age
    <2>1. \A n \in wire' : n.age >= 0
      BY NumbersHold DEF KeepInv, TypeOK, Numbers
    <2>2. \A n \in wire' : n.type \in ToHost => session'
      BY DEF RecvHello, RecvPing, Posted
    <2> QED
      BY <1>1, <2>1, <2>2
  <1>3. VmHeardInv'
    <2>1. 0 + pingDue <= Pings(losses + 1) + MaxDelay
      BY CalmNumbers, ConstantsAreNaturals
    <2> QED
      BY <1>1, <2>1 DEF VmHeardInv, Pings
  <1>4. established => vmAge' <= hostAge' + MaxDelay
    BY <1>1, StateNumbers, ConstantsAreNaturals
  <1>5. established => HeardInv'
    <2>1. CASE RecvHello(m)
      <3>1. m.type = "Hello" /\ (wire \ {m}) \subseteq wire'
        BY <2>1 DEF RecvHello, Posted
      <3>2. (PingUnderWay => PingUnderWay') /\ (PongUnderWay => PongUnderWay')
        BY <1>1, <3>1 DEF PingUnderWay, PongUnderWay, ToHost
      <3> QED
        BY <1>1, <3>2 DEF HeardInv, Pings
    <2>2. CASE RecvPing(m) /\ established
      <3>1. wire' = (wire \ {m}) \cup {[type |-> "Pong", age |-> 0]} /\ m.type = "Ping"
        BY <2>2 DEF RecvPing, Posted
      <3>2. PongUnderWay => PongUnderWay'
        BY <1>1, <3>1 DEF PongUnderWay, ToHost
      <3>3. PingUnderWay => PingUnderWay' \/ PongUnderWay'
        <4> SUFFICES ASSUME NEW n \in wire, n.type = "Ping", pingDue + n.age >= PingInterval
                     PROVE  PingUnderWay' \/ PongUnderWay'
          BY DEF PingUnderWay
        <4>1. CASE n = m
          <5> DEFINE pong == [type |-> "Pong", age |-> 0]
          <5>1. pong \in wire' /\ pong.type \in ToHost /\ pong.age = 0
            BY <3>1 DEF ToHost
          <5> HIDE DEF pong
          <5>2. pingDue' + pong.age + MaxDelay >= PingInterval
            BY <1>1, <5>1, CalmNumbers, StateNumbers, ConstantsAreNaturals
          <5> QED
            BY <5>1, <5>2 DEF PongUnderWay
        <4>2. CASE n # m
          BY <1>1, <3>1, <4>2 DEF PingUnderWay
        <4> QED
          BY <4>1, <4>2
      <3> QED
        BY <1>1, <3>2, <3>3 DEF HeardInv, Pings
    <2> QED
      BY <2>1, <2>2
  <1> QED
    BY <1>1, <1>2, <1>3, <1>4, <1>5

LEMMA VmCalm ==
    ASSUME KeepInv, KeepInv', CalmInv, Steady, Sweep
    PROVE  CalmInv' /\ (established => established' /\ session')
  <1> USE DEF CalmInv
  <1>1. /\ wire' = wire /\ link' = link /\ losses' = losses /\ established' = established
        /\ hostAge' = hostAge /\ pingDue' = pingDue
    BY DEF Sweep, hostVars
  <1>2. CASE Sweeps
    <2>1. session /\ vmAge > VmIdle
      BY <1>2 DEF Sweeps
    <2>2. ~established
      BY <2>1, NobodyGivesUp, StateNumbers, ConstantsAreNaturals
    <2>3. \A m \in wire : ~(vmAge <= m.age)
      <3>1. MaxDelay <= VmIdle
        <4>1. (MaxLosses + 1) * PingInterval \in Nat
          BY CalmNumbers, ConstantsAreNaturals
        <4> QED
          BY <4>1, ConstantsAreNaturals DEF Steady
      <3> QED
        BY <2>1, <3>1, StateNumbers, ConstantsAreNaturals
    <2> QED
      BY <1>1, <2>2, <2>3
  <1>3. CASE ~Sweeps
    <2>1. session' = session /\ vmAge' = vmAge
      BY <1>3 DEF Sweep
    <2> QED
      BY <1>1, <2>1 DEF HeardInv, VmHeardInv, PingUnderWay, PongUnderWay, Pings
  <1> QED
    BY <1>2, <1>3

\* A datagram that is lost is one more ping to wait for.
LEMMA LoseCalm ==
    ASSUME KeepInv, KeepInv', CalmInv, NEW m \in wire, Lose(m)
    PROVE  CalmInv' /\ (established => established' /\ session')
  <1> USE DEF CalmInv
  <1>1. /\ wire' = wire \ {m} /\ link' = link /\ losses' = losses + 1
        /\ established' = established /\ hostAge' = hostAge /\ pingDue' = pingDue
        /\ session' = session /\ vmAge' = vmAge
    BY DEF Lose, hostVars, vmVars
  <1>2. Pings(losses' + 1) = Pings(losses + 2)
    <2>1. (losses + 1) + 1 = losses + 2
      BY CalmNumbers
    <2> QED
      BY <1>1, <2>1
  <1>3. established => hostAge + pingDue <= Pings(losses + 2)
    BY CalmNumbers, StateNumbers, ConstantsAreNaturals DEF HeardInv
  <1>4. established => vmAge + pingDue <= Pings(losses + 2) + MaxDelay
    BY CalmNumbers, StateNumbers, ConstantsAreNaturals DEF VmHeardInv
  <1>5. established => HeardInv' /\ VmHeardInv'
    BY <1>1, <1>2, <1>3, <1>4 DEF HeardInv, VmHeardInv, Pings
  <1> QED
    BY <1>1, <1>5

LEMMA TickCalm ==
    ASSUME KeepInv, KeepInv', CalmInv, Steady, Tick
    PROVE  CalmInv' /\ (established => established' /\ session')
  <1> USE DEF CalmInv
  <1>1. /\ link' = link /\ losses' = losses /\ established' = established
        /\ session' = session /\ pingDue' = Sooner(pingDue)
    BY DEF Tick
  <1>2. \A n \in wire' : n.type \in ToHost => session' /\ vmAge' <= n.age
    <2> SUFFICES ASSUME NEW n \in wire', n.type \in ToHost
                 PROVE  session /\ vmAge' <= n.age
      BY <1>1
    <2>1. PICK m \in wire : n.type = m.type /\ n.age = m.age + 1
      BY TickAged
    <2> QED
      BY <2>1, TickNumbers, StateNumbers
  <1>3. ~established => pingDue' <= 0
    BY <1>1, CalmNumbers DEF Sooner
  <1>4. ASSUME established
        PROVE  vmAge' <= hostAge' + MaxDelay /\ HeardInv' /\ VmHeardInv'
    <2>1. pingDue > 0 /\ pingDue' = pingDue - 1
      BY <1>1, <1>4, NumbersHold, CalmNumbers DEF Tick, Sooner, Numbers
    <2>2. vmAge' <= hostAge' + MaxDelay
      BY <1>4, TickNumbers, StateNumbers, ConstantsAreNaturals
    <2>3. ASSUME NEW m \in wire
          PROVE  \E n \in wire' : n.type = m.type /\ n.age = m.age + 1
      <3>1. busy = 0
        BY <1>4 DEF KeepInv, SweepInv
      <3>2. ~(busy > 0)
        BY <3>1
      <3> QED
        BY <3>2, TickAges
    <2>4. PingUnderWay => PingUnderWay'
      <3> SUFFICES ASSUME NEW m \in wire, m.type = "Ping", pingDue + m.age >= PingInterval
                   PROVE  PingUnderWay'
        BY DEF PingUnderWay
      <3>1. PICK n \in wire' : n.type = m.type /\ n.age = m.age + 1
        BY <2>3
      <3>2. pingDue' + n.age >= PingInterval
        BY <2>1, <3>1, CalmNumbers, StateNumbers
      <3> QED
        BY <3>1, <3>2 DEF PingUnderWay
    <2>5. PongUnderWay => PongUnderWay'
      <3> SUFFICES ASSUME NEW m \in wire, m.type \in ToHost,
                          pingDue + m.age + MaxDelay >= PingInterval
                   PROVE  PongUnderWay'
        BY DEF PongUnderWay
      <3>1. PICK n \in wire' : n.type = m.type /\ n.age = m.age + 1
        BY <2>3
      <3>2. pingDue' + n.age + MaxDelay >= PingInterval
        BY <2>1, <3>1, CalmNumbers, StateNumbers, ConstantsAreNaturals
      <3> QED
        BY <3>1, <3>2 DEF PongUnderWay
    <2>6. hostAge' + pingDue' <= hostAge + pingDue /\ vmAge' + pingDue' <= vmAge + pingDue
      BY <2>1, TickNumbers, StateNumbers, CalmNumbers
    <2>7. \A n \in Nat : hostAge + pingDue <= n => hostAge' + pingDue' <= n
      BY <2>1, <2>6, TickNumbers, StateNumbers, CalmNumbers
    <2>8. \A n \in Nat : vmAge + pingDue <= n => vmAge' + pingDue' <= n
      BY <2>1, <2>6, TickNumbers, StateNumbers, CalmNumbers
    <2>9. HeardInv'
      BY <1>1, <1>4, <2>4, <2>5, <2>7, CalmNumbers, ConstantsAreNaturals DEF HeardInv, Pings
    <2>10. VmHeardInv'
      <3>1. /\ Pings(losses + 1) + MaxDelay \in Nat /\ Pings(losses + 2) + MaxDelay \in Nat
        BY CalmNumbers, ConstantsAreNaturals
      <3> QED
        BY <1>1, <1>4, <2>4, <2>8, <3>1 DEF VmHeardInv, Pings
    <2> QED
      BY <2>2, <2>9, <2>10
  <1> QED
    BY <1>1, <1>2, <1>3, <1>4

\* For any timeouts and delays, as long as fewer datagrams are lost in a row
\* than both idle timeouts allow pings: neither end leaves a session that is up
\* unless the VM is restarted or the link goes down.
THEOREM CalmLinksStay ==
    ASSUME Steady
    PROVE  CalmSpec => Stays
  <1> DEFINE CInv == calm => CalmInv
             CNext == Next /\ calm' = (calm /\ ~Restart /\ ~Break)
  <1>1. calm = TRUE /\ Init => KeepInv /\ CInv
    BY InitKeeps DEF Init, CalmInv
  <1>2. KeepInv /\ Next => KeepInv'
    BY HostKeeps, DatagramKeeps, VmKeeps, TimeKeeps DEF Next
  <1>3. KeepInv /\ CalmInv /\ KeepInv' /\ Next /\ ~Restart /\ ~Break
            => CalmInv' /\ (established => established' /\ session')
    BY HostCalm, HostHearsCalm, VmHearsCalm, VmCalm, LoseCalm, TickCalm DEF Next
  <1>4. UNCHANGED <<vars, calm>> /\ KeepInv /\ CInv => KeepInv' /\ CInv'
    BY DEF KeepInv, TypeOK, PingInv, SweepInv, CalmInv, HeardInv, VmHeardInv,
           PingUnderWay, PongUnderWay, Pings, vars, hostVars, vmVars
  <1>5. KeepInv /\ CInv /\ [CNext]_<<vars, calm>> => KeepInv' /\ CInv'
    BY <1>2, <1>3, <1>4
  <1>6. KeepInv /\ CInv /\ [CNext]_<<vars, calm>>
            => [calm' /\ established => established' /\ session']_vars
    BY <1>2, <1>3 DEF vars
  <1> QED
    BY <1>1, <1>5, <1>6, PTL DEF CalmSpec, Stays
=============================================================================
