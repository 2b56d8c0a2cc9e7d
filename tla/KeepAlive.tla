----------------------------- MODULE KeepAlive -----------------------------
(***************************************************************************)
(* The timers that keep one host and the VM together, or tell them that    *)
(* they have lost each other: Hello, Ping and the idle timeout of the      *)
(* host, the sweep of the VM.  Neither direction carries audio (devices    *)
(* unplugged), so the pings have to do it alone.                           *)
(*                                                                         *)
(* Time passes in ticks and every time is kept relative to now: the age of *)
(* what was last heard, and how soon a timer is due, which is negative for *)
(* a timer that was not looked at since.  A tokio interval makes up for    *)
(* every tick it missed.  The age is 0 at an end where nobody looks at it: *)
(* at the host before an Ok, which is a datagram itself, and at the VM     *)
(* before a session.                                                       *)
(***************************************************************************)
EXTENDS Integers, FiniteSets

CONSTANTS
    HandshakeTimeout,   \* handshake_timeout_ms
    HostIdle,           \* idle_timeout_ms of the host
    PingInterval,       \* PING_INTERVAL
    VmIdle,             \* idle_timeout_ms of the VM
    SweepInterval,      \* SWEEP_INTERVAL
    MaxDelay,           \* the longest a datagram travels
    MaxJoin,            \* the longest shut_down blocks the VM
    MaxLosses,          \* datagrams lost between two that the host receives
    VmRestarts,         \* whether the VM may restart without a word
    LinkBreaks,         \* whether the link may go down, and up again
    MaxMissed           \* bound on how far a timer falls behind

ASSUME KeepAliveAssumption ==
    /\ HandshakeTimeout \in Nat \ {0}
    /\ PingInterval \in Nat \ {0} /\ SweepInterval \in Nat \ {0}
    /\ HostIdle \in Nat /\ VmIdle \in Nat
    /\ HandshakeTimeout <= HostIdle
    /\ MaxDelay \in Nat /\ MaxJoin \in Nat /\ MaxLosses \in Nat
    /\ VmRestarts \in BOOLEAN /\ LinkBreaks \in BOOLEAN
    /\ MaxMissed \in Nat

VARIABLES
    established,    \* host: an Ok was received
    hostAge,        \* host: last_rx.elapsed()
    helloDue,       \* host: hello_timer
    pingDue,        \* host: ping_timer
    session,        \* VM: the host's session is there
    vmAge,          \* VM: last_rx.elapsed()
    sweepDue,       \* VM: sweep
    busy,           \* VM: how long the loop is still blocked
    link,           \* the link is up
    wire,           \* the datagrams under way and their ages
    losses,         \* history: datagrams lost since the host heard one
    apart           \* history: how long the two have disagreed on a good link
                    \* on which nothing was lost

hostVars == <<established, hostAge, helloDue, pingDue>>
vmVars == <<session, vmAge, sweepDue, busy>>
vars == <<hostVars, vmVars, link, wire, losses, apart>>

\* One more than a bound that is looked at is as good as any larger value.
MaxAge == HostIdle + VmIdle + PingInterval + SweepInterval + MaxJoin + 1
MaxApart == MaxAge + HandshakeTimeout + 3 * MaxDelay

ToVm == {"Hello", "Ping"}
ToHost == {"HelloAck", "Pong"}

TypeOK ==
    /\ established \in BOOLEAN /\ session \in BOOLEAN /\ link \in BOOLEAN
    /\ hostAge \in 0 .. MaxAge /\ vmAge \in 0 .. MaxAge
    /\ apart \in 0 .. MaxApart
    /\ helloDue \in -MaxMissed .. HandshakeTimeout
    /\ pingDue \in -MaxMissed .. PingInterval
    /\ sweepDue \in -MaxMissed .. SweepInterval
    /\ busy \in 0 .. MaxJoin
    /\ wire \subseteq [type : ToVm \cup ToHost, age : 0 .. MaxDelay]
    /\ losses \in 0 .. MaxLosses

\* The first tick of an interval is due at once.
Init ==
    /\ established = FALSE /\ session = FALSE /\ link = TRUE
    /\ hostAge = 0 /\ vmAge = 0
    /\ helloDue = 0 /\ pingDue = 0 /\ sweepDue = 0
    /\ busy = 0
    /\ wire = {}
    /\ losses = 0
    /\ apart = 0

Posted(base, type) ==
    IF link THEN base \cup {[type |-> type, age |-> 0]} ELSE base

-----------------------------------------------------------------------------
(* The host *)

\* The mutant, for HelloTick, has the timer run on the idle timeout.
HelloTickIdle == helloDue <= 0 /\ helloDue' = helloDue + HostIdle
HelloTick == helloDue <= 0 /\ helloDue' = helloDue + HandshakeTimeout

\* `_ = hello_timer.tick(), if !established`.
SendHello ==
    /\ ~established
    /\ HelloTick
    /\ wire' = Posted(wire, "Hello")
    /\ UNCHANGED <<established, hostAge, pingDue, vmVars, link, losses, apart>>

PingTick ==
    /\ established
    /\ pingDue <= 0
    /\ pingDue' = pingDue + PingInterval

SendPing ==
    /\ PingTick
    /\ hostAge <= HostIdle
    /\ wire' = Posted(wire, "Ping")
    /\ UNCHANGED <<established, hostAge, helloDue, vmVars, link, losses, apart>>

\* The mutant warns and pings on.
GiveUpNever ==
    /\ PingTick
    /\ hostAge > HostIdle
    /\ UNCHANGED <<established, hostAge, helloDue, vmVars, link, wire, losses, apart>>

GiveUp ==
    /\ PingTick
    /\ hostAge > HostIdle
    /\ established' = FALSE
    /\ hostAge' = 0
    /\ UNCHANGED <<helloDue, vmVars, link, wire, losses, apart>>

HostHears(m) ==
    /\ m \in wire
    /\ wire' = wire \ {m}
    /\ hostAge' = 0
    /\ losses' = 0
    /\ UNCHANGED <<helloDue, pingDue, vmVars, link, apart>>

RecvAck(m) ==
    /\ m.type = "HelloAck"
    /\ HostHears(m)
    /\ established' = TRUE

RecvPong(m) ==
    /\ m.type = "Pong"
    /\ HostHears(m)
    /\ UNCHANGED established

-----------------------------------------------------------------------------
(* The VM *)

VmTakes(m) == busy = 0 /\ m \in wire

\* The mutant, for RecvHello, has nothing to say when the session is there.
RecvHelloUnanswered(m) ==
    /\ m.type = "Hello"
    /\ VmTakes(m)
    /\ session' = TRUE
    /\ vmAge' = 0
    /\ wire' = IF session THEN wire \ {m} ELSE Posted(wire \ {m}, "HelloAck")
    /\ UNCHANGED <<hostVars, sweepDue, busy, link, losses, apart>>

\* A new session, or the one that is there is kept; either is answered.
RecvHello(m) ==
    /\ m.type = "Hello"
    /\ VmTakes(m)
    /\ session' = TRUE
    /\ vmAge' = 0
    /\ wire' = Posted(wire \ {m}, "HelloAck")
    /\ UNCHANGED <<hostVars, sweepDue, busy, link, losses, apart>>

\* The mutant, for RecvPing, answers without noting that it heard something.
RecvPingUnnoted(m) ==
    /\ m.type = "Ping"
    /\ VmTakes(m)
    /\ wire' = IF session THEN Posted(wire \ {m}, "Pong") ELSE wire \ {m}
    /\ UNCHANGED <<hostVars, vmVars, link, losses, apart>>

RecvPing(m) ==
    /\ m.type = "Ping"
    /\ VmTakes(m)
    /\ vmAge' = 0
    /\ wire' = IF session THEN Posted(wire \ {m}, "Pong") ELSE wire \ {m}
    /\ UNCHANGED <<hostVars, session, sweepDue, busy, link, losses,
                   apart>>

\* The mutant, for Sweeps, lets a silent host keep the devices.
SweepsNobody == FALSE
Sweeps == session /\ vmAge > VmIdle

\* `_ = sweep.tick()`; joining the threads of the session blocks the loop.
Sweep ==
    /\ busy = 0
    /\ sweepDue <= 0
    /\ sweepDue' = sweepDue + SweepInterval
    /\ IF Sweeps
       THEN /\ session' = FALSE
            /\ vmAge' = 0
            /\ busy' \in 0 .. MaxJoin
       ELSE UNCHANGED <<session, vmAge, busy>>
    /\ UNCHANGED <<hostVars, link, wire, losses, apart>>

\* The agent is killed and started again; its sockets' datagrams are gone.
Restart ==
    /\ VmRestarts
    /\ session
    /\ session' = FALSE
    /\ vmAge' = 0 /\ busy' = 0 /\ sweepDue' = 0
    /\ wire' = {m \in wire : m.type \in ToHost}
    /\ apart' = 0
    /\ UNCHANGED <<hostVars, link, losses>>

-----------------------------------------------------------------------------
(* The network and the clock *)

Lose(m) ==
    /\ losses < MaxLosses
    /\ m \in wire
    /\ wire' = wire \ {m}
    /\ losses' = losses + 1
    /\ apart' = 0
    /\ UNCHANGED <<hostVars, vmVars, link>>

Break ==
    /\ LinkBreaks
    /\ link' = ~link
    /\ wire' = {}
    /\ apart' = 0
    /\ UNCHANGED <<hostVars, vmVars, losses>>

\* What waits for the VM in its socket while its loop is blocked.
Held(m) == m.type \in ToVm /\ busy > 0

Older(n, bound) == IF n < bound THEN n + 1 ELSE n
Sooner(due) == IF due > -MaxMissed THEN due - 1 ELSE due

\* Time passes when no timer that is looked at is due and no datagram is late.
Tick ==
    /\ IF established THEN pingDue > 0 ELSE helloDue > 0
    /\ busy > 0 \/ sweepDue > 0
    /\ \A m \in wire : m.age < MaxDelay \/ Held(m)
    /\ hostAge' = IF established THEN Older(hostAge, MaxAge) ELSE 0
    /\ vmAge' = IF session THEN Older(vmAge, MaxAge) ELSE 0
    /\ helloDue' = Sooner(helloDue)
    /\ pingDue' = Sooner(pingDue)
    /\ sweepDue' = Sooner(sweepDue)
    /\ busy' = IF busy > 0 THEN busy - 1 ELSE 0
    /\ wire' = {[m EXCEPT !.age = Older(@, MaxDelay)] : m \in wire}
    /\ apart' = IF link /\ ~(established /\ session) THEN Older(apart, MaxApart)
                ELSE 0
    /\ UNCHANGED <<established, session, link, losses>>

Next ==
    \/ SendHello \/ SendPing \/ GiveUp
    \/ \E m \in wire : RecvAck(m) \/ RecvPong(m) \/ RecvHello(m)
                       \/ RecvPing(m) \/ Lose(m)
    \/ Sweep \/ Restart \/ Break \/ Tick

Spec == Init /\ [][Next]_vars

-----------------------------------------------------------------------------
(* Properties *)

\* However the VM or the link disappears, the host knows within its idle
\* timeout and one ping.
HostNotices == established => hostAge <= HostIdle + PingInterval

\* A host that is gone holds the audio devices for the idle timeout of the VM
\* and one sweep, no longer.
VmReleases == session => vmAge <= VmIdle + SweepInterval

\* After a restart of the VM that no Bye announced, or an interruption, the two
\* are together again within the time it takes each to give up the other.
TogetherAgain ==
    apart <= HostIdle + PingInterval + 3 * MaxDelay
=============================================================================
