------------------------------- MODULE Lease --------------------------------
(***************************************************************************)
(* What the VM agent promises about its session, without datagrams: its    *)
(* audio devices are leased to one process at a time.  A process that is   *)
(* entitled to the lease gets it when nobody has it, when it lapsed, or    *)
(* when it is at the place of the holder; a live lease is given up when    *)
(* its holder is gone, or, if granting may fail, for a process it would    *)
(* have been granted to.                                                   *)
(***************************************************************************)
CONSTANTS
    Process, PlaceOf, Entitled, NoOne,
    MayFail     \* whether granting a lease may fail

VARIABLES
    serving,    \* the lessor is there
    holder,     \* the process that has the lease
    live,       \* it was heard of lately
    gone        \* the processes that ended

vars == <<serving, holder, live, gone>>

Init ==
    /\ serving = FALSE
    /\ holder = NoOne
    /\ live = FALSE
    /\ gone = {}

Vacant == holder' = NoOne /\ live' = FALSE

Start ==
    /\ ~serving
    /\ serving' = TRUE
    /\ UNCHANGED <<holder, live, gone>>

Stop ==
    /\ serving
    /\ serving' = FALSE
    /\ Vacant
    /\ UNCHANGED gone

Leave(p) ==
    /\ p \notin gone
    /\ gone' = gone \cup {p}
    /\ UNCHANGED <<serving, holder, live>>

MayTake(p) ==
    /\ p \in Entitled
    /\ holder = NoOne \/ ~live \/ PlaceOf[p] = PlaceOf[holder]

\* To a new holder or, again, to the one that has it.
Grant(p) ==
    /\ serving
    /\ MayTake(p)
    /\ holder' = p
    /\ live' = TRUE
    /\ UNCHANGED <<serving, gone>>

Renew ==
    /\ serving
    /\ holder # NoOne
    /\ live' = TRUE
    /\ UNCHANGED <<serving, holder, gone>>

Lapse ==
    /\ holder # NoOne
    /\ live' = FALSE
    /\ UNCHANGED <<serving, holder, gone>>

GiveUp ==
    /\ serving
    /\ holder # NoOne
    /\ \/ ~live
       \/ holder \in gone
       \/ MayFail /\ \E p \in Process \ {holder} : MayTake(p)
    /\ Vacant
    /\ UNCHANGED <<serving, gone>>

Next ==
    \/ Start \/ Stop \/ Renew \/ Lapse \/ GiveUp
    \/ \E p \in Process : Leave(p) \/ Grant(p)

Spec == Init /\ [][Next]_vars
=============================================================================
