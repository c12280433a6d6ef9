---------------------------- MODULE PriorityTable ----------------------------
(***************************************************************************)
(* The contract between the two services that share the priorities of the  *)
(* snapshots: SnapshotServiceImpl and FamilySnapshotsManagerImpl make and  *)
(* remove the indicators, SnapshotIndicatorPriorityServiceImpl links       *)
(* priorities to them.  Modules Snapshots and Priorities each model one    *)
(* side call by call and the other as its environment; both implement this *)
(* specification, so each may rely on it.                                  *)
(***************************************************************************)
CONSTANTS SnapshotIds, PriorityIds,
          Null,   \* the link of a priority of no snapshot
          None    \* the link of a priority that is not there

VARIABLES link,            \* the snapshot of each priority
          indicators,      \* the snapshots that are there
          usedPriorities,  \* ids handed out
          usedSnapshots    \* ids that have appeared or never will

vars == <<link, indicators, usedPriorities, usedSnapshots>>

Init ==
    /\ link = [p \in PriorityIds |-> None]
    /\ indicators = {}
    /\ usedPriorities = {}
    /\ usedSnapshots = {}

Put(P, s) == link' = [p \in PriorityIds |-> IF p \in P THEN s ELSE link[p]]

(* SnapshotIndicatorPriorityServiceImpl.                                   *)

\* Priorities are made under new ids, or moved, all to one snapshot that is
\* there, or to none.
Save(P, s) ==
    /\ s = Null \/ s \in indicators
    /\ \A p \in P : link[p] # None \/ p \notin usedPriorities
    /\ Put(P, s)
    /\ usedPriorities' = usedPriorities \cup P
    /\ UNCHANGED <<indicators, usedSnapshots>>

\* A save that is refused after ids were drawn.
Waste(P) ==
    /\ usedPriorities' = usedPriorities \cup P
    /\ UNCHANGED <<link, indicators, usedSnapshots>>

(* Both sides delete priorities.                                           *)
Delete(P) ==
    /\ Put(P, None)
    /\ UNCHANGED <<indicators, usedPriorities, usedSnapshots>>

(* SnapshotServiceImpl and FamilySnapshotsManagerImpl.                      *)
Appear(s) ==
    /\ s \notin usedSnapshots
    /\ indicators' = indicators \cup {s}
    /\ usedSnapshots' = usedSnapshots \cup {s}
    /\ UNCHANGED <<link, usedPriorities>>

\* An id was drawn for a snapshot that is not stored.
Miss(s) ==
    /\ usedSnapshots' = usedSnapshots \cup {s}
    /\ UNCHANGED <<link, indicators, usedPriorities>>

\* A snapshot goes once its priorities are gone.
Remove(s) ==
    /\ \A p \in PriorityIds : link[p] # s
    /\ indicators' = indicators \ {s}
    /\ UNCHANGED <<link, usedPriorities, usedSnapshots>>

Next ==
    \/ \E P \in SUBSET PriorityIds :
         \/ Delete(P) \/ Waste(P)
         \/ \E s \in SnapshotIds \cup {Null} : Save(P, s)
    \/ \E s \in SnapshotIds : Appear(s) \/ Miss(s) \/ Remove(s)

Spec == Init /\ [][Next]_vars
=============================================================================
