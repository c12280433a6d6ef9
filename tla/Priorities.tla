------------------------------ MODULE Priorities ------------------------------
(***************************************************************************)
(* The priorities a family sets among the indicators of a snapshot:        *)
(* SnapshotIndicatorPriorityServiceImpl.                                   *)
(*                                                                         *)
(* No operation of the service is a transaction; each is a sequence of     *)
(* repository calls.  One action is one call with the Java code up to the  *)
(* next one.  An update loads a whole row and writes a whole row back, so  *)
(* what it loaded is a field of req[w].                                    *)
(*                                                                         *)
(* A priority refers to the indicator row of a snapshot; module Snapshots  *)
(* says how snapshots come and go.  Here they are the environment: an      *)
(* indicator appears under the next id and may be deleted while no         *)
(* priority refers to it.                                                  *)
(***************************************************************************)
EXTENDS Integers, FiniteSets

CONSTANTS
    Workers,        \* server threads
    Limit,          \* priorities a snapshot may have, 5 in the code
    Texts,          \* what a client writes: reason, action and date as one
    MaxSnapshots,   \* bound: indicator ids
    MaxPriorities,  \* bound: priority ids the sequence may hand out
    MaxFresh,       \* bound: items without an id in one POST .../list
    Null,           \* the SQL NULL in column snapshot_indicator
    None            \* no row under this id; in a request, no value

SnapshotIds == 1 .. MaxSnapshots
PriorityIds == 1 .. MaxPriorities

PriorityRow == [snapshot : SnapshotIds \cup {Null}, text : Texts]

Steps == {"idle", "insert", "saveList", "find", "save"}

\* row is the row the next write puts under id (a fresh one when inserting);
\* todo holds the ids a list still has to deal with, and fresh counts the
\* items of a POST .../list that come without an id.
Request == [step  : Steps,
            row   : PriorityRow \cup {None},
            id    : PriorityIds \cup {None},
            todo  : SUBSET PriorityIds,
            fresh : Nat]

Idle == [step |-> "idle", row |-> None, id |-> None, todo |-> {}, fresh |-> 0]

ASSUME BoundsAssumption ==
    /\ MaxSnapshots \in Nat /\ MaxPriorities \in Nat /\ MaxFresh \in Nat
    /\ Limit \in Nat \ {0}

ASSUME SentinelAssumption ==
    /\ None \notin Int /\ None \notin PriorityRow /\ None # Null
    /\ Null \notin Int

ASSUME WorkersAssumption == IsFiniteSet(Workers) /\ Workers # {}

VARIABLES
    priority,    \* table data_collect.snapshot_indicator_priorities
    prioSeq,     \* its id sequence: the last id handed out
    indicators,  \* ids in table data_collect.snapshots_indicators
    snapSeq,     \* its id sequence
    req,         \* the request each worker is serving
    listed       \* history: ids a POST .../list has written

vars == <<priority, prioSeq, indicators, snapSeq, req, listed>>

Init ==
    /\ priority = [p \in PriorityIds |-> None]
    /\ prioSeq = 0
    /\ indicators = {}
    /\ snapSeq = 0
    /\ req = [w \in Workers |-> Idle]
    /\ listed = {}

-----------------------------------------------------------------------------
Exists(p) == priority[p] # None
\* findBySnapshotIndicatorId, countAllBySnapshotIndicatorId
PrioritiesOf(s) == {p \in PriorityIds : Exists(p) /\ priority[p].snapshot = s}

\* Mutant: no foreign key.
LinkUnchecked(s) == s \in SnapshotIds \cup {Null}

\* The foreign key of column snapshot_indicator, which may be NULL.
Linkable(s) == s = Null \/ s \in indicators

At(w, s) == req[w].step = s
Set(w, r) == req' = [req EXCEPT ![w] = r]
\* The request ends, with its answer or with the exception of a failed call.
Finish(w) == Set(w, Idle)

-----------------------------------------------------------------------------
(* POST /snapshots/priority: addSnapshotIndicatorPriority                   *)

\* Mutant: the limit is off by one.
CountOffByOne(w, s, t) ==
    /\ At(w, "idle")
    /\ Cardinality(PrioritiesOf(s)) <= Limit
    /\ Set(w, [Idle EXCEPT !.step = "insert",
                           !.row = [snapshot |-> s, text |-> t]])
    /\ UNCHANGED <<priority, prioSeq, indicators, snapSeq, listed>>

\* Mutant: the arguments are swapped.
CountSwapped(w, s, t) ==
    /\ At(w, "idle")
    /\ Cardinality(PrioritiesOf(s)) < Limit
    /\ Set(w, [Idle EXCEPT !.step = "insert",
                           !.row = [snapshot |-> t, text |-> s]])
    /\ UNCHANGED <<priority, prioSeq, indicators, snapSeq, listed>>

\* A snapshot that has Limit priorities is refused, without a change.
CountPriorities(w, s, t) ==
    /\ At(w, "idle")
    /\ Cardinality(PrioritiesOf(s)) < Limit
    /\ Set(w, [Idle EXCEPT !.step = "insert",
                           !.row = [snapshot |-> s, text |-> t]])
    /\ UNCHANGED <<priority, prioSeq, indicators, snapSeq, listed>>

\* getOne returns a reference without looking the indicator up, so a missing
\* one is found by the foreign key, when the id has been taken.
InsertPriority(w) ==
    /\ At(w, "insert")
    /\ prioSeq < MaxPriorities
    /\ prioSeq' = prioSeq + 1
    /\ priority' = IF Linkable(req[w].row.snapshot)
                   THEN [priority EXCEPT ![prioSeq + 1] = req[w].row]
                   ELSE priority
    /\ Finish(w)
    /\ UNCHANGED <<indicators, snapSeq, listed>>

-----------------------------------------------------------------------------
(* POST /snapshots/priority/list: addSnapshotIndicadorPriorityList          *)

\* findOne answers null for an indicator that is not there, and the items
\* are then linked to nothing.  The limit is not looked at.
FindIndicator(w, s, t, ids, n) ==
    /\ At(w, "idle")
    /\ ids # {} \/ n > 0
    /\ Set(w, [Idle EXCEPT !.step = "saveList", !.todo = ids, !.fresh = n,
                 !.row = [snapshot |-> IF s \in indicators THEN s ELSE Null,
                          text |-> t]])
    /\ UNCHANGED <<priority, prioSeq, indicators, snapSeq, listed>>

\* save(Iterable) is one transaction: an item with the id of a row is merged
\* into it, whichever snapshot it belonged to, any other item gets a new id.
SaveList(w) ==
    LET found == {p \in req[w].todo : Exists(p)}
        last  == prioSeq + req[w].fresh + Cardinality(req[w].todo \ found)
        saved == found \cup (prioSeq + 1) .. last
    IN  /\ At(w, "saveList")
        /\ last <= MaxPriorities
        /\ prioSeq' = last
        /\ IF Linkable(req[w].row.snapshot)
           THEN /\ priority' = [p \in PriorityIds |->
                                  IF p \in saved THEN req[w].row
                                                 ELSE priority[p]]
                /\ listed' = listed \cup saved
           ELSE UNCHANGED <<priority, listed>>
        /\ Finish(w)
        /\ UNCHANGED <<indicators, snapSeq>>

-----------------------------------------------------------------------------
(* PUT /snapshots/priority: updateSnapshotIndicatorPriority                 *)
FindPriority(w, p, t) ==
    /\ At(w, "idle")
    /\ Exists(p)
    /\ Set(w, [Idle EXCEPT !.step = "save", !.id = p,
                           !.row = [priority[p] EXCEPT !.text = t]])
    /\ UNCHANGED <<priority, prioSeq, indicators, snapSeq, listed>>

(* PUT /snapshots/priority/list: updateSnapshotIndicatorPriorityList        *)
StartUpdateList(w, s, t, ids) ==
    /\ At(w, "idle")
    /\ ids # {}
    /\ Set(w, [Idle EXCEPT !.step = "find", !.todo = ids,
                           !.row = [snapshot |-> s, text |-> t]])
    /\ UNCHANGED <<priority, prioSeq, indicators, snapSeq, listed>>

\* Mutant: the item is looked up by its id alone.
FindNextAnywhere(w) ==
    /\ At(w, "find")
    /\ \/ Finish(w)
       \/ \E p \in req[w].todo :
            /\ Exists(p)
            /\ Set(w, [req[w] EXCEPT !.step = "save", !.id = p,
                                     !.todo = req[w].todo \ {p}])
    /\ UNCHANGED <<priority, prioSeq, indicators, snapSeq, listed>>

\* findBySnapshotIndicatorIdAndId for the next item, in the client's order.
\* An item that is not among the priorities of the snapshot, or whose date
\* does not parse, ends the request; the items before it stay saved.
FindNext(w) ==
    /\ At(w, "find")
    /\ \/ Finish(w)
       \/ \E p \in req[w].todo \cap PrioritiesOf(req[w].row.snapshot) :
            Set(w, [req[w] EXCEPT !.step = "save", !.id = p,
                                  !.todo = req[w].todo \ {p}])
    /\ UNCHANGED <<priority, prioSeq, indicators, snapSeq, listed>>

\* Mutant: a row that is gone is inserted again.
CanUpsert(w) == Linkable(req[w].row.snapshot)

\* save of a loaded row is an UPDATE of every column, the link as it was
\* loaded included; it fails when the row is gone or the link is refused.
CanSave(w) == Exists(req[w].id) /\ Linkable(req[w].row.snapshot)

SavePriority(w) ==
    /\ At(w, "save")
    /\ IF CanSave(w)
       THEN /\ priority' = [priority EXCEPT ![req[w].id] = req[w].row]
            /\ IF req[w].todo = {} THEN Finish(w)
               ELSE Set(w, [req[w] EXCEPT !.step = "find", !.id = None])
       ELSE UNCHANGED priority /\ Finish(w)
    /\ UNCHANGED <<prioSeq, indicators, snapSeq, listed>>

-----------------------------------------------------------------------------
\* DELETE /snapshots/priority/{id}, and each row a deleted snapshot takes
\* with it.  findOne and delete are two calls, but a row that vanishes
\* between them only makes the second one fail.
DeletePriority(p) ==
    /\ Exists(p)
    /\ priority' = [priority EXCEPT ![p] = None]
    /\ UNCHANGED <<prioSeq, indicators, snapSeq, req, listed>>

\* The environment: SnapshotServiceImpl and FamilySnapshotsManagerImpl.
AddIndicator ==
    /\ snapSeq < MaxSnapshots
    /\ snapSeq' = snapSeq + 1
    /\ indicators' = indicators \cup {snapSeq + 1}
    /\ UNCHANGED <<priority, prioSeq, req, listed>>

DeleteIndicator(s) ==
    /\ s \in indicators
    /\ PrioritiesOf(s) = {}
    /\ indicators' = indicators \ {s}
    /\ UNCHANGED <<priority, prioSeq, snapSeq, req, listed>>

\* The connection or the server goes away between two calls.
Abort(w) ==
    /\ ~At(w, "idle")
    /\ Finish(w)
    /\ UNCHANGED <<priority, prioSeq, indicators, snapSeq, listed>>

Next ==
    \/ \E w \in Workers :
         \/ \E s \in SnapshotIds, t \in Texts :
              \/ CountPriorities(w, s, t)
              \/ \E ids \in SUBSET PriorityIds :
                   \/ StartUpdateList(w, s, t, ids)
                   \/ \E n \in 0 .. MaxFresh : FindIndicator(w, s, t, ids, n)
         \/ \E p \in PriorityIds, t \in Texts : FindPriority(w, p, t)
         \/ InsertPriority(w) \/ SaveList(w) \/ FindNext(w) \/ SavePriority(w)
         \/ Abort(w)
    \/ \E p \in PriorityIds : DeletePriority(p)
    \/ AddIndicator
    \/ \E s \in SnapshotIds : DeleteIndicator(s)

Spec == Init /\ [][Next]_vars

-----------------------------------------------------------------------------
(* Properties                                                              *)

(* Every table and every request holds what its columns allow.             *)
TypeOK ==
    /\ priority \in [PriorityIds -> PriorityRow \cup {None}]
    /\ prioSeq \in 0 .. MaxPriorities
    /\ indicators \in SUBSET SnapshotIds
    /\ snapSeq \in 0 .. MaxSnapshots
    /\ req \in [Workers -> Request]
    /\ listed \in SUBSET PriorityIds

\* The priorities of a snapshot that were only ever added one by one, and
\* the requests that have passed the check and not inserted yet.
AddedSingly(s) == PrioritiesOf(s) \ listed
Adding(s) == {w \in Workers : At(w, "insert") /\ req[w].row.snapshot = s}

(* The check of the limit and the insert are separate transactions, so the  *)
(* limit can be overrun, but by no more than the requests that run at once: *)
(* with one worker it holds exactly.                                        *)
LimitOverrunBounded ==
    \A s \in SnapshotIds :
        Cardinality(AddedSingly(s)) + Cardinality(Adding(s))
            < Limit + Cardinality(Workers)

\* What a pending request holds can be written: an insert names a snapshot,
\* and an update has the link of its row unless a list has moved the row.
Pending(w) ==
    /\ ~At(w, "idle") => req[w].row # None
    /\ At(w, "insert") \/ At(w, "find") => req[w].row.snapshot \in SnapshotIds
    /\ At(w, "save") =>
         /\ req[w].id # None /\ req[w].id <= prioSeq
         /\ req[w].todo # {} => req[w].row.snapshot \in SnapshotIds
         /\ \/ req[w].id \in listed
            \/ /\ req[w].row.snapshot # Null
               /\ Exists(req[w].id) =>
                    priority[req[w].id].snapshot = req[w].row.snapshot

(* However updates, lists and deletions interleave, the copy an update is   *)
(* about to write back still has the link of its row, unless a list has     *)
(* taken the row: a PUT for one snapshot never touches those of another.    *)
PendingSound ==
    /\ \A p \in PriorityIds : Exists(p) => p <= prioSeq
    /\ \A w \in Workers : Pending(w)

(* Only POST .../list can leave a priority without a snapshot, and no       *)
(* priority refers to a deleted one: an update that writes back the link it *)
(* loaded revives neither a deleted snapshot nor a lost link.               *)
LinksSound ==
    \A p \in PriorityIds : Exists(p) =>
        \/ priority[p].snapshot \in indicators
        \/ priority[p].snapshot = Null /\ p \in listed

(* A deleted priority never comes back under its id, whatever copies of it  *)
(* pending updates hold, and only POST .../list ever moves a priority to    *)
(* another snapshot.                                                        *)
PriorityIdentity ==
    [][\A p \in PriorityIds :
         /\ p <= prioSeq /\ ~Exists(p) => ~Exists(p)'
         /\ Exists(p) /\ Exists(p)' /\ p \notin listed' =>
              priority'[p].snapshot = priority[p].snapshot]_vars

(* addSnapshotIndicatorPriority throws "There are already five priorities"  *)
(* to keep the priorities of a snapshot at five.                            *)
AtMostLimit == \A s \in SnapshotIds : Cardinality(AddedSingly(s)) <= Limit

\* The links alone.
Links == [p \in PriorityIds |-> IF Exists(p) THEN priority[p].snapshot ELSE None]

(* What module Snapshots relies on: whatever an update loaded and a list    *)
(* took over, a priority is only ever linked to an indicator that is there  *)
(* at that instant or to none, and one that was deleted stays deleted.      *)
Table == INSTANCE PriorityTable WITH
    link <- Links, usedPriorities <- 1 .. prioSeq, usedSnapshots <- 1 .. snapSeq
KeepsPriorityTable == Table!Spec

=============================================================================
