------------------------------ MODULE Snapshots ------------------------------
(***************************************************************************)
(* The life cycle of families and of the snapshots taken of them.          *)
(*                                                                         *)
(* SnapshotServiceImpl adds a snapshot in one transaction; every other     *)
(* operation (SnapshotServiceImpl.deleteSnapshotById and                   *)
(* FamilySnapshotsManagerImpl.deleteSnapshotByFamily) is a sequence of     *)
(* repository calls, each a transaction of its own, so the requests of two *)
(* server threads interleave between the calls.  One action is one such    *)
(* call with the Java code up to the next call; what the request remembers *)
(* from one call to the next is a field of req[w].                         *)
(*                                                                         *)
(* The priorities of a snapshot are written by module Priorities; here     *)
(* only the rows matter, because the database refuses to delete an         *)
(* indicator a priority refers to.  The indicator row of a snapshot is     *)
(* inserted and deleted with its economic row (CascadeType.ALL), so one    *)
(* entry of economic stands for both.                                      *)
(***************************************************************************)
EXTENDS Integers, FiniteSets

CONSTANTS
    Workers,        \* server threads, each handles one request at a time
    Codes,          \* family codes, FamilyServiceImpl.generateFamilyCode
    MaxFamilies,    \* bound: family ids the sequence may hand out
    MaxSnapshots,   \* bound: snapshot ids
    MaxPriorities,  \* bound: priority ids
    Null,           \* the SQL NULL in a foreign key column
    None            \* no row under this id; in a request, no value

FamilyIds   == 1 .. MaxFamilies
SnapshotIds == 1 .. MaxSnapshots
PriorityIds == 1 .. MaxPriorities

\* The columns of ps_families.family the operations read or write.  person
\* says whether person_reference_id is set: only a family made from a
\* snapshot has one, POST /families leaves it NULL.
FamilyRow == [code : Codes, active : BOOLEAN, person : BOOLEAN]

Ops   == {"none", "addSnapshot", "deleteSnapshot", "deleteFamily"}
Steps == {"idle", "persist", "commit", "pickNewest", "listPriorities",
          "purgePriorities", "deleteEconomic", "countRemaining",
          "deleteFamilyRow", "deactivate"}

\* row is the family row the request will write: the one addSnapshot inserts
\* (None when the family already exists), the copy deleteFamily has loaded.
Request == [op       : Ops,
            step     : Steps,
            family   : FamilyIds \cup {None},
            snapshot : SnapshotIds \cup {None},
            prios    : SUBSET PriorityIds,
            row      : FamilyRow \cup {None}]

Idle == [op |-> "none", step |-> "idle", family |-> None, snapshot |-> None,
         prios |-> {}, row |-> None]

ASSUME BoundsAssumption ==
    MaxFamilies \in Nat /\ MaxSnapshots \in Nat /\ MaxPriorities \in Nat

ASSUME SentinelAssumption ==
    /\ None \notin Int /\ None \notin FamilyRow /\ None # Null
    /\ Null \notin Int

ASSUME WorkersAssumption == IsFiniteSet(Workers) /\ Workers # {}

VARIABLES
    family,    \* table ps_families.family
    famSeq,    \* its id sequence: the last id handed out
    economic,  \* table data_collect.snapshots_economics: its family_id
    snapSeq,   \* its id sequence
    priority,  \* table snapshot_indicator_priorities: its snapshot_indicator
    prioSeq,   \* its id sequence
    req,       \* the request each worker is serving
    lost       \* history: families whose clean-up was cut short by an abort

vars == <<family, famSeq, economic, snapSeq, priority, prioSeq, req, lost>>

Init ==
    /\ family = [f \in FamilyIds |-> None]
    /\ famSeq = 0
    /\ economic = [s \in SnapshotIds |-> None]
    /\ snapSeq = 0
    /\ priority = [p \in PriorityIds |-> None]
    /\ prioSeq = 0
    /\ req = [w \in Workers |-> Idle]
    /\ lost = {}

-----------------------------------------------------------------------------
(* The queries of the repositories.                                        *)

\* Mutant: the query overlooks families that were deactivated.
FindActiveByCode(c) ==
    {f \in FamilyIds : family[f] # None /\ family[f].code = c /\ family[f].active}

FindByCode(c) == {f \in FamilyIds : family[f] # None /\ family[f].code = c}
SnapshotsOf(f) == {s \in SnapshotIds : economic[s] = f}
PrioritiesOf(s) == {p \in PriorityIds : priority[p] = s}

At(w, s) == req[w].step = s
Set(w, r) == req' = [req EXCEPT ![w] = r]
Goto(w, s) == Set(w, [req[w] EXCEPT !.step = s])
\* The request ends, with its answer or with the exception of a failed call.
Finish(w) == Set(w, Idle)

-----------------------------------------------------------------------------
(* POST /snapshots: SnapshotServiceImpl.addSurveySnapshot.  Its inserts are *)
(* flushed when the transaction commits.                                    *)

\* A rejected snapshot (checkSchemaCompliance) changes nothing, and neither
\* does a code two families share: findByCode throws.
LookupFamily(w, c) ==
    /\ At(w, "idle")
    /\ Cardinality(FindByCode(c)) <= 1
    /\ \/ /\ FindByCode(c) = {}
          /\ Set(w, [Idle EXCEPT !.op = "addSnapshot", !.step = "persist",
                       !.row = [code |-> c, active |-> TRUE, person |-> TRUE]])
       \/ \E f \in FindByCode(c) :
            Set(w, [Idle EXCEPT !.op = "addSnapshot", !.step = "persist",
                                !.family = f])
    /\ UNCHANGED <<family, famSeq, economic, snapSeq, priority, prioSeq, lost>>

\* persist() takes the ids from the sequences, which no rollback gives back.
PersistNewFamily(w) ==
    /\ At(w, "persist") /\ req[w].row # None
    /\ famSeq < MaxFamilies /\ snapSeq < MaxSnapshots
    /\ famSeq' = famSeq + 1
    /\ snapSeq' = snapSeq + 1
    /\ Set(w, [req[w] EXCEPT !.step = "commit", !.family = famSeq + 1,
                              !.snapshot = snapSeq + 1])
    /\ UNCHANGED <<family, economic, priority, prioSeq, lost>>

\* Mutant: the id is computed from the rows that are left.
PersistCountingRows(w) ==
    /\ At(w, "persist") /\ req[w].row = None
    /\ snapSeq < MaxSnapshots
    /\ snapSeq' = snapSeq + 1
    /\ LET rows == {s \in SnapshotIds : economic[s] # None}
       IN  Set(w, [req[w] EXCEPT !.step = "commit",
                                 !.snapshot = Cardinality(rows) + 1])
    /\ UNCHANGED <<family, famSeq, economic, priority, prioSeq, lost>>

\* Mutant: the sequence is read and not advanced.
PersistWithoutAdvance(w) ==
    /\ At(w, "persist") /\ req[w].row = None
    /\ snapSeq < MaxSnapshots
    /\ Set(w, [req[w] EXCEPT !.step = "commit", !.snapshot = snapSeq + 1])
    /\ UNCHANGED <<family, famSeq, economic, snapSeq, priority, prioSeq, lost>>

PersistInFamily(w) ==
    /\ At(w, "persist") /\ req[w].row = None
    /\ snapSeq < MaxSnapshots
    /\ snapSeq' = snapSeq + 1
    /\ Set(w, [req[w] EXCEPT !.step = "commit", !.snapshot = snapSeq + 1])
    /\ UNCHANGED <<family, famSeq, economic, priority, prioSeq, lost>>

\* Mutant: no foreign key.
FamilyAssumedPresent(w) == req[w].row # None \/ req[w].family \in FamilyIds

\* The foreign key to family refuses the snapshot when the family it was
\* meant for has been deleted since the look-up.
FamilyPresent(w) == req[w].row # None \/ family[req[w].family] # None

CommitSnapshot(w) ==
    /\ At(w, "commit")
    /\ IF FamilyPresent(w)
       THEN /\ economic' = [economic EXCEPT ![req[w].snapshot] = req[w].family]
            /\ family' = IF req[w].row = None THEN family
                         ELSE [family EXCEPT ![req[w].family] = req[w].row]
            /\ lost' = lost \ {req[w].family}
       ELSE UNCHANGED <<economic, family, lost>>
    /\ Finish(w)
    /\ UNCHANGED <<famSeq, snapSeq, priority, prioSeq>>

-----------------------------------------------------------------------------
(* DELETE /snapshots/{id} starts here; an unknown id changes nothing.       *)

FindSnapshot(w, s) ==
    /\ At(w, "idle")
    /\ economic[s] # None
    /\ Set(w, [Idle EXCEPT !.op = "deleteSnapshot", !.step = "listPriorities",
                           !.family = economic[s], !.snapshot = s])
    /\ UNCHANGED <<family, famSeq, economic, snapSeq, priority, prioSeq, lost>>

(* DELETE /families/{id} starts here: deleteSnapshotByFamily loads the row  *)
(* it will write back at the end.                                           *)
FindFamily(w, f) ==
    /\ At(w, "idle")
    /\ family[f] # None
    /\ Set(w, [Idle EXCEPT !.op = "deleteFamily", !.step = "pickNewest",
                           !.family = f, !.row = family[f]])
    /\ UNCHANGED <<family, famSeq, economic, snapSeq, priority, prioSeq, lost>>

\* findTopByFamilyFamilyIdOrderByIdDesc.  A family without snapshots is only
\* deactivated, and so is one whose newest snapshot is out of the window of
\* Period.getDays() < 30, which the calendar opens and closes every month.
PickNewest(w) ==
    /\ At(w, "pickNewest")
    /\ \/ Goto(w, "deactivate")
       \/ \E s \in SnapshotsOf(req[w].family) :
            /\ \A t \in SnapshotsOf(req[w].family) : t <= s
            /\ Set(w, [req[w] EXCEPT !.step = "listPriorities",
                                     !.snapshot = s])
    /\ UNCHANGED <<family, famSeq, economic, snapSeq, priority, prioSeq, lost>>

-----------------------------------------------------------------------------
(* The calls the two deletions have in common.                             *)

\* Mutant: collects the snapshot's id in place of the ids of its priorities.
ListWrongColumn(w) ==
    /\ At(w, "listPriorities")
    /\ Set(w, [req[w] EXCEPT !.step = "purgePriorities",
                 !.prios = {priority[p] : p \in PrioritiesOf(req[w].snapshot)}])
    /\ UNCHANGED <<family, famSeq, economic, snapSeq, priority, prioSeq, lost>>

ListPriorities(w) ==
    /\ At(w, "listPriorities")
    /\ Set(w, [req[w] EXCEPT !.step = "purgePriorities",
                              !.prios = PrioritiesOf(req[w].snapshot)])
    /\ UNCHANGED <<family, famSeq, economic, snapSeq, priority, prioSeq, lost>>

\* delete(Iterable) is one transaction: a row that is already gone makes
\* Hibernate throw StaleStateException and rolls all of it back.
PurgePriorities(w) ==
    /\ At(w, "purgePriorities")
    /\ IF \A p \in req[w].prios : priority[p] # None
       THEN /\ priority' = [p \in PriorityIds |->
                              IF p \in req[w].prios THEN None ELSE priority[p]]
            /\ Goto(w, "deleteEconomic")
       ELSE UNCHANGED priority /\ Finish(w)
    /\ UNCHANGED <<family, famSeq, economic, snapSeq, prioSeq, lost>>

\* Mutant: the row of the priorities listed is all that is looked at.
DeleteEconomicUnchecked(w) ==
    /\ At(w, "deleteEconomic")
    /\ economic' = [economic EXCEPT ![req[w].snapshot] = None]
    /\ Goto(w, IF req[w].op = "deleteSnapshot"
               THEN "countRemaining" ELSE "deactivate")
    /\ UNCHANGED <<family, famSeq, snapSeq, priority, prioSeq, lost>>

\* Deletes the economic row and, by cascade, the indicator row; fails when
\* the row is gone or when a priority was added in the meantime.  The
\* snapshotIndicatorRepository.delete that deleteSnapshotByFamily adds merges
\* a copy of the deleted indicator and removes it again: no net change.
DeleteEconomic(w) ==
    LET s == req[w].snapshot IN
    /\ At(w, "deleteEconomic")
    /\ IF economic[s] # None /\ PrioritiesOf(s) = {}
       THEN /\ economic' = [economic EXCEPT ![s] = None]
            /\ Goto(w, IF req[w].op = "deleteSnapshot"
                       THEN "countRemaining" ELSE "deactivate")
       ELSE UNCHANGED economic /\ Finish(w)
    /\ UNCHANGED <<family, famSeq, snapSeq, priority, prioSeq, lost>>

-----------------------------------------------------------------------------
(* The end of deleteSnapshotById: the family goes with its last snapshot.  *)

\* Mutant: as if the snapshots were counted before the deletion.
CountBeforeDeleting(w) ==
    /\ At(w, "countRemaining")
    /\ IF Cardinality(SnapshotsOf(req[w].family)) = 1
       THEN Goto(w, "deleteFamilyRow") ELSE Finish(w)
    /\ UNCHANGED <<family, famSeq, economic, snapSeq, priority, prioSeq, lost>>

CountRemaining(w) ==
    /\ At(w, "countRemaining")
    /\ IF SnapshotsOf(req[w].family) = {} THEN Goto(w, "deleteFamilyRow")
                                          ELSE Finish(w)
    /\ UNCHANGED <<family, famSeq, economic, snapSeq, priority, prioSeq, lost>>

\* Fails when the row is gone, or when a snapshot now refers to it.
DeleteFamilyRow(w) ==
    /\ At(w, "deleteFamilyRow")
    /\ family' = IF SnapshotsOf(req[w].family) = {}
                 THEN [family EXCEPT ![req[w].family] = None] ELSE family
    /\ Finish(w)
    /\ UNCHANGED <<famSeq, economic, snapSeq, priority, prioSeq, lost>>

\* Mutant: setActive(false) is forgotten, so there is no change to save.
SaveUnchanged(w) ==
    /\ At(w, "deactivate")
    /\ Finish(w)
    /\ UNCHANGED <<family, famSeq, economic, snapSeq, priority, prioSeq, lost>>

\* Mutant: setActive(false) is forgotten, and a detached copy is merged.
SaveWholeCopy(w) ==
    LET f == req[w].family IN
    /\ At(w, "deactivate")
    /\ family' = IF family[f] = None THEN family
                 ELSE [family EXCEPT ![f] = req[w].row]
    /\ Finish(w)
    /\ UNCHANGED <<famSeq, economic, snapSeq, priority, prioSeq, lost>>

(* The end of deleteSnapshotByFamily: setActive(false) and save, an UPDATE   *)
(* of every column from the copy loaded by FindFamily; it fails when the row *)
(* is gone.  A copy that was inactive already is not dirty: no UPDATE.       *)
DeactivateFamily(w) ==
    LET f == req[w].family IN
    /\ At(w, "deactivate")
    /\ family' = IF family[f] = None \/ ~req[w].row.active THEN family
                 ELSE [family EXCEPT ![f] = [req[w].row EXCEPT !.active = FALSE]]
    /\ Finish(w)
    /\ UNCHANGED <<famSeq, economic, snapSeq, priority, prioSeq, lost>>

-----------------------------------------------------------------------------
(* One-call requests of the neighbouring services.                         *)

\* POST /families: FamilyServiceImpl.addFamily copies the DTO, its familyId
\* included, and saves: an existing row is overwritten, and its person (like
\* every association of the DTO) becomes NULL.  Any other id is replaced by
\* one from the sequence.
OverwriteFamily(f, c, active) ==
    /\ family[f] # None
    /\ family' = [family EXCEPT
                    ![f] = [code |-> c, active |-> active, person |-> FALSE]]
    /\ UNCHANGED <<famSeq, economic, snapSeq, priority, prioSeq, req, lost>>

InsertFamily(c, active) ==
    /\ famSeq < MaxFamilies
    /\ famSeq' = famSeq + 1
    /\ family' = [family EXCEPT ![famSeq + 1] =
                    [code |-> c, active |-> active, person |-> FALSE]]
    /\ UNCHANGED <<economic, snapSeq, priority, prioSeq, req, lost>>

\* What module Priorities does to this state, one row at a time: a priority
\* is inserted for, or moved to, an indicator that exists or none at all.
SavePriority(p, s) ==
    /\ IF p = prioSeq + 1 THEN prioSeq' = p
                          ELSE priority[p] # None /\ UNCHANGED prioSeq
    /\ s # Null => economic[s] # None
    /\ priority' = [priority EXCEPT ![p] = s]
    /\ UNCHANGED <<family, famSeq, economic, snapSeq, req, lost>>

DeletePriority(p) ==
    /\ priority[p] # None
    /\ priority' = [priority EXCEPT ![p] = None]
    /\ UNCHANGED <<family, famSeq, economic, snapSeq, prioSeq, req, lost>>

-----------------------------------------------------------------------------
\* The steps after the last deletion of a snapshot and before the family is
\* dealt with.
CleaningUp(w, f) ==
    /\ req[w].family = f
    /\ req[w].step \in {"countRemaining", "deleteFamilyRow", "deactivate"}

\* The connection or the whole server goes away between two calls: what was
\* committed stays, the rest of the request never happens.
Abort(w) ==
    /\ ~At(w, "idle")
    /\ lost' = lost \cup {f \in FamilyIds : CleaningUp(w, f)}
    /\ Finish(w)
    /\ UNCHANGED <<family, famSeq, economic, snapSeq, priority, prioSeq>>

\* What a worker does once it has taken a request.
Proceed(w) ==
    \/ PersistNewFamily(w) \/ PersistInFamily(w) \/ CommitSnapshot(w)
    \/ PickNewest(w) \/ ListPriorities(w) \/ PurgePriorities(w)
    \/ DeleteEconomic(w) \/ CountRemaining(w) \/ DeleteFamilyRow(w)
    \/ DeactivateFamily(w)

Next ==
    \/ \E w \in Workers :
         \/ \E c \in Codes : LookupFamily(w, c)
         \/ \E s \in SnapshotIds : FindSnapshot(w, s)
         \/ \E f \in FamilyIds : FindFamily(w, f)
         \/ Proceed(w)
         \/ Abort(w)
    \/ \E c \in Codes, active \in BOOLEAN :
         \/ InsertFamily(c, active)
         \/ \E f \in FamilyIds : OverwriteFamily(f, c, active)
    \/ \E p \in PriorityIds :
         \/ DeletePriority(p)
         \/ \E s \in SnapshotIds \cup {Null} : SavePriority(p, s)

Spec == Init /\ [][Next]_vars

\* A request in service is run to its end by its own thread: every call
\* returns or throws.  Nobody has to send one, and nothing has to fail.
FairSpec == Spec /\ \A w \in Workers : WF_vars(Proceed(w))

-----------------------------------------------------------------------------
(* Properties                                                              *)

(* Every table and every request holds what its columns allow.             *)
TypeOK ==
    /\ family \in [FamilyIds -> FamilyRow \cup {None}]
    /\ famSeq \in 0 .. MaxFamilies
    /\ economic \in [SnapshotIds -> FamilyIds \cup {None}]
    /\ snapSeq \in 0 .. MaxSnapshots
    /\ priority \in [PriorityIds -> SnapshotIds \cup {Null, None}]
    /\ prioSeq \in 0 .. MaxPriorities
    /\ req \in [Workers -> Request]
    /\ lost \in SUBSET FamilyIds

(* Whatever the requests of all workers interleave to, every snapshot       *)
(* belongs to a family that is there and every priority with a snapshot to  *)
(* one that is there: no delete slips in between a check and an insert.     *)
ReferentialIntegrity ==
    /\ \A s \in SnapshotIds : economic[s] # None => family[economic[s]] # None
    /\ \A p \in PriorityIds :
         priority[p] \notin {None, Null} => economic[priority[p]] # None

\* A family made from a snapshot, listed as active, without any snapshot.
Stray(f) ==
    /\ family[f] # None /\ family[f].active /\ family[f].person
    /\ SnapshotsOf(f) = {}

(* deleteSnapshotById is to remove the family with its last snapshot, and   *)
(* deleteSnapshotByFamily to deactivate it, in transactions of their own    *)
(* after the snapshot is gone.  However those calls interleave with each    *)
(* other and with snapshots being added, an active surveyed family without  *)
(* snapshots is always one some request is still cleaning up, or one whose  *)
(* clean-up was aborted: two deletions never leave the family to each other.*)
NoStrayFamily ==
    \A f \in FamilyIds :
        Stray(f) => f \in lost \/ \E w \in Workers : CleaningUp(w, f)

\* The id of the family is drawn and its row not inserted yet.
Expected(f) == \E w \in Workers :
    At(w, "commit") /\ req[w].row # None /\ req[w].family = f

\* Some request is still to deal with the family.
Minded(f) == \E w \in Workers : CleaningUp(w, f)

\* The state of a family in the terms of FamilyLife.
Unborn(f) == f > famSeq \/ Expected(f)
StatusOfRow(f) ==
    IF SnapshotsOf(f) # {} THEN IF family[f].active THEN "listed" ELSE "hidden"
    ELSE IF Stray(f) THEN IF Minded(f) THEN "closing" ELSE "abandoned"
    ELSE IF family[f].active THEN "registered" ELSE "closed"
Status(f) ==
    IF family[f] # None THEN StatusOfRow(f)
                        ELSE IF Unborn(f) THEN "unborn" ELSE "gone"

Stages == [f \in FamilyIds |-> Status(f)]

Life == INSTANCE FamilyLife
            WITH Families <- FamilyIds, status <- Stages, cut <- lost

(* However the calls of POST and DELETE interleave, fail or are cut short,  *)
(* each family lives the life of FamilyLife: it is never deleted with a     *)
(* snapshot, never comes back, never falls out of the hands of every        *)
(* request except by an abort, and is not listed again by a snapshot once   *)
(* it is closed.                                                            *)
LivesItsLife == Life!Spec

(* The clean-up of deleteSnapshotById and deleteSnapshotByFamily does       *)
(* happen: a family on its way out does not stay there, unless a request in *)
(* charge of it is aborted.                                                 *)
StrayFamilyResolved == Life!Resolution

\* Families made from a snapshot with code c, those a pending deactivation
\* would write back included, and the requests about to insert another.
Sharing(c) == {f \in FamilyIds :
    \/ family[f] # None /\ family[f].person /\ family[f].code = c
    \/ \E w \in Workers : /\ req[w].op = "deleteFamily" /\ req[w].family = f
                          /\ req[w].row.person /\ req[w].row.code = c}
Inserting(c) == {w \in Workers :
    req[w].op = "addSnapshot" /\ req[w].row # None /\ req[w].row.code = c}

(* Nothing makes family.code unique: two requests that both find no family  *)
(* for a code both insert one, after which findByCode throws for everybody. *)
(* The damage is bounded by the concurrency: never more surveyed families   *)
(* share a code than there are workers, so a single worker never makes two. *)
DuplicatesBounded ==
    \A c \in Codes :
        Cardinality(Sharing(c)) + Cardinality(Inserting(c))
            <= Cardinality(Workers)

\* What the request of worker w remembers is true of the tables.
Consistent(w) ==
    /\ req[w].snapshot # None => req[w].snapshot <= snapSeq
    /\ At(w, "persist") => /\ req[w].op = "addSnapshot"
                           /\ req[w].row = None => req[w].family # None
    /\ At(w, "commit") =>
         /\ req[w].op = "addSnapshot"
         /\ req[w].family # None /\ req[w].snapshot # None
         /\ economic[req[w].snapshot] = None
         /\ \A v \in Workers \ {w} : req[v].snapshot # req[w].snapshot
    /\ req[w].step \in {"listPriorities", "purgePriorities", "deleteEconomic"} =>
         /\ req[w].op \in {"deleteSnapshot", "deleteFamily"}
         /\ req[w].family # None /\ req[w].snapshot # None
         /\ economic[req[w].snapshot] \in {req[w].family, None}
    /\ req[w].step \in {"pickNewest", "deactivate"} => req[w].op = "deleteFamily"
    /\ req[w].step \in {"countRemaining", "deleteFamilyRow"} =>
         req[w].op = "deleteSnapshot" /\ req[w].family # None
    /\ req[w].op = "deleteFamily" => req[w].row # None /\ req[w].family # None

(* What a request remembers from call to call stays true of the tables: ids *)
(* that are still to be inserted are known to that request alone, and the   *)
(* snapshot a deletion works on is in the family it remembers, or gone.     *)
RequestsConsistent ==
    /\ \A s \in SnapshotIds : s > snapSeq => economic[s] = None
    /\ \A w \in Workers : Consistent(w)

(* A snapshot never changes its family, and an id that was deleted is never *)
(* given to another snapshot, so a request that remembers a snapshot id     *)
(* across calls can at worst find it gone.                                  *)
SnapshotIdentity ==
    [][\A s \in SnapshotIds :
         \/ economic'[s] = economic[s]
         \/ economic'[s] = None
         \/ /\ economic[s] = None
            /\ \A w \in Workers : req[w].snapshot = s => req[w].step = "commit"]_vars

\* A family made from a snapshot and listed as active.
Surveyed(f) == family[f] # None /\ family[f].active /\ family[f].person

(* The row a deactivation writes back may be older than a POST /families,   *)
(* and then brings back the code and the person the POST took away.  Yet    *)
(* never to a listed family: one that was deleted, hidden or stripped of    *)
(* its person is not surveyed again, by whatever order of the two, so no    *)
(* stale copy makes a family the clean-up would have to deal with twice.    *)
RetiredForGood ==
    [][\A f \in FamilyIds :
         (~Unborn(f) /\ ~Surveyed(f)) => ~(Surveyed(f)')]_vars

\* The snapshots that are there, and the ids nobody is about to insert.
Stored == {s \in SnapshotIds : economic[s] # None}
Settled == {s \in 1 .. snapSeq :
              ~\E w \in Workers : At(w, "commit") /\ req[w].snapshot = s}

(* What module Priorities relies on: an indicator appears once, under an id *)
(* of its own, and is removed only when no priority refers to it, though    *)
(* the priorities are listed, purged and looked for in calls of their own.  *)
Table == INSTANCE PriorityTable WITH
    link <- priority, indicators <- Stored,
    usedPriorities <- 1 .. prioSeq, usedSnapshots <- Settled
KeepsPriorityTable == Table!Spec

=============================================================================
