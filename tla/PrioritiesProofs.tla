-------------------------- MODULE PrioritiesProofs --------------------------
(***************************************************************************)
(* Proofs about Priorities, for every limit and number of workers and ids. *)
(***************************************************************************)
EXTENDS Priorities, FiniteSetTheorems, TLAPS

(* A worker whose request is replaced by a well-typed one leaves req       *)
(* well-typed.                                                             *)
LEMMA SetType ==
    ASSUME req \in [Workers -> Request], NEW w \in Workers,
           NEW r \in Request, Set(w, r)
    PROVE  req' \in [Workers -> Request]
BY DEF Set

(* The ways a request is changed keep it well-typed.                       *)
LEMMA RequestShapes ==
    /\ Idle \in Request
    /\ \A st \in Steps, row \in PriorityRow :
         [Idle EXCEPT !.step = st, !.row = row] \in Request
    /\ \A st \in Steps, row \in PriorityRow, p \in PriorityIds :
         [Idle EXCEPT !.step = st, !.id = p, !.row = row] \in Request
    /\ \A st \in Steps, row \in PriorityRow, P \in SUBSET PriorityIds :
         [Idle EXCEPT !.step = st, !.todo = P, !.row = row] \in Request
    /\ \A st \in Steps, row \in PriorityRow, P \in SUBSET PriorityIds, n \in Nat :
         [Idle EXCEPT !.step = st, !.todo = P, !.fresh = n, !.row = row] \in Request
    /\ \A r \in Request, st \in Steps, p \in PriorityIds, P \in SUBSET PriorityIds :
         [r EXCEPT !.step = st, !.id = p, !.todo = P] \in Request
    /\ \A r \in Request, st \in Steps :
         [r EXCEPT !.step = st, !.id = None] \in Request
<1>1. "idle" \in Steps /\ 0 \in Nat
  BY DEF Steps
<1>2. QED
  BY <1>1 DEF Idle, Request

(* The ids a list takes from the sequence lie above every id handed out.   *)
LEMMA SavedIds ==
    ASSUME TypeOK, NEW w \in Workers
    PROVE  LET found == {p \in req[w].todo : Exists(p)}
           IN  /\ found \subseteq PriorityIds
               /\ prioSeq + req[w].fresh + Cardinality(req[w].todo \ found) \in Nat
               /\ prioSeq <= prioSeq + req[w].fresh
                               + Cardinality(req[w].todo \ found)
<1> DEFINE found == {p \in req[w].todo : Exists(p)}
<1>1. req[w].todo \in SUBSET PriorityIds /\ req[w].fresh \in Nat
  BY DEF TypeOK, Request
<1>2. IsFiniteSet(PriorityIds)
  BY BoundsAssumption, FS_Interval DEF PriorityIds
<1>3. IsFiniteSet(req[w].todo \ found)
  BY <1>1, <1>2, FS_Subset
<1>4. Cardinality(req[w].todo \ found) \in Nat
  BY <1>3, FS_CardinalityType
<1>5. prioSeq \in Nat
  BY BoundsAssumption DEF TypeOK
<1>6. QED
  BY <1>1, <1>4, <1>5

(* Every operation leaves the tables and the requests within their types.  *)
LEMMA TypeInductive == TypeOK /\ PendingSound /\ [Next]_vars => TypeOK'
<1> SUFFICES ASSUME TypeOK, PendingSound, [Next]_vars PROVE TypeOK'
  OBVIOUS
<1> USE BoundsAssumption DEF TypeOK
<1>a. \A w \in Workers : req[w] \in Request
  OBVIOUS
<1>b. \A w \in Workers : /\ req[w].row \in PriorityRow \cup {None}
                         /\ req[w].id \in PriorityIds \cup {None}
                         /\ req[w].todo \in SUBSET PriorityIds
  BY <1>a DEF Request
<1>c. \A w \in Workers : Finish(w) => req' \in [Workers -> Request]
  BY RequestShapes, SetType DEF Finish
<1>d. \A s \in SnapshotIds \cup {Null}, t \in Texts :
        [snapshot |-> s, text |-> t] \in PriorityRow
  BY DEF PriorityRow
<1>e. {"insert", "saveList", "find", "save"} \subseteq Steps
  BY DEF Steps
<1>f. \A w \in Workers : ~At(w, "idle") => req[w].row \in PriorityRow
  BY <1>b DEF PendingSound, Pending
<1>1. ASSUME NEW w \in Workers, NEW s \in SnapshotIds, NEW t \in Texts,
             CountPriorities(w, s, t)
      PROVE  TypeOK'
  <2>1. req' \in [Workers -> Request]
    BY <1>1, <1>d, <1>e, RequestShapes, SetType DEF CountPriorities
  <2>2. QED
    BY <1>1, <2>1 DEF CountPriorities
<1>2. ASSUME NEW w \in Workers, InsertPriority(w) PROVE TypeOK'
  <2>1. prioSeq + 1 \in PriorityIds /\ prioSeq + 1 \in 0 .. MaxPriorities
    BY <1>2 DEF InsertPriority, PriorityIds
  <2>2. req[w].row \in PriorityRow
    BY <1>2, <1>f DEF InsertPriority, At
  <2>3. QED
    BY <1>2, <1>c, <2>1, <2>2 DEF InsertPriority
<1>3. ASSUME NEW w \in Workers, NEW s \in SnapshotIds, NEW t \in Texts,
             NEW ids \in SUBSET PriorityIds, NEW n \in 0 .. MaxFresh,
             FindIndicator(w, s, t, ids, n)
      PROVE  TypeOK'
  <2>1. [snapshot |-> IF s \in indicators THEN s ELSE Null, text |-> t]
          \in PriorityRow
    BY <1>d
  <2>2. n \in Nat
    OBVIOUS
  <2>3. req' \in [Workers -> Request]
    BY <1>3, <1>e, <2>1, <2>2, RequestShapes, SetType DEF FindIndicator
  <2>4. QED
    BY <1>3, <2>3 DEF FindIndicator
<1>4. ASSUME NEW w \in Workers, SaveList(w) PROVE TypeOK'
  <2> DEFINE found == {p \in req[w].todo : Exists(p)}
             last  == prioSeq + req[w].fresh + Cardinality(req[w].todo \ found)
             saved == found \cup (prioSeq + 1) .. last
  <2>1. found \subseteq PriorityIds /\ last \in Nat /\ prioSeq <= last
    BY SavedIds
  <2>2. /\ last <= MaxPriorities /\ prioSeq' = last /\ Finish(w)
        /\ UNCHANGED <<indicators, snapSeq>>
        /\ \/ /\ priority' = [p \in PriorityIds |->
                                IF p \in saved THEN req[w].row ELSE priority[p]]
              /\ listed' = listed \cup saved
           \/ UNCHANGED <<priority, listed>>
    BY <1>4 DEF SaveList
  <2>3. saved \subseteq PriorityIds
    <3> HIDE DEF found, last
    <3>1. (prioSeq + 1) .. last \subseteq 1 .. MaxPriorities
      BY <2>1, <2>2
    <3>2. QED
      BY <2>1, <3>1 DEF PriorityIds
  <2>4. req[w].row \in PriorityRow
    BY <1>4, <1>f DEF SaveList, At
  <2>5. prioSeq' \in 0 .. MaxPriorities
    BY <2>1, <2>2
  <2>6. req' \in [Workers -> Request]
    BY <1>c, <2>2
  <2> HIDE DEF found, last, saved
  <2>7. priority' \in [PriorityIds -> PriorityRow \cup {None}]
    BY <2>2, <2>4
  <2>8. listed' \in SUBSET PriorityIds
    BY <2>2, <2>3
  <2>9. QED
    BY <2>2, <2>5, <2>6, <2>7, <2>8
<1>5. ASSUME NEW w \in Workers, NEW p \in PriorityIds, NEW t \in Texts,
             FindPriority(w, p, t)
      PROVE  TypeOK'
  <2>1. [priority[p] EXCEPT !.text = t] \in PriorityRow
    BY <1>5 DEF FindPriority, Exists, PriorityRow
  <2>2. req' \in [Workers -> Request]
    BY <1>5, <1>e, <2>1, RequestShapes, SetType DEF FindPriority
  <2>3. QED
    BY <1>5, <2>2 DEF FindPriority
<1>6. ASSUME NEW w \in Workers, NEW s \in SnapshotIds, NEW t \in Texts,
             NEW ids \in SUBSET PriorityIds, StartUpdateList(w, s, t, ids)
      PROVE  TypeOK'
  <2>1. req' \in [Workers -> Request]
    BY <1>6, <1>d, <1>e, RequestShapes, SetType DEF StartUpdateList
  <2>2. QED
    BY <1>6, <2>1 DEF StartUpdateList
<1>7. ASSUME NEW w \in Workers, FindNext(w) PROVE TypeOK'
  <2>1. ASSUME NEW p \in PriorityIds,
               Set(w, [req[w] EXCEPT !.step = "save", !.id = p,
                                     !.todo = req[w].todo \ {p}])
        PROVE  req' \in [Workers -> Request]
    <3>1. req[w].todo \ {p} \in SUBSET PriorityIds
      BY <1>b
    <3>2. QED
      BY <1>a, <1>e, <2>1, <3>1, RequestShapes, SetType
  <2>2. req' \in [Workers -> Request]
    BY <1>7, <1>b, <1>c, <2>1 DEF FindNext
  <2>3. QED
    BY <1>7, <2>2 DEF FindNext
<1>8. ASSUME NEW w \in Workers, SavePriority(w) PROVE TypeOK'
  <2>1. req[w].row \in PriorityRow /\ req[w].id \in PriorityIds
    BY <1>8, <1>b, <1>f DEF SavePriority, At, PendingSound, Pending
  <2>2. req' \in [Workers -> Request]
    BY <1>8, <1>a, <1>c, <1>e, RequestShapes, SetType DEF SavePriority
  <2>3. QED
    BY <1>8, <2>1, <2>2 DEF SavePriority
<1>9. ASSUME NEW w \in Workers, Abort(w) PROVE TypeOK'
  BY <1>9, <1>c DEF Abort
<1>10. ASSUME NEW p \in PriorityIds, DeletePriority(p) PROVE TypeOK'
  BY <1>10 DEF DeletePriority
<1>11. CASE AddIndicator
  BY <1>11 DEF AddIndicator, SnapshotIds
<1>12. ASSUME NEW s \in SnapshotIds, DeleteIndicator(s) PROVE TypeOK'
  BY <1>12 DEF DeleteIndicator
<1>13. CASE UNCHANGED vars
  BY <1>13 DEF vars
<1>14. QED
  BY <1>1, <1>2, <1>3, <1>4, <1>5, <1>6, <1>7, <1>8, <1>9, <1>10, <1>11, <1>12,
     <1>13 DEF Next

(* A request that is replaced, while the tables stay as they are, keeps     *)
(* the other requests sound.                                                *)
LEMMA ReplacedRequest ==
    ASSUME TypeOK, PendingSound, NEW w \in Workers, NEW r \in Request, Set(w, r),
           UNCHANGED <<priority, prioSeq, listed>>,
           /\ r.step # "idle" => r.row # None
           /\ r.step \in {"insert", "find"} => r.row.snapshot \in SnapshotIds
           /\ r.step = "save" =>
                /\ r.id # None /\ r.id <= prioSeq
                /\ r.todo # {} => r.row.snapshot \in SnapshotIds
                /\ \/ r.id \in listed
                   \/ /\ r.row.snapshot # Null
                      /\ Exists(r.id) => priority[r.id].snapshot = r.row.snapshot
    PROVE  PendingSound'
<1>1. \A v \in Workers : req'[v] = IF v = w THEN r ELSE req[v]
  BY DEF Set, TypeOK
<1>2. \A v \in Workers : Pending(v)'
  BY <1>1 DEF PendingSound, Pending, At, Exists
<1>3. QED
  BY <1>2 DEF PendingSound, Exists

(* A request that ends keeps the others sound, if the tables changed only   *)
(* by taking ids, writing under new ones, listing, deleting or writing a    *)
(* row with the link it had.                                                *)
LEMMA EndedRequest ==
    ASSUME TypeOK, PendingSound, prioSeq' \in Nat, prioSeq <= prioSeq',
           listed \subseteq listed',
           \A p \in PriorityIds : Exists(p)' =>
             /\ p <= prioSeq'
             /\ p <= prioSeq =>
                  /\ Exists(p)
                  /\ \/ p \in listed'
                     \/ priority'[p].snapshot = priority[p].snapshot,
           \A v \in Workers : req'[v] \in {req[v], Idle}
    PROVE  PendingSound'
<1> SUFFICES ASSUME NEW v \in Workers PROVE Pending(v)'
  BY DEF PendingSound
<1>1. Pending(v) /\ req[v].id \in PriorityIds \cup {None}
  BY DEF PendingSound, TypeOK, Request
<1>2. CASE req'[v] = Idle
  BY <1>2 DEF Pending, At, Idle
<1>3. CASE req'[v] = req[v] /\ At(v, "save")
  <2>1. req[v].id \in PriorityIds /\ req[v].id <= prioSeq
    BY <1>1, <1>3 DEF Pending
  <2>2. req[v].id <= prioSeq'
    BY <2>1, BoundsAssumption DEF TypeOK, PriorityIds
  <2>3. req[v].id \in listed'
          \/ /\ req[v].row.snapshot # Null
             /\ Exists(req[v].id)' =>
                  priority'[req[v].id].snapshot = req[v].row.snapshot
    BY <1>1, <1>3, <2>1 DEF Pending
  <2>4. QED
    BY <1>1, <1>3, <2>1, <2>2, <2>3 DEF Pending, At, Exists
<1>4. CASE req'[v] = req[v] /\ ~At(v, "save")
  BY <1>1, <1>4 DEF Pending, At
<1>5. QED
  BY <1>2, <1>3, <1>4

(* Every operation keeps what pending requests hold true of the tables.    *)
LEMMA PendingInductive ==
    TypeOK /\ PendingSound /\ LinksSound /\ [Next]_vars => PendingSound'
<1> SUFFICES ASSUME TypeOK, PendingSound, LinksSound, [Next]_vars
             PROVE  PendingSound'
  OBVIOUS
<1>a. \A w \in Workers : req[w] \in Request
  BY DEF TypeOK
<1>b. \A p \in PriorityIds : Exists(p) => p <= prioSeq
  BY DEF PendingSound
<1>c. prioSeq \in Nat
  BY BoundsAssumption DEF TypeOK
<1>d. \A w \in Workers : Finish(w) => \A v \in Workers : req'[v] \in {req[v], Idle}
  BY DEF Finish, Set, TypeOK
<1>e. {"insert", "saveList", "find", "save", "idle"} \subseteq Steps
  BY DEF Steps
<1>f. \A s \in SnapshotIds \cup {Null}, t \in Texts :
        [snapshot |-> s, text |-> t] \in PriorityRow \ {None}
  BY SentinelAssumption DEF PriorityRow
<1>g. Null \notin SnapshotIds
  BY SentinelAssumption DEF SnapshotIds
<1>1. ASSUME NEW w \in Workers, NEW s \in SnapshotIds, NEW t \in Texts,
             CountPriorities(w, s, t)
      PROVE  PendingSound'
  <2> DEFINE r == [Idle EXCEPT !.step = "insert",
                               !.row = [snapshot |-> s, text |-> t]]
  <2>1. r \in Request /\ Set(w, r) /\ UNCHANGED <<priority, prioSeq, listed>>
    BY <1>1, <1>e, <1>f, RequestShapes DEF CountPriorities
  <2>2. r.step = "insert" /\ r.row # None /\ r.row.snapshot = s
    BY <1>f DEF Idle
  <2>3. QED
    BY <2>1, <2>2, ReplacedRequest
<1>2. ASSUME NEW w \in Workers, InsertPriority(w) PROVE PendingSound'
  <2>1. /\ prioSeq' = prioSeq + 1 /\ listed' = listed
        /\ \A v \in Workers : req'[v] \in {req[v], Idle}
    BY <1>2, <1>d DEF InsertPriority
  <2>2. \A p \in PriorityIds : p # prioSeq + 1 => priority'[p] = priority[p]
    BY <1>2 DEF InsertPriority, TypeOK
  <2>3. \A p \in PriorityIds : p \in Int
    BY DEF PriorityIds
  <2>4. QED
    BY <1>b, <1>c, <2>1, <2>2, <2>3, EndedRequest DEF Exists
<1>3. ASSUME NEW w \in Workers, NEW s \in SnapshotIds, NEW t \in Texts,
             NEW ids \in SUBSET PriorityIds, NEW n \in 0 .. MaxFresh,
             FindIndicator(w, s, t, ids, n)
      PROVE  PendingSound'
  <2> DEFINE row == [snapshot |-> IF s \in indicators THEN s ELSE Null,
                     text |-> t]
             r == [Idle EXCEPT !.step = "saveList", !.todo = ids, !.fresh = n,
                               !.row = row]
  <2>1. row \in PriorityRow \ {None} /\ n \in Nat
    BY <1>f, BoundsAssumption
  <2>2. r \in Request /\ Set(w, r) /\ UNCHANGED <<priority, prioSeq, listed>>
    BY <1>3, <1>e, <2>1, RequestShapes DEF FindIndicator
  <2>3. r.step = "saveList" /\ r.row = row
    BY DEF Idle
  <2>4. QED
    BY <2>1, <2>2, <2>3, ReplacedRequest
<1>4. ASSUME NEW w \in Workers, SaveList(w) PROVE PendingSound'
  <2> DEFINE found == {p \in req[w].todo : Exists(p)}
             last  == prioSeq + req[w].fresh + Cardinality(req[w].todo \ found)
             saved == found \cup (prioSeq + 1) .. last
  <2>1. found \subseteq PriorityIds /\ last \in Nat /\ prioSeq <= last
    BY SavedIds
  <2>2. /\ last <= MaxPriorities /\ prioSeq' = last
        /\ \/ /\ priority' = [p \in PriorityIds |->
                                IF p \in saved THEN req[w].row ELSE priority[p]]
              /\ listed' = listed \cup saved
           \/ UNCHANGED <<priority, listed>>
    BY <1>4 DEF SaveList
  <2>3. \A v \in Workers : req'[v] \in {req[v], Idle}
    BY <1>4, <1>d DEF SaveList
  <2>4. \A p \in saved : Exists(p) \/ p > prioSeq
    BY <1>c, <2>1
  <2>5. \A p \in saved : p <= last
    BY <1>b, <1>c, <2>1 DEF PriorityIds
  <2> HIDE DEF found, last, saved
  <2>6. \A p \in PriorityIds : p \in Int
    BY DEF PriorityIds
  <2>7. listed \subseteq listed'
    BY <2>2
  <2>8. ASSUME NEW p \in PriorityIds, Exists(p)' PROVE p <= prioSeq'
    BY <1>b, <1>c, <2>1, <2>2, <2>5, <2>6, <2>8 DEF Exists
  <2>9. ASSUME NEW p \in PriorityIds, Exists(p)', p <= prioSeq
        PROVE  Exists(p) /\ (p \in listed' \/ priority'[p].snapshot = priority[p].snapshot)
    <3>1. CASE p \in saved /\ listed' = listed \cup saved
      BY <1>c, <2>4, <2>6, <2>9, <3>1
    <3>2. CASE priority'[p] = priority[p]
      BY <2>9, <3>2 DEF Exists
    <3>3. QED
      BY <2>2, <3>1, <3>2
  <2>10. prioSeq' \in Nat /\ prioSeq <= prioSeq'
    BY <2>1, <2>2
  <2>11. QED
    BY <2>3, <2>7, <2>8, <2>9, <2>10, EndedRequest
<1>5. ASSUME NEW w \in Workers, NEW p \in PriorityIds, NEW t \in Texts,
             FindPriority(w, p, t)
      PROVE  PendingSound'
  <2> DEFINE row == [priority[p] EXCEPT !.text = t]
             r == [Idle EXCEPT !.step = "save", !.id = p, !.row = row]
  <2>1. priority[p] \in PriorityRow
    BY <1>5 DEF FindPriority, Exists, TypeOK
  <2>2. row \in PriorityRow /\ row.snapshot = priority[p].snapshot
    BY <2>1 DEF PriorityRow
  <2>3. r \in Request /\ Set(w, r) /\ UNCHANGED <<priority, prioSeq, listed>>
    BY <1>5, <1>e, <2>2, RequestShapes DEF FindPriority
  <2>4. r.step = "save" /\ r.row = row /\ r.id = p /\ r.todo = {}
    BY DEF Idle
  <2>5. p # None /\ p <= prioSeq
    BY <1>5, <1>b, SentinelAssumption DEF FindPriority, PriorityIds
  <2>6. p \in listed \/ priority[p].snapshot # Null
    BY <1>5, <1>g DEF FindPriority, LinksSound, TypeOK
  <2>7. QED
    BY <2>2, <2>3, <2>4, <2>5, <2>6, SentinelAssumption, ReplacedRequest
<1>6. ASSUME NEW w \in Workers, NEW s \in SnapshotIds, NEW t \in Texts,
             NEW ids \in SUBSET PriorityIds, StartUpdateList(w, s, t, ids)
      PROVE  PendingSound'
  <2> DEFINE r == [Idle EXCEPT !.step = "find", !.todo = ids,
                               !.row = [snapshot |-> s, text |-> t]]
  <2>1. r \in Request /\ Set(w, r) /\ UNCHANGED <<priority, prioSeq, listed>>
    BY <1>6, <1>e, <1>f, RequestShapes DEF StartUpdateList
  <2>2. r.step = "find" /\ r.row # None /\ r.row.snapshot = s
    BY <1>f DEF Idle
  <2>3. QED
    BY <2>1, <2>2, ReplacedRequest
<1>h. ASSUME NEW w \in Workers, Finish(w), UNCHANGED <<priority, prioSeq, listed>>
      PROVE  PendingSound'
  BY <1>b, <1>c, <1>d, <1>h, EndedRequest DEF Exists
<1>7. ASSUME NEW w \in Workers, FindNext(w) PROVE PendingSound'
  <2>1. UNCHANGED <<priority, prioSeq, listed>> /\ At(w, "find")
    BY <1>7 DEF FindNext
  <2>2. CASE Finish(w)
    BY <1>h, <2>1, <2>2
  <2>3. ASSUME NEW p \in req[w].todo \cap PrioritiesOf(req[w].row.snapshot),
               Set(w, [req[w] EXCEPT !.step = "save", !.id = p,
                                     !.todo = req[w].todo \ {p}])
        PROVE  PendingSound'
    <3> DEFINE r == [req[w] EXCEPT !.step = "save", !.id = p,
                                   !.todo = req[w].todo \ {p}]
    <3>1. /\ p \in PriorityIds /\ Exists(p)
          /\ priority[p].snapshot = req[w].row.snapshot
      BY DEF PrioritiesOf
    <3>2. req[w].row # None /\ req[w].row.snapshot \in SnapshotIds
      BY <2>1 DEF PendingSound, Pending, At
    <3>3. req[w].todo \ {p} \in SUBSET PriorityIds
      BY <1>a DEF Request
    <3>4. r \in Request
      BY <1>a, <1>e, <3>1, <3>3, RequestShapes
    <3>5. r.step = "save" /\ r.id = p /\ r.row = req[w].row
      BY <1>a DEF Request
    <3>6. p # None /\ p <= prioSeq
      BY <1>b, <3>1, SentinelAssumption DEF PriorityIds
    <3>7. QED
      BY <1>g, <2>1, <2>3, <3>1, <3>2, <3>4, <3>5, <3>6, ReplacedRequest
  <2>4. QED
    BY <1>7, <2>2, <2>3 DEF FindNext
<1>8. ASSUME NEW w \in Workers, SavePriority(w) PROVE PendingSound'
  <2>1. UNCHANGED <<prioSeq, listed>> /\ At(w, "save")
    BY <1>8 DEF SavePriority
  <2>2. CASE ~CanSave(w)
    <3>1. Finish(w) /\ UNCHANGED priority
      BY <1>8, <2>2 DEF SavePriority
    <3>2. QED
      BY <1>h, <2>1, <3>1
  <2>3. CASE CanSave(w)
    <3> DEFINE p == req[w].id
    <3>1. /\ p \in PriorityIds /\ p <= prioSeq /\ Exists(p)
          /\ p \in listed \/ priority[p].snapshot = req[w].row.snapshot
          /\ req[w].row \in PriorityRow \ {None}
      BY <1>a, <2>1, <2>3 DEF PendingSound, Pending, CanSave, At, Request
    <3>2. priority' = [priority EXCEPT ![p] = req[w].row]
      BY <1>8, <2>3 DEF SavePriority
    <3>3. \A q \in PriorityIds :
            /\ Exists(q)' <=> Exists(q)
            /\ q \in listed \/ priority'[q].snapshot = priority[q].snapshot
      BY <3>1, <3>2 DEF Exists, TypeOK
    <3>4. CASE Finish(w)
      BY <1>b, <1>c, <1>d, <2>1, <3>3, <3>4, EndedRequest
    <3>5. CASE req[w].todo # {}
                /\ Set(w, [req[w] EXCEPT !.step = "find", !.id = None])
      <4> DEFINE r == [req[w] EXCEPT !.step = "find", !.id = None]
      <4>1. r.step = "find" /\ r.row = req[w].row
        BY <1>a DEF Request
      <4>2. \A v \in Workers : req'[v] = IF v = w THEN r ELSE req[v]
        BY <3>5 DEF Set, TypeOK
      <4>3. ASSUME NEW v \in Workers, v # w PROVE Pending(v)'
        <5>1. Pending(v) /\ req'[v] = req[v]
          BY <4>2, <4>3 DEF PendingSound
        <5>2. At(v, "save") => req[v].id \in PriorityIds
          BY <1>a, <5>1 DEF Pending, Request
        <5>3. QED
          BY <2>1, <3>3, <5>1, <5>2 DEF Pending, At
      <4>4. Pending(w)'
        <5>1. req[w].todo # {}
          BY <3>5
        <5>2. req[w].row.snapshot \in SnapshotIds
          BY <2>1, <5>1 DEF PendingSound, Pending
        <5>3. QED
          BY <3>1, <4>1, <4>2, <5>2 DEF Pending, At
      <4>5. QED
        BY <1>b, <2>1, <3>3, <4>3, <4>4 DEF PendingSound
    <3>6. QED
      BY <1>8, <2>3, <3>4, <3>5 DEF SavePriority
  <2>4. QED
    BY <2>2, <2>3
<1>9. ASSUME NEW w \in Workers, Abort(w) PROVE PendingSound'
  BY <1>9, <1>h DEF Abort
<1>10. ASSUME NEW p \in PriorityIds, DeletePriority(p) PROVE PendingSound'
  <2>1. \A v \in Workers : req'[v] \in {req[v], Idle}
    BY <1>10 DEF DeletePriority
  <2>2. \A q \in PriorityIds : Exists(q)' => Exists(q) /\ priority'[q] = priority[q]
    BY <1>10 DEF DeletePriority, Exists, TypeOK
  <2>3. UNCHANGED <<prioSeq, listed>>
    BY <1>10 DEF DeletePriority
  <2>4. QED
    BY <1>b, <1>c, <2>1, <2>2, <2>3, EndedRequest
<1>11. CASE UNCHANGED <<priority, prioSeq, req, listed>>
  BY <1>b, <1>c, <1>11, EndedRequest DEF Exists
<1>12. QED
  BY <1>1, <1>2, <1>3, <1>4, <1>5, <1>6, <1>7, <1>8, <1>9, <1>10, <1>11
     DEF Next, AddIndicator, DeleteIndicator, vars

(* A step of a row through a list leaves it linked to the list's snapshot   *)
(* or to none, or as it was.                                                *)
LEMMA ListStep ==
    ASSUME TypeOK, NEW w \in Workers, SaveList(w), NEW p \in PriorityIds
    PROVE  /\ listed \subseteq listed' /\ UNCHANGED indicators
           /\ \/ priority'[p] = priority[p]
              \/ /\ p \in listed'
                 /\ Exists(p) \/ p > prioSeq
                 /\ priority'[p] = req[w].row
                 /\ Linkable(req[w].row.snapshot)
<1> DEFINE found == {q \in req[w].todo : Exists(q)}
           last  == prioSeq + req[w].fresh + Cardinality(req[w].todo \ found)
           saved == found \cup (prioSeq + 1) .. last
<1>1. /\ UNCHANGED indicators
      /\ \/ /\ priority' = [q \in PriorityIds |->
                              IF q \in saved THEN req[w].row ELSE priority[q]]
            /\ listed' = listed \cup saved
            /\ Linkable(req[w].row.snapshot)
         \/ UNCHANGED <<priority, listed>>
  BY DEF SaveList
<1>2. last \in Nat /\ prioSeq \in Nat
  BY SavedIds, BoundsAssumption DEF TypeOK
<1>3. \A q \in saved : Exists(q) \/ q > prioSeq
  BY <1>2
<1> HIDE DEF found, last, saved
<1>4. QED
  BY <1>1, <1>3

(* Every operation leaves each priority linked to a snapshot that is there, *)
(* or to none if a list has written it.                                     *)
LEMMA LinksInductive ==
    TypeOK /\ PendingSound /\ LinksSound /\ [Next]_vars => LinksSound'
<1> SUFFICES ASSUME TypeOK, PendingSound, LinksSound, [Next]_vars,
                    NEW p \in PriorityIds, Exists(p)'
             PROVE  \/ priority'[p].snapshot \in indicators'
                    \/ priority'[p].snapshot = Null /\ p \in listed'
  BY DEF LinksSound
<1>a. Exists(p) => \/ priority[p].snapshot \in indicators
                   \/ priority[p].snapshot = Null /\ p \in listed
  BY DEF LinksSound
<1>1. CASE priority'[p] = priority[p] /\ UNCHANGED <<indicators, listed>>
  BY <1>a, <1>1 DEF Exists
<1>2. ASSUME NEW w \in Workers, InsertPriority(w)
      PROVE  \/ priority'[p].snapshot \in indicators'
             \/ priority'[p].snapshot = Null /\ p \in listed'
  <2>1. req[w].row.snapshot \in SnapshotIds
    BY <1>2 DEF InsertPriority, PendingSound, Pending
  <2>2. Linkable(req[w].row.snapshot) => req[w].row.snapshot \in indicators
    BY <2>1, SentinelAssumption DEF Linkable, SnapshotIds
  <2>3. \/ priority'[p] = priority[p]
        \/ /\ Linkable(req[w].row.snapshot)
           /\ priority'[p] = req[w].row
    BY <1>2 DEF InsertPriority, TypeOK
  <2>4. UNCHANGED <<indicators, listed>>
    BY <1>2 DEF InsertPriority
  <2>5. QED
    BY <1>1, <2>2, <2>3, <2>4
<1>3. ASSUME NEW w \in Workers, SaveList(w)
      PROVE  \/ priority'[p].snapshot \in indicators'
             \/ priority'[p].snapshot = Null /\ p \in listed'
  BY <1>3, <1>a, ListStep DEF Exists, Linkable
<1>4. ASSUME NEW w \in Workers, SavePriority(w)
      PROVE  \/ priority'[p].snapshot \in indicators'
             \/ priority'[p].snapshot = Null /\ p \in listed'
  <2>1. UNCHANGED <<indicators, listed>>
    BY <1>4 DEF SavePriority
  <2>2. \/ priority'[p] = priority[p]
        \/ /\ CanSave(w) /\ p = req[w].id /\ priority'[p] = req[w].row
    BY <1>4 DEF SavePriority, TypeOK
  <2>3. At(w, "save")
    BY <1>4 DEF SavePriority
  <2>4. CASE CanSave(w) /\ p = req[w].id /\ priority'[p] = req[w].row
    BY <2>1, <2>3, <2>4 DEF CanSave, Linkable, PendingSound, Pending
  <2>5. QED
    BY <1>1, <2>1, <2>2, <2>4
<1>5. ASSUME NEW q \in PriorityIds, DeletePriority(q)
      PROVE  \/ priority'[p].snapshot \in indicators'
             \/ priority'[p].snapshot = Null /\ p \in listed'
  <2>1. priority'[p] = priority[p] /\ UNCHANGED <<indicators, listed>>
    BY <1>5 DEF DeletePriority, Exists, TypeOK
  <2>2. QED
    BY <1>1, <2>1
<1>6. CASE AddIndicator
  BY <1>6, <1>a DEF AddIndicator, Exists
<1>7. ASSUME NEW s \in SnapshotIds, DeleteIndicator(s)
      PROVE  \/ priority'[p].snapshot \in indicators'
             \/ priority'[p].snapshot = Null /\ p \in listed'
  <2>1. priority[p].snapshot # s
    BY <1>7 DEF DeleteIndicator, PrioritiesOf, Exists
  <2>2. QED
    BY <1>7, <1>a, <2>1 DEF DeleteIndicator, Exists
<1>8. CASE UNCHANGED <<priority, indicators, listed>>
  BY <1>1, <1>8
<1>9. QED
  BY <1>2, <1>3, <1>4, <1>5, <1>6, <1>7, <1>8
     DEF Next, CountPriorities, FindIndicator, FindPriority, StartUpdateList,
         FindNext, Abort, vars

-----------------------------------------------------------------------------
(* The inductive invariant: what an update writes is right because of what  *)
(* it remembers, and that is right because of the links it was loaded from. *)
IInv == TypeOK /\ PendingSound /\ LinksSound

(* IInv holds initially and every step keeps it.                            *)
LEMMA Invariance == Spec => []IInv
<1>1. Init => IInv
  <2> SUFFICES ASSUME Init PROVE IInv
    OBVIOUS
  <2>1. TypeOK
    <3>1. req \in [Workers -> Request]
      BY RequestShapes DEF Init
    <3>2. prioSeq \in 0 .. MaxPriorities /\ snapSeq \in 0 .. MaxSnapshots
      BY BoundsAssumption DEF Init
    <3>3. priority \in [PriorityIds -> PriorityRow \cup {None}]
      BY DEF Init
    <3>4. QED
      BY <3>1, <3>2, <3>3 DEF Init, TypeOK
  <2>2. PendingSound /\ LinksSound
    BY DEF Init, PendingSound, Pending, LinksSound, Exists, At, Idle
  <2>3. QED
    BY <2>1, <2>2 DEF IInv
<1>2. IInv /\ [Next]_vars => IInv'
  BY TypeInductive, PendingInductive, LinksInductive DEF IInv
<1>3. QED
  BY <1>1, <1>2, PTL DEF Spec

(* Every table and every request holds what its columns allow.             *)
THEOREM TypeCorrect == Spec => []TypeOK
BY Invariance, PTL DEF IInv

(* Whatever interleaves between load and save, an update writes back the    *)
(* link of its row unless a list has taken the row.                         *)
THEOREM PendingStaysSound == Spec => []PendingSound
BY Invariance, PTL DEF IInv

(* No priority refers to a deleted snapshot; only a list leaves one without.*)
THEOREM LinksStaySound == Spec => []LinksSound
BY Invariance, PTL DEF IInv

(* No pending copy brings a deleted priority back, and only a list moves a  *)
(* priority to another snapshot.                                            *)
THEOREM IdentityPreserved == Spec => PriorityIdentity
<1> DEFINE Kept(p) ==
      /\ p <= prioSeq /\ ~Exists(p) => ~Exists(p)'
      /\ Exists(p) /\ Exists(p)' /\ p \notin listed' =>
           priority'[p].snapshot = priority[p].snapshot
<1>1. IInv /\ [Next]_vars => [\A p \in PriorityIds : Kept(p)]_vars
  <2> SUFFICES ASSUME IInv, [Next]_vars, NEW p \in PriorityIds PROVE Kept(p)
    OBVIOUS
  <2> USE DEF IInv
  <2>a. prioSeq \in Nat /\ p \in Int
    BY BoundsAssumption DEF TypeOK, PriorityIds
  <2>1. CASE priority'[p] = priority[p]
    BY <2>1 DEF Exists
  <2>2. ASSUME NEW w \in Workers, InsertPriority(w) PROVE Kept(p)
    <3>1. p # prioSeq + 1 => priority'[p] = priority[p]
      BY <2>2 DEF InsertPriority, TypeOK
    <3>2. Exists(p) => p # prioSeq + 1
      BY <2>a DEF PendingSound
    <3>3. QED
      BY <2>1, <2>a, <3>1, <3>2
  <2>3. ASSUME NEW w \in Workers, SaveList(w) PROVE Kept(p)
    BY <2>1, <2>3, <2>a, ListStep
  <2>4. ASSUME NEW w \in Workers, SavePriority(w) PROVE Kept(p)
    <3>1. /\ UNCHANGED listed /\ At(w, "save")
          /\ \/ priority'[p] = priority[p]
             \/ Exists(p) /\ p = req[w].id /\ priority'[p] = req[w].row
      BY <2>4 DEF SavePriority, CanSave, TypeOK
    <3>2. CASE Exists(p) /\ p = req[w].id /\ priority'[p] = req[w].row
      BY <3>1, <3>2 DEF PendingSound, Pending
    <3>3. QED
      BY <2>1, <3>1, <3>2
  <2>5. ASSUME NEW q \in PriorityIds, DeletePriority(q) PROVE Kept(p)
    BY <2>5 DEF DeletePriority, Exists, TypeOK
  <2>6. CASE UNCHANGED priority
    BY <2>1, <2>6
  <2> HIDE DEF Kept
  <2>7. QED
    BY <2>2, <2>3, <2>4, <2>5, <2>6
       DEF Next, CountPriorities, FindIndicator, FindPriority, StartUpdateList,
           FindNext, Abort, AddIndicator, DeleteIndicator, vars
<1>2. QED
  BY <1>1, Invariance, PTL DEF Spec, PriorityIdentity

-----------------------------------------------------------------------------
(* The contract with module Snapshots.                                     *)

TableStep ==
    Table!Next \/ UNCHANGED <<Links, indicators, 1 .. prioSeq, 1 .. snapSeq>>

(* Rows written as one are links set to one snapshot.                      *)
LEMMA RowsPut ==
    ASSUME TypeOK, NEW P \in SUBSET PriorityIds, NEW row \in PriorityRow,
           \A p \in PriorityIds : priority'[p] = IF p \in P THEN row ELSE priority[p]
    PROVE  Table!Put(P, row.snapshot)
BY SentinelAssumption DEF Table!Put, Links, Exists

(* Rows that stay leave the links alone.                                   *)
LEMMA LinksKept == UNCHANGED priority => UNCHANGED Links
BY DEF Links, Exists

(* The row a pending write puts has a type.                                *)
LEMMA RowWritten ==
    ASSUME IInv, NEW w \in Workers, ~At(w, "idle")
    PROVE  req[w].row \in PriorityRow
BY DEF IInv, TypeOK, Request, PendingSound, Pending

LEMMA InsertKeepsTable ==
    ASSUME IInv, NEW w \in Workers, InsertPriority(w)
    PROVE  TableStep
<1> DEFINE used == 1 .. prioSeq
           P == {prioSeq + 1}
           row == req[w].row
<1>1. /\ P \in SUBSET PriorityIds /\ (1 .. prioSeq') = used \cup P
      /\ \A p \in P : p \notin used
  BY BoundsAssumption DEF IInv, TypeOK, InsertPriority, PriorityIds
<1>2. row \in PriorityRow
  BY RowWritten DEF InsertPriority, At
<1>3. CASE Linkable(row.snapshot)
  <2>1. Table!Put(P, row.snapshot)
    <3>1. \A p \in PriorityIds : priority'[p] = IF p \in P THEN row ELSE priority[p]
      BY <1>3 DEF IInv, TypeOK, InsertPriority
    <3>2. QED
      BY <1>1, <1>2, <3>1, RowsPut DEF IInv
  <2>2. Table!Save(P, row.snapshot)
    BY <1>1, <1>3, <2>1 DEF InsertPriority, Linkable, Table!Save
  <2>3. row.snapshot \in SnapshotIds \cup {Null}
    BY <1>2 DEF PriorityRow
  <2>4. QED
    BY <1>1, <2>2, <2>3 DEF TableStep, Table!Next
<1>4. CASE ~Linkable(row.snapshot)
  <2>1. Table!Waste(P)
    BY <1>1, <1>4, LinksKept DEF InsertPriority, Table!Waste
  <2>2. QED
    BY <1>1, <2>1 DEF TableStep, Table!Next
<1>5. QED
  BY <1>3, <1>4

(* A list is one save of the rows it found and of fresh ones.              *)
LEMMA ListKeepsTable ==
    ASSUME IInv, NEW w \in Workers, SaveList(w)
    PROVE  TableStep
<1> DEFINE found == {p \in req[w].todo : Exists(p)}
           last  == prioSeq + req[w].fresh + Cardinality(req[w].todo \ found)
           fresh == (prioSeq + 1) .. last
           used  == 1 .. prioSeq
           row   == req[w].row
<1>1. last \in Nat /\ prioSeq \in Nat /\ prioSeq <= last /\ last <= MaxPriorities
  BY SavedIds, BoundsAssumption DEF IInv, TypeOK, SaveList
<1>2. /\ found \subseteq used /\ found \subseteq PriorityIds
      /\ \A p \in found : Links[p] # None
  <2>1. found \subseteq PriorityIds
    BY DEF IInv, TypeOK, Request
  <2>2. \A p \in found : p <= prioSeq /\ Exists(p)
    BY <2>1 DEF IInv, PendingSound
  <2>3. \A p \in found : priority[p] \in PriorityRow
    BY <2>1, <2>2 DEF IInv, TypeOK, Exists
  <2>4. \A p \in found : priority[p].snapshot # None
    BY <2>3, SentinelAssumption DEF PriorityRow, SnapshotIds
  <2>5. QED
    BY <1>1, <2>1, <2>2, <2>4 DEF Links, PriorityIds
<1>3. /\ fresh \in SUBSET PriorityIds /\ \A p \in fresh : p \notin used
      /\ (1 .. last) = used \cup fresh
  BY <1>1, BoundsAssumption DEF PriorityIds
<1>4. /\ prioSeq' = last /\ UNCHANGED <<indicators, snapSeq>>
      /\ IF Linkable(row.snapshot)
         THEN priority' = [p \in PriorityIds |->
                             IF p \in found \cup fresh THEN row ELSE priority[p]]
         ELSE UNCHANGED priority
  BY DEF SaveList
<1>5. row \in PriorityRow
  BY RowWritten DEF SaveList, At
<1> HIDE DEF found, last, fresh
<1>6. CASE Linkable(row.snapshot)
  <2> DEFINE P == found \cup fresh
  <2>1. Table!Put(P, row.snapshot)
    BY <1>2, <1>3, <1>4, <1>5, <1>6, RowsPut DEF IInv
  <2>2. (1 .. prioSeq') = used \cup P
    BY <1>2, <1>3, <1>4
  <2>3. Table!Save(P, row.snapshot)
    BY <1>2, <1>3, <1>4, <1>6, <2>1, <2>2 DEF Linkable, Table!Save
  <2>4. row.snapshot \in SnapshotIds \cup {Null}
    BY <1>5 DEF PriorityRow
  <2>5. QED
    BY <1>2, <1>3, <2>3, <2>4 DEF TableStep, Table!Next
<1>7. CASE ~Linkable(row.snapshot)
  <2>1. Table!Waste(fresh)
    BY <1>3, <1>4, <1>7, LinksKept DEF Table!Waste
  <2>2. QED
    BY <1>3, <2>1 DEF TableStep, Table!Next
<1>8. QED
  BY <1>6, <1>7

(* An update writes the link it loaded, to an indicator that is still there.*)
LEMMA UpdateKeepsTable ==
    ASSUME IInv, NEW w \in Workers, SavePriority(w)
    PROVE  TableStep
<1> DEFINE used == 1 .. prioSeq
           P == {req[w].id}
           row == req[w].row
<1>1. row \in PriorityRow
  BY RowWritten DEF SavePriority, At
<1>2. CASE CanSave(w)
  <2>1. req[w].id \in PriorityIds /\ req[w].id <= prioSeq /\ Exists(req[w].id)
    BY <1>2 DEF IInv, TypeOK, Request, PendingSound, Pending, SavePriority, CanSave
  <2>2. P \in SUBSET PriorityIds /\ (1 .. prioSeq') = used \cup P
    BY <2>1, BoundsAssumption DEF IInv, TypeOK, SavePriority, PriorityIds
  <2>3. \A p \in P : Links[p] # None
    <3>1. priority[req[w].id] \in PriorityRow
      BY <2>1 DEF IInv, TypeOK, Exists
    <3>2. QED
      BY <2>1, <3>1, SentinelAssumption DEF Links, PriorityRow, SnapshotIds
  <2>4. Table!Put(P, row.snapshot)
    <3>1. \A p \in PriorityIds : priority'[p] = IF p \in P THEN row ELSE priority[p]
      BY <1>2 DEF IInv, TypeOK, SavePriority
    <3>2. QED
      BY <1>1, <2>2, <3>1, RowsPut DEF IInv
  <2>5. Table!Save(P, row.snapshot)
    BY <1>2, <2>2, <2>3, <2>4 DEF SavePriority, CanSave, Linkable, Table!Save
  <2>6. row.snapshot \in SnapshotIds \cup {Null}
    BY <1>1 DEF PriorityRow
  <2>7. QED
    BY <2>2, <2>5, <2>6 DEF TableStep, Table!Next
<1>3. CASE ~CanSave(w)
  BY <1>3, LinksKept DEF SavePriority, TableStep
<1>4. QED
  BY <1>2, <1>3

(* Every call keeps the contract.                                          *)
LEMMA StepKeepsTable == IInv /\ [Next]_vars => TableStep
<1> SUFFICES ASSUME IInv, [Next]_vars PROVE TableStep
  OBVIOUS
<1>1. ASSUME NEW p \in PriorityIds, DeletePriority(p) PROVE TableStep
  <2>1. Table!Put({p}, None)
    BY <1>1 DEF IInv, TypeOK, DeletePriority, Links, Exists, Table!Put
  <2>2. Table!Delete({p})
    BY <1>1, <2>1 DEF DeletePriority, Table!Delete
  <2>3. QED
    BY <2>2 DEF TableStep, Table!Next
<1>2. CASE AddIndicator
  <2> DEFINE used == 1 .. snapSeq
             s == snapSeq + 1
  <2>1. s \in SnapshotIds /\ s \notin used /\ (1 .. snapSeq') = used \cup {s}
    BY <1>2, BoundsAssumption DEF IInv, TypeOK, AddIndicator, SnapshotIds
  <2>2. Table!Appear(s)
    BY <1>2, <2>1, LinksKept DEF AddIndicator, Table!Appear
  <2>3. QED
    BY <2>1, <2>2 DEF TableStep, Table!Next
<1>3. ASSUME NEW s \in SnapshotIds, DeleteIndicator(s) PROVE TableStep
  <2>1. \A p \in PriorityIds : Links[p] # s
    BY <1>3, SentinelAssumption DEF DeleteIndicator, PrioritiesOf, Links, SnapshotIds
  <2>2. Table!Remove(s)
    BY <1>3, <2>1, LinksKept DEF DeleteIndicator, Table!Remove
  <2>3. QED
    BY <2>2 DEF TableStep, Table!Next
<1>4. CASE UNCHANGED <<priority, prioSeq, indicators, snapSeq>>
  BY <1>4, LinksKept DEF TableStep
<1>5. QED
  BY <1>1, <1>2, <1>3, <1>4, InsertKeepsTable, ListKeepsTable, UpdateKeepsTable
     DEF Next, CountPriorities, FindIndicator, FindPriority, StartUpdateList,
         FindNext, Abort, vars

(* Priorities keeps the contract with Snapshots: a priority is linked to an *)
(* indicator that is there at that instant, and a deleted one stays deleted,*)
(* whatever copies pending updates and lists hold.                          *)
THEOREM PrioritiesKeepTable == Spec => KeepsPriorityTable
<1>1. Init => Table!Init
  BY DEF Init, Table!Init, Links, Exists
<1>2. IInv /\ [Next]_vars
        => [Table!Next]_<<Links, indicators, 1 .. prioSeq, 1 .. snapSeq>>
  BY StepKeepsTable DEF TableStep
<1>3. QED
  BY <1>1, <1>2, Invariance, PTL DEF Spec, KeepsPriorityTable, Table!Spec, Table!vars

-----------------------------------------------------------------------------
(* How far the limit can be overrun.                                       *)

Bounded(s) == Cardinality(AddedSingly(s)) + Cardinality(Adding(s))
                < Limit + Cardinality(Workers)

(* The counted sets are finite, so their cardinalities are numbers.        *)
LEMMA FiniteParts ==
    \A s \in SnapshotIds :
        /\ IsFiniteSet(AddedSingly(s)) /\ IsFiniteSet(Adding(s))
        /\ IsFiniteSet(PrioritiesOf(s))
        /\ Cardinality(AddedSingly(s)) \in Nat /\ Cardinality(Adding(s)) \in Nat
        /\ Cardinality(PrioritiesOf(s)) \in Nat /\ Cardinality(Workers) \in Nat
<1> TAKE s \in SnapshotIds
<1>1. IsFiniteSet(PriorityIds)
  BY BoundsAssumption, FS_Interval DEF PriorityIds
<1>2. /\ AddedSingly(s) \in SUBSET PriorityIds /\ Adding(s) \in SUBSET Workers
      /\ PrioritiesOf(s) \in SUBSET PriorityIds
  BY DEF AddedSingly, Adding, PrioritiesOf
<1>3. /\ IsFiniteSet(AddedSingly(s)) /\ IsFiniteSet(Adding(s))
      /\ IsFiniteSet(PrioritiesOf(s))
  BY <1>1, <1>2, WorkersAssumption, FS_Subset
<1>4. QED
  BY <1>3, WorkersAssumption, FS_CardinalityType

(* A step that adds to neither set keeps the bound.                        *)
LEMMA ShrinkingKeepsBound ==
    ASSUME NEW s \in SnapshotIds, Bounded(s),
           AddedSingly(s)' \subseteq AddedSingly(s), Adding(s)' \subseteq Adding(s)
    PROVE  Bounded(s)'
<1> DEFINE S == AddedSingly(s)'  I == Adding(s)'
<1>1. /\ IsFiniteSet(AddedSingly(s)) /\ IsFiniteSet(Adding(s))
      /\ Cardinality(AddedSingly(s)) \in Nat /\ Cardinality(Adding(s)) \in Nat
      /\ Cardinality(Workers) \in Nat
  BY FiniteParts
<1>2. IsFiniteSet(S) /\ Cardinality(S) <= Cardinality(AddedSingly(s))
  BY <1>1, FS_Subset
<1>3. IsFiniteSet(I) /\ Cardinality(I) <= Cardinality(Adding(s))
  BY <1>1, FS_Subset
<1>4. Cardinality(S) \in Nat /\ Cardinality(I) \in Nat
  BY <1>2, <1>3, FS_CardinalityType
<1>5. Cardinality(S) + Cardinality(I) < Limit + Cardinality(Workers)
  <2> HIDE DEF S, I
  <2> QED
    BY <1>1, <1>2, <1>3, <1>4, BoundsAssumption DEF Bounded
<1>6. QED
  BY <1>5 DEF Bounded

(* The check that finds fewer than Limit priorities leaves at most Limit - 1*)
(* of them and at most every worker about to insert.                        *)
LEMMA CheckKeepsBound ==
    ASSUME NEW s \in SnapshotIds, Cardinality(PrioritiesOf(s)) < Limit,
           UNCHANGED <<priority, listed>>
    PROVE  Bounded(s)'
<1> DEFINE S == AddedSingly(s)'  I == Adding(s)'
<1>1. S \subseteq PrioritiesOf(s) /\ I \in SUBSET Workers
  BY DEF AddedSingly, PrioritiesOf, Adding, Exists
<1>2. /\ IsFiniteSet(PrioritiesOf(s)) /\ Cardinality(PrioritiesOf(s)) \in Nat
      /\ Cardinality(Workers) \in Nat
  BY FiniteParts
<1>3. IsFiniteSet(S) /\ Cardinality(S) <= Cardinality(PrioritiesOf(s))
  BY <1>1, <1>2, FS_Subset
<1>4. IsFiniteSet(I) /\ Cardinality(I) <= Cardinality(Workers)
  BY <1>1, WorkersAssumption, FS_Subset
<1>5. Cardinality(S) \in Nat /\ Cardinality(I) \in Nat
  BY <1>3, <1>4, FS_CardinalityType
<1>6. Cardinality(S) + Cardinality(I) < Limit + Cardinality(Workers)
  <2> HIDE DEF S, I
  <2> QED
    BY <1>2, <1>3, <1>4, <1>5, BoundsAssumption
<1>7. QED
  BY <1>6 DEF Bounded

(* An insert turns one request that is adding into one more priority.      *)
LEMMA InsertKeepsBound ==
    ASSUME TypeOK, PendingSound, NEW s \in SnapshotIds, Bounded(s),
           NEW w \in Workers, InsertPriority(w)
    PROVE  Bounded(s)'
<1>1. Adding(s)' = Adding(s) \ {w}
  BY DEF InsertPriority, Adding, TypeOK, Finish, Set, Idle, At
<1>2. CASE req[w].row.snapshot = s
  <2> DEFINE q == prioSeq + 1  S == AddedSingly(s)'  I == Adding(s)'
             T == AddedSingly(s) \cup {q}
  <2>1. S \subseteq T
    BY DEF InsertPriority, AddedSingly, PrioritiesOf, Exists, TypeOK
  <2>2. w \in Adding(s)
    BY <1>2 DEF InsertPriority, Adding
  <2>3. /\ IsFiniteSet(AddedSingly(s)) /\ IsFiniteSet(Adding(s))
        /\ Cardinality(AddedSingly(s)) \in Nat /\ Cardinality(Adding(s)) \in Nat
        /\ Cardinality(Workers) \in Nat
    BY FiniteParts
  <2>4. IsFiniteSet(T) /\ Cardinality(T) <= Cardinality(AddedSingly(s)) + 1
    <3>1. /\ IsFiniteSet(T)
          /\ Cardinality(T) = IF q \in AddedSingly(s)
                              THEN Cardinality(AddedSingly(s))
                              ELSE Cardinality(AddedSingly(s)) + 1
      BY <2>3, FS_AddElement
    <3>2. QED
      BY <2>3, <3>1
  <2>5. Cardinality(I) = Cardinality(Adding(s)) - 1
    BY <1>1, <2>2, <2>3, FS_RemoveElement
  <2>6. IsFiniteSet(S) /\ Cardinality(S) <= Cardinality(T)
    BY <2>1, <2>4, FS_Subset
  <2>7. Cardinality(S) \in Nat /\ Cardinality(T) \in Nat
    BY <2>4, <2>6, FS_CardinalityType
  <2>8. Cardinality(S) + Cardinality(I) < Limit + Cardinality(Workers)
    <3> HIDE DEF S, I, T
    <3> QED
      BY <2>3, <2>4, <2>5, <2>6, <2>7, BoundsAssumption DEF Bounded
  <2>9. QED
    BY <2>8 DEF Bounded
<1>3. CASE req[w].row.snapshot # s
  <2>1. AddedSingly(s)' \subseteq AddedSingly(s)
    BY <1>3 DEF InsertPriority, AddedSingly, PrioritiesOf, Exists, TypeOK
  <2>2. QED
    BY <1>1, <2>1, ShrinkingKeepsBound
<1>4. QED
  BY <1>2, <1>3

(* Only the check lets a request add, and only adding makes priorities.    *)
LEMMA BoundInductive ==
    ASSUME TypeOK, PendingSound, LimitOverrunBounded, [Next]_vars
    PROVE  LimitOverrunBounded'
<1> SUFFICES ASSUME NEW s \in SnapshotIds PROVE Bounded(s)'
  BY DEF LimitOverrunBounded, Bounded
<1>0. Bounded(s)
  BY DEF LimitOverrunBounded, Bounded
<1>a. \A w \in Workers : req[w] \in Request
  BY DEF TypeOK
<1>b. ASSUME AddedSingly(s)' \subseteq AddedSingly(s), NEW w \in Workers,
             NEW r, Set(w, r), r.step # "insert"
      PROVE  Bounded(s)'
  <2>1. Adding(s)' \subseteq Adding(s)
    BY <1>b DEF Adding, At, Set, TypeOK
  <2>2. QED
    BY <1>0, <1>b, <2>1, ShrinkingKeepsBound
<1>c. UNCHANGED <<priority, listed>> => AddedSingly(s)' \subseteq AddedSingly(s)
  BY DEF AddedSingly, PrioritiesOf, Exists
<1>d. Idle.step # "insert"
  BY DEF Idle
<1>1. ASSUME NEW w \in Workers, NEW d \in SnapshotIds, NEW t \in Texts,
             CountPriorities(w, d, t)
      PROVE  Bounded(s)'
  <2>1. UNCHANGED <<priority, listed>>
    BY <1>1 DEF CountPriorities
  <2>2. CASE d = s
    BY <1>1, <2>1, <2>2, CheckKeepsBound DEF CountPriorities
  <2>3. CASE d # s
    <3> DEFINE r == [Idle EXCEPT !.step = "insert",
                                 !.row = [snapshot |-> d, text |-> t]]
    <3>1. Set(w, r)
      BY <1>1 DEF CountPriorities
    <3>2. r.row.snapshot = d
      BY DEF Idle
    <3>3. Adding(s)' \subseteq Adding(s)
      BY <2>3, <3>1, <3>2 DEF Adding, At, Set, TypeOK
    <3>4. QED
      BY <1>0, <1>c, <2>1, <3>3, ShrinkingKeepsBound
  <2>4. QED
    BY <2>2, <2>3
<1>2. ASSUME NEW w \in Workers, InsertPriority(w) PROVE Bounded(s)'
  BY <1>0, <1>2, InsertKeepsBound
<1>3. ASSUME NEW w \in Workers, NEW d \in SnapshotIds, NEW t \in Texts,
             NEW ids \in SUBSET PriorityIds, NEW n \in 0 .. MaxFresh,
             FindIndicator(w, d, t, ids, n)
      PROVE  Bounded(s)'
  <2> DEFINE r == [Idle EXCEPT !.step = "saveList", !.todo = ids, !.fresh = n,
                     !.row = [snapshot |-> IF d \in indicators THEN d ELSE Null,
                              text |-> t]]
  <2>1. Set(w, r) /\ UNCHANGED <<priority, listed>>
    BY <1>3 DEF FindIndicator
  <2>2. r.step # "insert"
    BY DEF Idle
  <2>3. QED
    BY <1>b, <1>c, <2>1, <2>2
<1>4. ASSUME NEW w \in Workers, SaveList(w) PROVE Bounded(s)'
  <2>1. AddedSingly(s)' \subseteq AddedSingly(s)
    BY <1>4, ListStep DEF AddedSingly, PrioritiesOf, Exists
  <2>2. Set(w, Idle)
    BY <1>4 DEF SaveList, Finish
  <2>3. QED
    BY <1>b, <1>d, <2>1, <2>2
<1>5. ASSUME NEW w \in Workers, NEW p \in PriorityIds, NEW t \in Texts,
             FindPriority(w, p, t)
      PROVE  Bounded(s)'
  <2> DEFINE r == [Idle EXCEPT !.step = "save", !.id = p,
                               !.row = [priority[p] EXCEPT !.text = t]]
  <2>1. Set(w, r) /\ UNCHANGED <<priority, listed>>
    BY <1>5 DEF FindPriority
  <2>2. r.step # "insert"
    BY DEF Idle
  <2>3. QED
    BY <1>b, <1>c, <2>1, <2>2
<1>6. ASSUME NEW w \in Workers, NEW d \in SnapshotIds, NEW t \in Texts,
             NEW ids \in SUBSET PriorityIds, StartUpdateList(w, d, t, ids)
      PROVE  Bounded(s)'
  <2> DEFINE r == [Idle EXCEPT !.step = "find", !.todo = ids,
                               !.row = [snapshot |-> d, text |-> t]]
  <2>1. Set(w, r) /\ UNCHANGED <<priority, listed>>
    BY <1>6 DEF StartUpdateList
  <2>2. r.step # "insert"
    BY DEF Idle
  <2>3. QED
    BY <1>b, <1>c, <2>1, <2>2
<1>7. ASSUME NEW w \in Workers, FindNext(w) PROVE Bounded(s)'
  <2>1. UNCHANGED <<priority, listed>>
    BY <1>7 DEF FindNext
  <2>2. ASSUME NEW p, Set(w, [req[w] EXCEPT !.step = "save", !.id = p,
                                            !.todo = req[w].todo \ {p}])
        PROVE  Bounded(s)'
    <3>1. [req[w] EXCEPT !.step = "save", !.id = p,
                         !.todo = req[w].todo \ {p}].step # "insert"
      BY <1>a DEF Request
    <3>2. QED
      BY <1>b, <1>c, <2>1, <2>2, <3>1
  <2>3. QED
    BY <1>7, <1>b, <1>c, <1>d, <2>1, <2>2 DEF FindNext, Finish
<1>8. ASSUME NEW w \in Workers, SavePriority(w) PROVE Bounded(s)'
  <2>1. AddedSingly(s)' \subseteq AddedSingly(s)
    BY <1>8 DEF SavePriority, CanSave, PendingSound, Pending, AddedSingly,
                PrioritiesOf, Exists, TypeOK
  <2>2. CASE Finish(w)
    BY <1>b, <1>d, <2>1, <2>2 DEF Finish
  <2>3. CASE Set(w, [req[w] EXCEPT !.step = "find", !.id = None])
    <3>1. [req[w] EXCEPT !.step = "find", !.id = None].step # "insert"
      BY <1>a DEF Request
    <3>2. QED
      BY <1>b, <2>1, <2>3, <3>1
  <2>4. QED
    BY <1>8, <2>2, <2>3 DEF SavePriority
<1>9. ASSUME NEW w \in Workers, Abort(w) PROVE Bounded(s)'
  BY <1>9, <1>b, <1>c, <1>d DEF Abort, Finish
<1>10. ASSUME NEW p \in PriorityIds, DeletePriority(p) PROVE Bounded(s)'
  <2>1. AddedSingly(s)' \subseteq AddedSingly(s) /\ Adding(s)' \subseteq Adding(s)
    BY <1>10 DEF DeletePriority, AddedSingly, PrioritiesOf, Exists, TypeOK,
                 Adding, At
  <2>2. QED
    BY <1>0, <2>1, ShrinkingKeepsBound
<1>11. CASE UNCHANGED <<priority, listed, req>>
  <2>1. Adding(s)' \subseteq Adding(s)
    BY <1>11 DEF Adding, At
  <2>2. QED
    BY <1>0, <1>11, <1>c, <2>1, ShrinkingKeepsBound
<1>12. QED
  BY <1>1, <1>2, <1>3, <1>4, <1>5, <1>6, <1>7, <1>8, <1>9, <1>10, <1>11
     DEF Next, AddIndicator, DeleteIndicator, vars

(* Requests that run at once can overrun the limit, by one for each worker  *)
(* but the first, and never by more.                                        *)
THEOREM OverrunStaysBounded == Spec => []LimitOverrunBounded
<1>1. Init => LimitOverrunBounded
  <2> SUFFICES ASSUME Init, NEW s \in SnapshotIds PROVE Bounded(s)
    BY DEF LimitOverrunBounded, Bounded
  <2>1. AddedSingly(s) = {} /\ Adding(s) = {}
    BY DEF Init, AddedSingly, PrioritiesOf, Exists, Adding, At, Idle
  <2>2. Cardinality(AddedSingly(s)) = 0 /\ Cardinality(Adding(s)) = 0
    BY <2>1, FS_EmptySet
  <2>3. QED
    BY <2>2, FiniteParts, BoundsAssumption DEF Bounded
<1>2. IInv /\ LimitOverrunBounded /\ [Next]_vars => LimitOverrunBounded'
  BY BoundInductive DEF IInv
<1>3. QED
  BY Invariance, <1>1, <1>2, PTL DEF Spec

(* Requests that are served one after the other never put a sixth priority *)
(* on a snapshot: concurrency is all it takes, and what it takes.          *)
THEOREM SequentialKeepsLimit ==
    ASSUME Cardinality(Workers) = 1
    PROVE  Spec => []AtMostLimit
<1>1. LimitOverrunBounded => AtMostLimit
  <2> SUFFICES ASSUME LimitOverrunBounded, NEW s \in SnapshotIds
               PROVE  Cardinality(AddedSingly(s)) <= Limit
    BY DEF AtMostLimit
  <2>1. /\ Cardinality(AddedSingly(s)) \in Nat /\ Cardinality(Adding(s)) \in Nat
        /\ Limit \in Nat
    BY FiniteParts, BoundsAssumption
  <2>2. Cardinality(AddedSingly(s)) + Cardinality(Adding(s)) < Limit + 1
    BY DEF LimitOverrunBounded
  <2>3. QED
    BY <2>1, <2>2
<1>2. QED
  BY <1>1, OverrunStaysBounded, PTL

=============================================================================
