--------------------------- MODULE SnapshotsProofs ---------------------------
(***************************************************************************)
(* Proofs about Snapshots, for every number of workers, codes and ids.     *)
(***************************************************************************)
EXTENDS Snapshots, FiniteSetTheorems, TLAPS

(* A worker whose request is replaced by a well-typed one leaves req       *)
(* well-typed.                                                             *)
LEMMA SetType ==
    ASSUME req \in [Workers -> Request], NEW w \in Workers,
           NEW r \in Request, Set(w, r)
    PROVE  req' \in [Workers -> Request]
BY DEF Set

(* The ways a request is changed keep it well-typed.                       *)
LEMMA RequestShapes ==
    /\ Idle \in Request
    /\ \A r \in Request, st \in Steps : [r EXCEPT !.step = st] \in Request
    /\ \A r \in Request, st \in Steps, s \in SnapshotIds :
         [r EXCEPT !.step = st, !.snapshot = s] \in Request
    /\ \A r \in Request, st \in Steps, f \in FamilyIds, s \in SnapshotIds :
         [r EXCEPT !.step = st, !.family = f, !.snapshot = s] \in Request
    /\ \A r \in Request, st \in Steps, P \in SUBSET PriorityIds :
         [r EXCEPT !.step = st, !.prios = P] \in Request
    /\ \A o \in Ops, st \in Steps, row \in FamilyRow :
         [Idle EXCEPT !.op = o, !.step = st, !.row = row] \in Request
    /\ \A o \in Ops, st \in Steps, f \in FamilyIds :
         [Idle EXCEPT !.op = o, !.step = st, !.family = f] \in Request
    /\ \A o \in Ops, st \in Steps, f \in FamilyIds, row \in FamilyRow :
         [Idle EXCEPT !.op = o, !.step = st, !.family = f, !.row = row] \in Request
    /\ \A o \in Ops, st \in Steps, f \in FamilyIds \cup {None}, s \in SnapshotIds :
         [Idle EXCEPT !.op = o, !.step = st, !.family = f, !.snapshot = s] \in Request
<1>1. "none" \in Ops /\ "idle" \in Steps
  BY DEF Ops, Steps
<1>2. QED
  BY <1>1 DEF Idle, Request

(* Every operation leaves the tables and the requests within their types.  *)
LEMMA TypeInductive == TypeOK /\ RequestsConsistent /\ [Next]_vars => TypeOK'
<1> SUFFICES ASSUME TypeOK, RequestsConsistent, [Next]_vars PROVE TypeOK'
  OBVIOUS
<1> USE BoundsAssumption DEF TypeOK
<1>a. ASSUME NEW w \in Workers, NEW r \in Request, Set(w, r)
      PROVE  req' \in [Workers -> Request]
  BY <1>a, SetType
<1>b. \A w \in Workers : req[w] \in Request
  OBVIOUS
<1>c. \A w \in Workers : /\ req[w].family \in FamilyIds \cup {None}
                         /\ req[w].snapshot \in SnapshotIds \cup {None}
                         /\ req[w].prios \in SUBSET PriorityIds
                         /\ req[w].row \in FamilyRow \cup {None}
  BY <1>b DEF Request
<1>d. Idle \in Request /\ Steps # {} /\ Ops # {}
  BY DEF Idle, Request, Ops, Steps
<1>e. \A w \in Workers : Finish(w) => req' \in [Workers -> Request]
  BY <1>a, <1>d DEF Finish
<1>f. ASSUME NEW w \in Workers, NEW st \in Steps, Goto(w, st)
      PROVE  req' \in [Workers -> Request]
  BY <1>a, <1>b, <1>f, RequestShapes, <1>d DEF Goto
<1>1. ASSUME NEW w \in Workers, NEW c \in Codes, LookupFamily(w, c) PROVE TypeOK'
  <2>1. [code |-> c, active |-> TRUE, person |-> TRUE] \in FamilyRow
    BY DEF FamilyRow
  <2>2. "addSnapshot" \in Ops /\ "persist" \in Steps
    BY DEF Ops, Steps
  <2>3. req' \in [Workers -> Request]
    BY <1>1, <1>a, <1>d, <2>1, <2>2, RequestShapes DEF LookupFamily, FindByCode
  <2>4. QED
    BY <1>1, <2>3 DEF LookupFamily
<1>2. ASSUME NEW w \in Workers, NEW s \in SnapshotIds, FindSnapshot(w, s) PROVE TypeOK'
  <2>1. "deleteSnapshot" \in Ops /\ "listPriorities" \in Steps
    BY DEF Ops, Steps
  <2>2. req' \in [Workers -> Request]
    BY <1>2, <1>a, <1>d, <2>1, RequestShapes DEF FindSnapshot
  <2>3. QED
    BY <1>2, <2>2 DEF FindSnapshot
<1>3. ASSUME NEW w \in Workers, NEW f \in FamilyIds, FindFamily(w, f) PROVE TypeOK'
  <2>1. "deleteFamily" \in Ops /\ "pickNewest" \in Steps
    BY DEF Ops, Steps
  <2>2. req' \in [Workers -> Request]
    BY <1>3, <1>a, <1>d, <2>1, RequestShapes DEF FindFamily
  <2>3. QED
    BY <1>3, <2>2 DEF FindFamily
<1>4. ASSUME NEW w \in Workers, PersistNewFamily(w) PROVE TypeOK'
  <2>1. famSeq + 1 \in FamilyIds /\ snapSeq + 1 \in SnapshotIds /\ "commit" \in Steps
    BY <1>4 DEF PersistNewFamily, FamilyIds, SnapshotIds, Steps
  <2>2. req' \in [Workers -> Request]
    BY <1>4, <1>a, <1>b, <1>d, <2>1, RequestShapes DEF PersistNewFamily
  <2>3. QED
    BY <1>4, <2>2 DEF PersistNewFamily
<1>5. ASSUME NEW w \in Workers, PersistInFamily(w) PROVE TypeOK'
  <2>1. snapSeq + 1 \in SnapshotIds /\ "commit" \in Steps
    BY <1>5 DEF PersistInFamily, SnapshotIds, Steps
  <2>2. req' \in [Workers -> Request]
    BY <1>5, <1>a, <1>b, <1>d, <2>1, RequestShapes DEF PersistInFamily
  <2>3. QED
    BY <1>5, <2>2 DEF PersistInFamily
<1>6. ASSUME NEW w \in Workers, CommitSnapshot(w) PROVE TypeOK'
  BY <1>6, <1>c, <1>e DEF CommitSnapshot
<1>7. ASSUME NEW w \in Workers, PickNewest(w) PROVE TypeOK'
  <2>1. {"deactivate", "listPriorities"} \subseteq Steps
    BY DEF Steps
  <2>2. req' \in [Workers -> Request]
    BY <1>7, <1>a, <1>b, <1>d, <1>f, <2>1, RequestShapes DEF PickNewest, SnapshotsOf
  <2>3. QED
    BY <1>7, <2>2 DEF PickNewest
<1>8. ASSUME NEW w \in Workers, ListPriorities(w) PROVE TypeOK'
  <2>1. "purgePriorities" \in Steps
    BY DEF Steps
  <2>2. req' \in [Workers -> Request]
    BY <1>8, <1>a, <1>b, <1>d, <2>1, RequestShapes DEF ListPriorities, PrioritiesOf
  <2>3. QED
    BY <1>8, <2>2 DEF ListPriorities
<1>9. ASSUME NEW w \in Workers, PurgePriorities(w) PROVE TypeOK'
  BY <1>9, <1>e, <1>f DEF PurgePriorities, Steps
<1>10. ASSUME NEW w \in Workers, DeleteEconomic(w) PROVE TypeOK'
  BY <1>10, <1>e, <1>f DEF DeleteEconomic, Steps
<1>11. ASSUME NEW w \in Workers, CountRemaining(w) PROVE TypeOK'
  BY <1>11, <1>e, <1>f DEF CountRemaining, Steps
<1>12. ASSUME NEW w \in Workers, DeleteFamilyRow(w) PROVE TypeOK'
  BY <1>12, <1>e DEF DeleteFamilyRow
<1>13. ASSUME NEW w \in Workers, DeactivateFamily(w) PROVE TypeOK'
  <2>1. req[w].row \in FamilyRow
    BY <1>13, <1>c DEF DeactivateFamily, RequestsConsistent, Consistent, At
  <2>2. [req[w].row EXCEPT !.active = FALSE] \in FamilyRow
    BY <2>1 DEF FamilyRow
  <2>3. QED
    BY <1>13, <1>c, <1>e, <2>2 DEF DeactivateFamily
<1>14. ASSUME NEW w \in Workers, Abort(w) PROVE TypeOK'
  BY <1>14, <1>e DEF Abort
<1>15. ASSUME NEW c \in Codes, NEW active \in BOOLEAN, InsertFamily(c, active) PROVE TypeOK'
  BY <1>15 DEF InsertFamily, FamilyRow, FamilyIds
<1>16. ASSUME NEW c \in Codes, NEW active \in BOOLEAN, NEW f \in FamilyIds,
              OverwriteFamily(f, c, active) PROVE TypeOK'
  BY <1>16 DEF OverwriteFamily, FamilyRow
<1>17. ASSUME NEW p \in PriorityIds, NEW s \in SnapshotIds \cup {Null},
              SavePriority(p, s) PROVE TypeOK'
  BY <1>17 DEF SavePriority, PriorityIds
<1>18. ASSUME NEW p \in PriorityIds, DeletePriority(p) PROVE TypeOK'
  BY <1>18 DEF DeletePriority
<1>19. CASE UNCHANGED vars
  BY <1>19 DEF vars
<1>20. QED
  BY <1>1, <1>2, <1>3, <1>4, <1>5, <1>6, <1>7, <1>8, <1>9, <1>10, <1>11, <1>12,
     <1>13, <1>14, <1>15, <1>16, <1>17, <1>18, <1>19 DEF Next, Proceed

(* What the requests remember stays true of the tables.                    *)
LEMMA ConsistentInductive ==
    TypeOK /\ RequestsConsistent /\ [Next]_vars => RequestsConsistent'
<1> SUFFICES ASSUME TypeOK, RequestsConsistent, [Next]_vars
             PROVE  RequestsConsistent'
  OBVIOUS
<1> USE BoundsAssumption, SentinelAssumption
    DEF TypeOK, RequestsConsistent, Consistent, At, Set, Goto, Finish, Idle, Request,
        SnapshotIds, FamilyIds
<1>1. ASSUME NEW w \in Workers, NEW c \in Codes, LookupFamily(w, c)
      PROVE  RequestsConsistent'
  <2> DEFINE new == [code |-> c, active |-> TRUE, person |-> TRUE]
  <2>1. CASE Set(w, [Idle EXCEPT !.op = "addSnapshot", !.step = "persist",
                                 !.row = new])
    <3>1. new # None
      <4>1. new \in FamilyRow
        BY DEF FamilyRow
      <4>2. QED
        BY <4>1
    <3> HIDE DEF new
    <3>2. UNCHANGED <<economic, snapSeq>>
      BY <1>1 DEF LookupFamily
    <3>3. \A v \in Workers : Consistent(v)'
      BY <2>1, <3>1, <3>2
    <3>4. QED
      BY <3>2, <3>3
  <2>2. ASSUME NEW f \in FindByCode(c),
               Set(w, [Idle EXCEPT !.op = "addSnapshot", !.step = "persist",
                                   !.family = f])
        PROVE  RequestsConsistent'
    <3>1. f # None
      BY DEF FindByCode
    <3>2. UNCHANGED <<economic, snapSeq>>
      BY <1>1 DEF LookupFamily
    <3>3. ASSUME NEW v \in Workers PROVE Consistent(v)'
      BY <2>2, <3>1, <3>2
    <3>4. QED
      BY <3>2, <3>3
  <2>3. QED
    BY <1>1, <2>1, <2>2 DEF LookupFamily
<1>2. ASSUME NEW w \in Workers, NEW s \in SnapshotIds, FindSnapshot(w, s)
      PROVE  RequestsConsistent'
  BY <1>2 DEF FindSnapshot
<1>3. ASSUME NEW w \in Workers, NEW f \in FamilyIds, FindFamily(w, f)
      PROVE  RequestsConsistent'
  BY <1>3 DEF FindFamily
<1>4. ASSUME NEW w \in Workers, PersistNewFamily(w) PROVE RequestsConsistent'
  BY <1>4 DEF PersistNewFamily
<1>5. ASSUME NEW w \in Workers, PersistInFamily(w) PROVE RequestsConsistent'
  BY <1>5 DEF PersistInFamily
<1>6. ASSUME NEW w \in Workers, CommitSnapshot(w) PROVE RequestsConsistent'
  <2>1. CASE FamilyPresent(w)
    <3>1. \A s \in SnapshotIds : s > snapSeq' => economic'[s] = None
      BY <1>6, <2>1 DEF CommitSnapshot
    <3>2. ASSUME NEW v \in Workers, v # w PROVE Consistent(v)'
      BY <1>6, <2>1, <3>2 DEF CommitSnapshot
    <3>3. Consistent(w)'
      BY <1>6, <2>1 DEF CommitSnapshot
    <3>4. QED
      BY <3>1, <3>2, <3>3
  <2>2. CASE ~FamilyPresent(w)
    BY <1>6, <2>2 DEF CommitSnapshot
  <2>3. QED
    BY <2>1, <2>2
<1>7. ASSUME NEW w \in Workers, PickNewest(w) PROVE RequestsConsistent'
  <2>1. CASE Goto(w, "deactivate")
    BY <1>7, <2>1 DEF PickNewest
  <2>2. ASSUME NEW s \in SnapshotsOf(req[w].family),
               Set(w, [req[w] EXCEPT !.step = "listPriorities", !.snapshot = s])
        PROVE  RequestsConsistent'
    <3>1. At(w, "pickNewest") /\ UNCHANGED <<economic, snapSeq>>
      BY <1>7 DEF PickNewest
    <3>2. req[w].op = "deleteFamily" /\ req[w].row # None /\ req[w].family # None
      BY <3>1
    <3>3. s \in SnapshotIds /\ economic[s] = req[w].family /\ s # None
      BY DEF SnapshotsOf
    <3>4. s <= snapSeq
      BY <3>2, <3>3
    <3>5. ASSUME NEW v \in Workers, v # w PROVE Consistent(v)'
      <4>1. req'[v] = req[v]
        BY <2>2, <3>5
      <4>2. At(v, "commit") => req[v].snapshot # s
        BY <3>2, <3>3
      <4>3. \A u \in Workers :
              req'[u].snapshot = IF u = w THEN s ELSE req[u].snapshot
        BY <2>2
      <4>4. QED
        BY <3>1, <3>5, <4>1, <4>2, <4>3
    <3>6. Consistent(w)'
      <4>1. req'[w] = [req[w] EXCEPT !.step = "listPriorities", !.snapshot = s]
        BY <2>2
      <4>2. QED
        BY <4>1, <3>1, <3>2, <3>3, <3>4
    <3>7. QED
      BY <3>1, <3>5, <3>6
  <2>3. QED
    BY <1>7, <2>1, <2>2 DEF PickNewest
<1>8. ASSUME NEW w \in Workers, ListPriorities(w) PROVE RequestsConsistent'
  BY <1>8 DEF ListPriorities
<1>f. ASSUME NEW w \in Workers, Finish(w), UNCHANGED <<economic, snapSeq>>
      PROVE  RequestsConsistent'
  BY <1>f
<1>9. ASSUME NEW w \in Workers, PurgePriorities(w) PROVE RequestsConsistent'
  <2>1. At(w, "purgePriorities") /\ UNCHANGED <<economic, snapSeq>>
    BY <1>9 DEF PurgePriorities
  <2>2. CASE Goto(w, "deleteEconomic")
    BY <2>1, <2>2
  <2>3. CASE Finish(w)
    BY <1>f, <2>1, <2>3
  <2>4. QED
    BY <1>9, <2>2, <2>3 DEF PurgePriorities
<1>10. ASSUME NEW w \in Workers, DeleteEconomic(w) PROVE RequestsConsistent'
  <2>1. CASE Goto(w, "countRemaining") /\ req[w].op = "deleteSnapshot"
    BY <1>10, <2>1 DEF DeleteEconomic
  <2>2. CASE Goto(w, "deactivate") /\ req[w].op = "deleteFamily"
    <3>1. ASSUME NEW v \in Workers, v # w PROVE Consistent(v)'
      <4>1. req'[v] = req[v] /\ UNCHANGED snapSeq
        BY <1>10, <2>2, <3>1 DEF DeleteEconomic
      <4>2. /\ economic[req[w].snapshot] # None
            /\ economic' = [economic EXCEPT ![req[w].snapshot] = None]
        BY <1>10, <2>2 DEF DeleteEconomic
      <4>3. QED
        BY <3>1, <4>1, <4>2, <2>2
    <3>2. Consistent(w)'
      BY <1>10, <2>2 DEF DeleteEconomic
    <3>3. QED
      BY <1>10, <2>2, <3>1, <3>2 DEF DeleteEconomic
  <2>3. CASE Finish(w)
    BY <1>10, <2>3 DEF DeleteEconomic
  <2>4. QED
    BY <1>10, <2>1, <2>2, <2>3 DEF DeleteEconomic
<1>11. ASSUME NEW w \in Workers, CountRemaining(w) PROVE RequestsConsistent'
  <2>1. CASE Goto(w, "deleteFamilyRow")
    BY <1>11, <2>1 DEF CountRemaining
  <2>2. CASE Finish(w)
    BY <1>11, <2>2 DEF CountRemaining
  <2>3. QED
    BY <1>11, <2>1, <2>2 DEF CountRemaining
<1>12. ASSUME NEW w \in Workers, DeleteFamilyRow(w) PROVE RequestsConsistent'
  <2>1. Finish(w) /\ UNCHANGED <<economic, snapSeq>>
    BY <1>12 DEF DeleteFamilyRow
  <2>2. QED
    BY <1>f, <2>1
<1>13. ASSUME NEW w \in Workers, DeactivateFamily(w) PROVE RequestsConsistent'
  <2>1. Finish(w) /\ UNCHANGED <<economic, snapSeq>>
    BY <1>13 DEF DeactivateFamily
  <2>2. QED
    BY <1>f, <2>1
<1>14. ASSUME NEW w \in Workers, Abort(w) PROVE RequestsConsistent'
  <2>1. Finish(w) /\ UNCHANGED <<economic, snapSeq>>
    BY <1>14 DEF Abort
  <2>2. QED
    BY <1>f, <2>1
<1>15. ASSUME NEW c \in Codes, NEW active \in BOOLEAN,
              \/ InsertFamily(c, active)
              \/ \E f \in FamilyIds : OverwriteFamily(f, c, active)
       PROVE  RequestsConsistent'
  BY <1>15 DEF InsertFamily, OverwriteFamily
<1>16. ASSUME NEW p \in PriorityIds,
              \/ DeletePriority(p)
              \/ \E s \in SnapshotIds \cup {Null} : SavePriority(p, s)
       PROVE  RequestsConsistent'
  BY <1>16 DEF SavePriority, DeletePriority
<1>17. CASE UNCHANGED vars
  BY <1>17 DEF vars
<1>18. QED
  BY <1>1, <1>2, <1>3, <1>4, <1>5, <1>6, <1>7, <1>8, <1>9, <1>10, <1>11, <1>12,
     <1>13, <1>14, <1>15, <1>16, <1>17 DEF Next, Proceed

(* A family that is gone, inactive or without a person is never again an    *)
(* active one with a person.                                                *)
Retired(f) == family[f] = None \/ ~(family[f].active /\ family[f].person)

\* What the request of worker w knows about a family: the id of one that is
\* still to be inserted, or a copy that was inactive when it was loaded.
Knows(w) ==
    /\ req[w].op # "deleteSnapshot" /\ req[w].family # None
         => req[w].family <= famSeq
    /\ At(w, "commit") /\ req[w].row # None =>
         /\ family[req[w].family] = None
         /\ \A v \in Workers \ {w} : req[v].family = req[w].family
                                    => req[v].op = "deleteSnapshot"
    /\ req[w].op = "deleteFamily" /\ ~req[w].row.active
         => Retired(req[w].family)

FamiliesKnown ==
    /\ \A f \in FamilyIds : f > famSeq => family[f] = None
    /\ \A w \in Workers : Knows(w)

(* What the requests know about families stays true of the table.          *)
LEMMA KnownInductive ==
    TypeOK /\ RequestsConsistent /\ FamiliesKnown /\ [Next]_vars => FamiliesKnown'
<1> SUFFICES ASSUME TypeOK, RequestsConsistent, FamiliesKnown, [Next]_vars
             PROVE  FamiliesKnown'
  OBVIOUS
<1> USE BoundsAssumption, SentinelAssumption DEF TypeOK, FamilyIds
<1>a. \A w \in Workers : /\ req[w] \in Request
                         /\ req[w].family \in FamilyIds \cup {None}
                         /\ req[w].row \in FamilyRow \cup {None}
  BY DEF Request
<1>b. ASSUME UNCHANGED <<family, famSeq>>, NEW w \in Workers, NEW r \in Request,
             Set(w, r),
             \/ r = Idle
             \/ r.op = "deleteSnapshot" /\ r.step # "commit"
             \/ /\ r.op = req[w].op /\ r.family = req[w].family
                /\ r.row = req[w].row
                /\ r.step = "commit" => At(w, "commit") \/ r.row = None
      PROVE  FamiliesKnown'
  <2>1. \A v \in Workers : req'[v] = IF v = w THEN r ELSE req[v]
    BY <1>b DEF Set
  <2>2. \A v \in Workers :
          \/ req'[v] = Idle
          \/ req'[v].op = "deleteSnapshot" /\ req'[v].step # "commit"
          \/ /\ req'[v].op = req[v].op /\ req'[v].family = req[v].family
             /\ req'[v].row = req[v].row
             /\ req'[v].step = "commit" => At(v, "commit") \/ req'[v].row = None
    BY <1>b, <2>1 DEF At
  <2>3. ASSUME NEW v \in Workers PROVE Knows(v)'
    <3>1. Knows(v)
      BY DEF FamiliesKnown
    <3>2. CASE req'[v] = Idle
      BY <3>2 DEF Knows, At, Idle
    <3>3. CASE req'[v].op = "deleteSnapshot" /\ req'[v].step # "commit"
      BY <3>3 DEF Knows, At
    <3>4. CASE /\ req'[v].op = req[v].op /\ req'[v].family = req[v].family
               /\ req'[v].row = req[v].row
               /\ req'[v].step = "commit" => At(v, "commit") \/ req'[v].row = None
      <4>1. At(v, "commit") => req[v].family # None
        BY DEF RequestsConsistent, Consistent
      <4>2. ASSUME At(v, "commit"), req[v].row # None, NEW u \in Workers \ {v},
                   req'[u].family = req[v].family
            PROVE  req'[u].op = "deleteSnapshot"
        BY <2>2, <3>1, <4>1, <4>2 DEF Knows, Idle
      <4>3. QED
        BY <1>b, <3>1, <3>4, <4>2 DEF Knows, At, Retired
    <3>5. QED
      BY <2>2, <3>2, <3>3, <3>4
  <2>4. QED
    BY <1>b, <2>3 DEF FamiliesKnown
<1>c. ASSUME NEW w \in Workers, UNCHANGED <<family, famSeq>>, Finish(w)
      PROVE  FamiliesKnown'
  BY <1>b, <1>c, RequestShapes DEF Finish, Idle
<1>d. ASSUME NEW w \in Workers, UNCHANGED <<family, famSeq>>,
             NEW st \in Steps \ {"commit"}, Goto(w, st)
      PROVE  FamiliesKnown'
  <2>1. [req[w] EXCEPT !.step = st] \in Request
    BY <1>a, RequestShapes
  <2>2. /\ [req[w] EXCEPT !.step = st].op = req[w].op
        /\ [req[w] EXCEPT !.step = st].family = req[w].family
        /\ [req[w] EXCEPT !.step = st].row = req[w].row
        /\ [req[w] EXCEPT !.step = st].step = st
    BY <1>a DEF Request
  <2>3. QED
    BY <1>b, <1>d, <2>1, <2>2 DEF Goto
<1>e. ASSUME NEW w \in Workers, UNCHANGED <<family, famSeq>>, NEW r \in Request,
             Set(w, r), r.step # "commit",
             r.family # None => family[r.family] # None,
             r.op = "deleteFamily" => r.row.active \/ Retired(r.family)
      PROVE  FamiliesKnown'
  <2>1. \A v \in Workers : req'[v] = IF v = w THEN r ELSE req[v]
    BY <1>e DEF Set
  <2>2. r.family # None => r.family <= famSeq
    BY <1>e DEF FamiliesKnown, Request
  <2>3. Knows(w)'
    BY <1>e, <2>1, <2>2 DEF Knows, At, Retired
  <2>4. ASSUME NEW v \in Workers, v # w PROVE Knows(v)'
    <3>1. Knows(v) /\ req'[v] = req[v]
      BY <2>1, <2>4 DEF FamiliesKnown
    <3>2. At(v, "commit") /\ req[v].row # None => r.family # req[v].family
      BY <1>e, <3>1 DEF Knows, RequestsConsistent, Consistent
    <3>3. QED
      BY <1>e, <2>1, <3>1, <3>2 DEF Knows, At, Retired
  <2>5. QED
    BY <1>e, <2>3, <2>4 DEF FamiliesKnown
<1>f. ASSUME UNCHANGED req \/ \E w \in Workers : Finish(w),
             famSeq' >= famSeq, famSeq' \in Nat,
             \A f \in FamilyIds :
               \/ family'[f] = family[f]
               \/ /\ Retired(f)'
                  /\ family[f] # None \/ (f > famSeq /\ f <= famSeq')
      PROVE  FamiliesKnown'
  <2>1. \A v \in Workers : req'[v] = req[v] \/ req'[v] = Idle
    BY <1>f DEF Finish, Set
  <2>2. \A f \in FamilyIds : Retired(f) => Retired(f)'
    BY <1>f DEF Retired
  <2>3. \A f \in FamilyIds : f > famSeq' => family'[f] = None
    BY <1>f DEF FamiliesKnown
  <2>4. ASSUME NEW v \in Workers PROVE Knows(v)'
    <3>1. CASE req'[v] = Idle
      BY <3>1 DEF Knows, At, Idle
    <3>2. CASE req'[v] = req[v]
      <4>1. Knows(v)
        BY DEF FamiliesKnown
      <4>2. At(v, "commit") =>
              req[v].op = "addSnapshot" /\ req[v].family \in FamilyIds
        BY <1>a DEF RequestsConsistent, Consistent
      <4>3. At(v, "commit") /\ req[v].row # None => family'[req[v].family] = None
        BY <1>f, <4>1, <4>2 DEF Knows
      <4>4. req[v].op = "deleteFamily" => req[v].family \in FamilyIds
        BY <1>a DEF RequestsConsistent, Consistent
      <4>5. \A u \in Workers : req'[u].family = req[v].family /\ At(v, "commit")
                                 => req'[u] = req[u]
        BY <2>1, <4>2 DEF Idle
      <4>6. req[v].op # "deleteSnapshot" /\ req[v].family # None
              => req[v].family <= famSeq'
        BY <1>a, <1>f, <4>1 DEF Knows
      <4>7. /\ At(v, "commit") /\ req[v].row # None =>
                 \A u \in Workers \ {v} : req'[u].family = req[v].family
                                          => req'[u].op = "deleteSnapshot"
        BY <4>1, <4>5 DEF Knows
      <4>8. QED
        BY <2>2, <3>2, <4>1, <4>3, <4>4, <4>6, <4>7 DEF Knows, At
    <3>3. QED
      BY <2>1, <3>1, <3>2
  <2>5. QED
    BY <2>3, <2>4 DEF FamiliesKnown
<1>1. ASSUME NEW w \in Workers, NEW c \in Codes, LookupFamily(w, c)
      PROVE  FamiliesKnown'
  <2>1. UNCHANGED <<family, famSeq>>
    BY <1>1 DEF LookupFamily
  <2>2. "addSnapshot" \in Ops /\ "persist" \in Steps /\ "persist" # "commit"
    BY DEF Ops, Steps
  <2> DEFINE row == [code |-> c, active |-> TRUE, person |-> TRUE]
  <2>3. CASE Set(w, [Idle EXCEPT !.op = "addSnapshot", !.step = "persist",
                                 !.row = row])
    <3>1. row \in FamilyRow
      BY DEF FamilyRow
    <3> DEFINE r == [Idle EXCEPT !.op = "addSnapshot", !.step = "persist", !.row = row]
    <3>2. r \in Request
      BY <2>2, <3>1, RequestShapes
    <3>3. r.op = "addSnapshot" /\ r.step = "persist" /\ r.family = None
      BY DEF Idle
    <3>4. QED
      BY <1>e, <2>1, <2>3, <3>2, <3>3
  <2>4. ASSUME NEW f \in FindByCode(c),
               Set(w, [Idle EXCEPT !.op = "addSnapshot", !.step = "persist",
                                   !.family = f])
        PROVE  FamiliesKnown'
    <3> DEFINE r == [Idle EXCEPT !.op = "addSnapshot", !.step = "persist", !.family = f]
    <3>1. f \in FamilyIds /\ family[f] # None
      BY DEF FindByCode
    <3>2. r \in Request
      BY <2>2, <3>1, RequestShapes
    <3>3. r.op = "addSnapshot" /\ r.step = "persist" /\ r.family = f
      BY DEF Idle
    <3>4. QED
      BY <1>e, <2>1, <2>4, <3>1, <3>2, <3>3
  <2>5. QED
    BY <1>1, <2>3, <2>4 DEF LookupFamily
<1>2. ASSUME NEW w \in Workers, NEW s \in SnapshotIds, FindSnapshot(w, s)
      PROVE  FamiliesKnown'
  <2> DEFINE r == [Idle EXCEPT !.op = "deleteSnapshot", !.step = "listPriorities",
                               !.family = economic[s], !.snapshot = s]
  <2>1. "deleteSnapshot" \in Ops /\ "listPriorities" \in Steps
    BY DEF Ops, Steps
  <2>2. r \in Request /\ Set(w, r) /\ UNCHANGED <<family, famSeq>>
    BY <1>2, <2>1, RequestShapes DEF FindSnapshot
  <2>3. r.op = "deleteSnapshot" /\ r.step = "listPriorities"
    BY DEF Idle
  <2>4. QED
    BY <1>b, <2>2, <2>3
<1>3. ASSUME NEW w \in Workers, NEW f \in FamilyIds, FindFamily(w, f)
      PROVE  FamiliesKnown'
  <2> DEFINE r == [Idle EXCEPT !.op = "deleteFamily", !.step = "pickNewest",
                               !.family = f, !.row = family[f]]
  <2>1. "deleteFamily" \in Ops /\ "pickNewest" \in Steps
    BY DEF Ops, Steps
  <2>2. Set(w, r) /\ family[f] # None /\ UNCHANGED <<family, famSeq>>
    BY <1>3 DEF FindFamily
  <2>3. r \in Request
    BY <2>1, <2>2, RequestShapes
  <2>4. r.op = "deleteFamily" /\ r.step = "pickNewest" /\ r.family = f /\ r.row = family[f]
    BY DEF Idle
  <2>5. r.row.active \/ Retired(f)
    BY <2>4 DEF Retired
  <2>6. QED
    BY <1>e, <2>2, <2>3, <2>4, <2>5
<1>4. ASSUME NEW w \in Workers, PersistNewFamily(w) PROVE FamiliesKnown'
  <2> DEFINE r == [req[w] EXCEPT !.step = "commit", !.family = famSeq + 1,
                                 !.snapshot = snapSeq + 1]
  <2>1. Set(w, r) /\ UNCHANGED family /\ famSeq' = famSeq + 1 /\ famSeq < MaxFamilies
    BY <1>4 DEF PersistNewFamily
  <2>2. \A v \in Workers : req'[v] = IF v = w THEN r ELSE req[v]
    BY <2>1 DEF Set
  <2>3. r.op = "addSnapshot" /\ r.family = famSeq + 1
    BY <1>4, <1>a DEF PersistNewFamily, RequestsConsistent, Consistent, Request
  <2>4. famSeq + 1 \in FamilyIds /\ family[famSeq + 1] = None
    BY <2>1 DEF FamiliesKnown
  <2>5. ASSUME NEW v \in Workers, req[v].family = famSeq + 1
        PROVE  req[v].op = "deleteSnapshot"
    BY <2>4, <2>5 DEF FamiliesKnown, Knows
  <2>6. req'[w] = r /\ \A v \in Workers \ {w} : req'[v] = req[v]
    BY <2>2
  <2> HIDE DEF r
  <2>7. Knows(w)'
    BY <2>1, <2>3, <2>4, <2>5, <2>6 DEF Knows
  <2>8. ASSUME NEW v \in Workers, v # w PROVE Knows(v)'
    <3>1. Knows(v) /\ req'[v] = req[v]
      BY <2>6, <2>8 DEF FamiliesKnown
    <3>2. At(v, "commit") => req[v].op = "addSnapshot" /\ req[v].family # None
      BY DEF RequestsConsistent, Consistent
    <3>3. At(v, "commit") => r.family # req[v].family
      BY <2>3, <2>5, <3>2
    <3>4. req[v].family # None => req[v].family \in Int
      BY <1>a
    <3>5. ASSUME At(v, "commit"), req[v].row # None, NEW u \in Workers \ {v},
                 req'[u].family = req[v].family
          PROVE  req'[u].op = "deleteSnapshot"
      BY <2>6, <3>1, <3>3, <3>5 DEF Knows
    <3>6. QED
      BY <2>1, <3>1, <3>4, <3>5 DEF Knows, At, Retired
  <2>9. QED
    BY <2>1, <2>7, <2>8 DEF FamiliesKnown
<1>5. ASSUME NEW w \in Workers, PersistInFamily(w) PROVE FamiliesKnown'
  <2> DEFINE r == [req[w] EXCEPT !.step = "commit", !.snapshot = snapSeq + 1]
  <2>1. /\ Set(w, r) /\ UNCHANGED <<family, famSeq>> /\ req[w].row = None
        /\ snapSeq + 1 \in SnapshotIds
    BY <1>5 DEF PersistInFamily, SnapshotIds
  <2>2. r \in Request
    BY <1>a, <2>1, RequestShapes DEF Steps
  <2>3. r.op = req[w].op /\ r.family = req[w].family /\ r.row = req[w].row
    BY <1>a DEF Request
  <2>4. QED
    BY <1>b, <2>1, <2>2, <2>3
<1>6. ASSUME NEW w \in Workers, CommitSnapshot(w) PROVE FamiliesKnown'
  <2>1. UNCHANGED famSeq /\ Finish(w)
    BY <1>6 DEF CommitSnapshot
  <2>2. CASE UNCHANGED family
    BY <1>c, <2>1, <2>2
  <2>3. CASE req[w].row # None /\ family' = [family EXCEPT ![req[w].family] = req[w].row]
    <3>1. /\ At(w, "commit") /\ req[w].op = "addSnapshot" /\ req[w].family \in FamilyIds
      BY <1>6, <1>a DEF CommitSnapshot, RequestsConsistent, Consistent
    <3>2. Knows(w)
      BY DEF FamiliesKnown
    <3>3. \A f \in FamilyIds : f > famSeq => family'[f] = None
      BY <2>3, <3>1, <3>2, SentinelAssumption DEF Knows, FamiliesKnown
    <3>4. \A v \in Workers : req'[v] = IF v = w THEN Idle ELSE req[v]
      BY <2>1 DEF Finish, Set
    <3>5. ASSUME NEW v \in Workers, v # w PROVE Knows(v)'
      <4>1. Knows(v) /\ req'[v] = req[v]
        BY <3>4, <3>5 DEF FamiliesKnown
      <4>2. req[v].op # "deleteSnapshot" => req[v].family # req[w].family
        BY <2>3, <3>1, <3>2, <3>5 DEF Knows
      <4>3. /\ At(v, "commit") => req[v].op = "addSnapshot" /\ req[v].family \in FamilyIds
            /\ req[v].op = "deleteFamily" => req[v].family \in FamilyIds
        BY <1>a DEF RequestsConsistent, Consistent
      <4>4. At(v, "commit") \/ req[v].op = "deleteFamily"
              => family'[req[v].family] = family[req[v].family]
        BY <2>3, <3>1, <4>2, <4>3
      <4>5. \A u \in Workers : req'[u].family = req[v].family /\ At(v, "commit")
                                 => req'[u] = req[u]
        BY <3>4, <4>3 DEF Idle
      <4>6. QED
        BY <2>1, <4>1, <4>3, <4>4, <4>5 DEF Knows, At, Retired
    <3>6. Knows(w)'
      BY <3>4 DEF Knows, At, Idle
    <3>7. QED
      BY <2>1, <3>3, <3>5, <3>6 DEF FamiliesKnown
  <2>4. QED
    BY <1>6, <2>2, <2>3 DEF CommitSnapshot
<1>7. ASSUME NEW w \in Workers, PickNewest(w) PROVE FamiliesKnown'
  <2>1. UNCHANGED <<family, famSeq>>
    BY <1>7 DEF PickNewest
  <2>2. CASE Goto(w, "deactivate")
    BY <1>d, <2>1, <2>2 DEF Steps
  <2>3. ASSUME NEW s \in SnapshotIds,
               Set(w, [req[w] EXCEPT !.step = "listPriorities", !.snapshot = s])
        PROVE  FamiliesKnown'
    <3> DEFINE r == [req[w] EXCEPT !.step = "listPriorities", !.snapshot = s]
    <3>1. r \in Request
      BY <1>a, RequestShapes DEF Steps
    <3>2. /\ r.op = req[w].op /\ r.family = req[w].family /\ r.row = req[w].row
          /\ r.step = "listPriorities"
      BY <1>a DEF Request
    <3>3. QED
      BY <1>b, <2>1, <2>3, <3>1, <3>2
  <2>4. QED
    BY <1>7, <2>2, <2>3 DEF PickNewest, SnapshotsOf
<1>8. ASSUME NEW w \in Workers, ListPriorities(w) PROVE FamiliesKnown'
  <2> DEFINE r == [req[w] EXCEPT !.step = "purgePriorities",
                                 !.prios = PrioritiesOf(req[w].snapshot)]
  <2>1. Set(w, r) /\ UNCHANGED <<family, famSeq>>
    BY <1>8 DEF ListPriorities
  <2>2. r \in Request
    BY <1>a, RequestShapes DEF Steps, PrioritiesOf
  <2>3. /\ r.op = req[w].op /\ r.family = req[w].family /\ r.row = req[w].row
        /\ r.step = "purgePriorities"
    BY <1>a DEF Request
  <2>4. QED
    BY <1>b, <2>1, <2>2, <2>3
<1>9. ASSUME NEW w \in Workers,
             PurgePriorities(w) \/ DeleteEconomic(w) \/ CountRemaining(w) \/ Abort(w)
      PROVE  FamiliesKnown'
  <2>1. UNCHANGED <<family, famSeq>>
    BY <1>9 DEF PurgePriorities, DeleteEconomic, CountRemaining, Abort
  <2>2. Finish(w) \/ \E st \in Steps \ {"commit"} : Goto(w, st)
    BY <1>9 DEF PurgePriorities, DeleteEconomic, CountRemaining, Abort, Steps
  <2>3. QED
    BY <1>c, <1>d, <2>1, <2>2
<1>10. ASSUME NEW w \in Workers, DeleteFamilyRow(w) PROVE FamiliesKnown'
  <2>1. \A f \in FamilyIds : family'[f] = family[f] \/ (family'[f] = None /\ f = req[w].family)
    BY <1>10 DEF DeleteFamilyRow
  <2>2. \A f \in FamilyIds : family'[f] = family[f] \/ (Retired(f)' /\ family[f] # None)
    BY <2>1 DEF Retired
  <2>3. QED
    BY <1>10, <1>f, <2>2 DEF DeleteFamilyRow
<1>11. ASSUME NEW w \in Workers, DeactivateFamily(w) PROVE FamiliesKnown'
  <2>1. req[w].row \in FamilyRow
    BY <1>11, <1>a DEF DeactivateFamily, RequestsConsistent, Consistent, At
  <2>2. [req[w].row EXCEPT !.active = FALSE].active = FALSE
    BY <2>1 DEF FamilyRow
  <2>3. \A f \in FamilyIds : family'[f] = family[f] \/ (Retired(f)' /\ family[f] # None)
    BY <1>11, <2>2 DEF DeactivateFamily, Retired
  <2>4. QED
    BY <1>11, <1>f, <2>3 DEF DeactivateFamily
<1>12. ASSUME NEW c \in Codes, NEW active \in BOOLEAN, InsertFamily(c, active)
       PROVE  FamiliesKnown'
  <2>1. \A f \in FamilyIds :
          \/ family'[f] = family[f]
          \/ Retired(f)' /\ f > famSeq /\ f <= famSeq'
    BY <1>12 DEF InsertFamily, Retired
  <2>2. QED
    BY <1>12, <1>f, <2>1 DEF InsertFamily
<1>13. ASSUME NEW c \in Codes, NEW active \in BOOLEAN, NEW g \in FamilyIds,
              OverwriteFamily(g, c, active)
       PROVE  FamiliesKnown'
  <2>1. \A f \in FamilyIds : family'[f] = family[f] \/ (Retired(f)' /\ family[f] # None)
    BY <1>13 DEF OverwriteFamily, Retired
  <2>2. QED
    BY <1>13, <1>f, <2>1 DEF OverwriteFamily
<1>14. CASE UNCHANGED <<family, famSeq, req>>
  BY <1>14, <1>f
<1>15. QED
  BY <1>1, <1>2, <1>3, <1>4, <1>5, <1>6, <1>7, <1>8, <1>9, <1>10, <1>11, <1>12,
     <1>13, <1>14 DEF Next, Proceed, SavePriority, DeletePriority, vars

(* No interleaving of the calls breaks a foreign key.                      *)
LEMMA IntegrityInductive ==
    TypeOK /\ RequestsConsistent /\ ReferentialIntegrity /\ [Next]_vars
        => ReferentialIntegrity'
<1> SUFFICES ASSUME TypeOK, RequestsConsistent, ReferentialIntegrity, [Next]_vars
             PROVE  ReferentialIntegrity'
  OBVIOUS
<1> USE BoundsAssumption, SentinelAssumption
    DEF TypeOK, ReferentialIntegrity, SnapshotsOf, PrioritiesOf, SnapshotIds,
        FamilyIds
<1>1. ASSUME NEW w \in Workers, CommitSnapshot(w) PROVE ReferentialIntegrity'
  BY <1>1 DEF CommitSnapshot, FamilyPresent, RequestsConsistent, Consistent, At, Request
<1>2. ASSUME NEW w \in Workers, PurgePriorities(w) PROVE ReferentialIntegrity'
  BY <1>2 DEF PurgePriorities
<1>3. ASSUME NEW w \in Workers, DeleteEconomic(w) PROVE ReferentialIntegrity'
  BY <1>3 DEF DeleteEconomic
<1>4. ASSUME NEW w \in Workers, DeleteFamilyRow(w) PROVE ReferentialIntegrity'
  BY <1>4 DEF DeleteFamilyRow
<1>5. ASSUME NEW w \in Workers, DeactivateFamily(w) PROVE ReferentialIntegrity'
  <2>1. [req[w].row EXCEPT !.active = FALSE] \in FamilyRow
    <3>1. req[w].row # None
      BY <1>5 DEF DeactivateFamily, RequestsConsistent, Consistent, At
    <3>2. req[w].row \in FamilyRow
      BY <3>1 DEF Request
    <3>3. QED
      BY <3>2 DEF FamilyRow
  <2>2. \A g \in FamilyIds : family[g] # None => family'[g] # None
    BY <1>5, <2>1 DEF DeactivateFamily
  <2>3. UNCHANGED <<economic, priority>>
    BY <1>5 DEF DeactivateFamily
  <2>4. QED
    BY <2>2, <2>3
<1>6. ASSUME NEW c \in Codes, NEW active \in BOOLEAN,
             \/ InsertFamily(c, active)
             \/ \E f \in FamilyIds : OverwriteFamily(f, c, active)
      PROVE  ReferentialIntegrity'
  <2>1. [code |-> c, active |-> active, person |-> FALSE] \in FamilyRow
    BY DEF FamilyRow
  <2>2. CASE InsertFamily(c, active)
    BY <2>1, <2>2 DEF InsertFamily
  <2>3. ASSUME NEW f \in FamilyIds, OverwriteFamily(f, c, active)
        PROVE  ReferentialIntegrity'
    BY <2>1, <2>3 DEF OverwriteFamily
  <2>4. QED
    BY <1>6, <2>2, <2>3
<1>7. ASSUME NEW p \in PriorityIds,
             \/ DeletePriority(p)
             \/ \E s \in SnapshotIds \cup {Null} : SavePriority(p, s)
      PROVE  ReferentialIntegrity'
  BY <1>7 DEF SavePriority, DeletePriority
<1>8. CASE UNCHANGED <<family, economic, priority>>
  BY <1>8
<1>9. QED
  BY <1>1, <1>2, <1>3, <1>4, <1>5, <1>6, <1>7, <1>8
     DEF Next, Proceed, LookupFamily, FindSnapshot, FindFamily, PersistNewFamily,
         PersistInFamily, PickNewest, ListPriorities, CountRemaining, Abort, vars

(* No family is left behind by the requests that delete its snapshots.     *)
LEMMA NoStrayInductive ==
    TypeOK /\ RequestsConsistent /\ FamiliesKnown /\ NoStrayFamily /\ [Next]_vars
        => NoStrayFamily'
<1> SUFFICES ASSUME TypeOK, RequestsConsistent, FamiliesKnown, NoStrayFamily, [Next]_vars,
                    NEW f \in FamilyIds, Stray(f)', f \notin lost'
             PROVE  \E w \in Workers : CleaningUp(w, f)'
  BY DEF NoStrayFamily
<1> USE SentinelAssumption, BoundsAssumption
    DEF TypeOK, Stray, CleaningUp, SnapshotsOf, At, SnapshotIds, FamilyIds
<1>a. ASSUME Stray(f), f \notin lost
      PROVE  \E w \in Workers : CleaningUp(w, f)
  BY <1>a DEF NoStrayFamily
<1>b. ASSUME NEW w \in Workers, ~CleaningUp(w, f), Stray(f), f \notin lost,
             NEW r, Set(w, r)
      PROVE  \E v \in Workers : CleaningUp(v, f)'
  <2>1. PICK v \in Workers : CleaningUp(v, f)
    BY <1>a, <1>b
  <2>2. req'[v] = req[v]
    BY <1>b, <2>1 DEF Set
  <2>3. QED
    BY <2>1, <2>2
<1>c. \A w \in Workers : Finish(w) <=> Set(w, Idle)
  BY DEF Finish
<1>1. ASSUME NEW w \in Workers,
             \/ \E c \in Codes : LookupFamily(w, c)
             \/ \E s \in SnapshotIds : FindSnapshot(w, s)
             \/ \E g \in FamilyIds : FindFamily(w, g)
             \/ PersistNewFamily(w) \/ PersistInFamily(w) \/ PickNewest(w)
             \/ ListPriorities(w) \/ PurgePriorities(w)
      PROVE  \E v \in Workers : CleaningUp(v, f)'
  <2>1. ~CleaningUp(w, f) /\ UNCHANGED <<family, economic, lost>>
    BY <1>1 DEF LookupFamily, FindSnapshot, FindFamily, PersistNewFamily,
                PersistInFamily, PickNewest, ListPriorities, PurgePriorities
  <2>2. \E r : Set(w, r)
    BY <1>1 DEF LookupFamily, FindSnapshot, FindFamily, PersistNewFamily,
                PersistInFamily, PickNewest, ListPriorities, PurgePriorities,
                Goto, Finish
  <2>3. QED
    BY <1>b, <2>1, <2>2
<1>2. ASSUME NEW w \in Workers, CommitSnapshot(w)
      PROVE  \E v \in Workers : CleaningUp(v, f)'
  <2>1. CASE FamilyPresent(w)
    <3>1. economic' = [economic EXCEPT ![req[w].snapshot] = req[w].family]
      BY <1>2, <2>1 DEF CommitSnapshot
    <3>2. /\ req[w].snapshot \in SnapshotIds /\ req[w].family \in FamilyIds
          /\ economic[req[w].snapshot] = None
      BY <1>2 DEF CommitSnapshot, RequestsConsistent, Consistent, Request
    <3>3. req[w].family # f
      BY <3>1, <3>2
    <3>4. SnapshotsOf(f) = {}
      BY <3>1, <3>2, <3>3
    <3>5. family'[f] = family[f] /\ f \notin lost
      BY <1>2, <2>1, <3>2, <3>3 DEF CommitSnapshot
    <3>6. QED
      BY <1>2, <1>b, <1>c, <3>4, <3>5 DEF CommitSnapshot
  <2>2. CASE ~FamilyPresent(w)
    BY <1>2, <2>2, <1>b, <1>c DEF CommitSnapshot
  <2>3. QED
    BY <2>1, <2>2
<1>3. ASSUME NEW w \in Workers, DeleteEconomic(w)
      PROVE  \E v \in Workers : CleaningUp(v, f)'
  <2> DEFINE s == req[w].snapshot
  <2>1. CASE economic[s] # None /\ PrioritiesOf(s) = {}
    <3>1. /\ economic[s] = req[w].family
          /\ req[w].op \in {"deleteSnapshot", "deleteFamily"}
      BY <1>3, <2>1 DEF DeleteEconomic, RequestsConsistent, Consistent
    <3>2. PICK st \in {"countRemaining", "deactivate"} : Goto(w, st)
      BY <1>3, <2>1, <3>1 DEF DeleteEconomic
    <3>3. req'[w].step = st /\ req'[w].family = req[w].family
      BY <3>2 DEF Goto, Set, Request
    <3>4. CASE req[w].family = f
      BY <3>2, <3>3, <3>4
    <3>5. CASE req[w].family # f
      <4>1. /\ economic' = [economic EXCEPT ![s] = None]
            /\ UNCHANGED <<family, lost>>
        BY <1>3, <2>1 DEF DeleteEconomic
      <4>2. SnapshotsOf(f) = {}
        BY <3>1, <3>5, <4>1
      <4>3. QED
        BY <1>b, <3>2, <3>5, <4>1, <4>2 DEF Goto
    <3>6. QED
      BY <3>4, <3>5
  <2>2. CASE ~(economic[s] # None /\ PrioritiesOf(s) = {})
    BY <1>3, <2>2, <1>b, <1>c DEF DeleteEconomic
  <2>3. QED
    BY <2>1, <2>2
<1>4. ASSUME NEW w \in Workers, CountRemaining(w)
      PROVE  \E v \in Workers : CleaningUp(v, f)'
  <2>1. CASE req[w].family = f
    <3>1. Goto(w, "deleteFamilyRow")
      BY <1>4, <2>1 DEF CountRemaining
    <3>2. CleaningUp(w, f)'
      BY <2>1, <3>1 DEF Goto, Set, Request
    <3>3. QED
      BY <3>2
  <2>2. CASE req[w].family # f
    BY <1>4, <2>2, <1>b, <1>c DEF CountRemaining, Goto
  <2>3. QED
    BY <2>1, <2>2
<1>5. ASSUME NEW w \in Workers, DeleteFamilyRow(w)
      PROVE  \E v \in Workers : CleaningUp(v, f)'
  <2>1. req[w].family # f
    BY <1>5 DEF DeleteFamilyRow
  <2>2. family'[f] = family[f] /\ UNCHANGED <<economic, lost>>
    BY <1>5, <2>1 DEF DeleteFamilyRow
  <2>3. QED
    BY <1>5, <1>b, <1>c, <2>1, <2>2 DEF DeleteFamilyRow
<1>6. ASSUME NEW w \in Workers, DeactivateFamily(w)
      PROVE  \E v \in Workers : CleaningUp(v, f)'
  <2>1. req[w].row \in FamilyRow
    BY <1>6 DEF DeactivateFamily, RequestsConsistent, Consistent, Request
  <2>2. req[w].family # f
    <3>1. CASE req[w].row.active
      BY <1>6, <2>1, <3>1 DEF DeactivateFamily, FamilyRow
    <3>2. CASE ~req[w].row.active
      <4>1. Retired(req[w].family)
        BY <1>6, <3>2 DEF DeactivateFamily, RequestsConsistent, Consistent,
                          FamiliesKnown, Knows
      <4>2. UNCHANGED family
        BY <1>6, <3>2 DEF DeactivateFamily
      <4>3. QED
        BY <4>1, <4>2 DEF Retired
    <3>3. QED
      BY <3>1, <3>2
  <2>3. family'[f] = family[f] /\ UNCHANGED <<economic, lost>>
    BY <1>6, <2>2 DEF DeactivateFamily
  <2>4. QED
    BY <1>6, <1>b, <1>c, <2>2, <2>3 DEF DeactivateFamily
<1>7. ASSUME NEW w \in Workers, Abort(w)
      PROVE  \E v \in Workers : CleaningUp(v, f)'
  BY <1>7, <1>b, <1>c DEF Abort
<1>8. ASSUME NEW c \in Codes, NEW active \in BOOLEAN,
             \/ InsertFamily(c, active)
             \/ \E g \in FamilyIds : OverwriteFamily(g, c, active)
      PROVE  \E v \in Workers : CleaningUp(v, f)'
  <2>1. family'[f] = family[f] /\ UNCHANGED <<economic, lost, req>>
    BY <1>8 DEF InsertFamily, OverwriteFamily
  <2>2. QED
    BY <1>a, <2>1
<1>9. CASE UNCHANGED <<family, economic, lost, req>>
  BY <1>a, <1>9
<1>10. QED
  BY <1>1, <1>2, <1>3, <1>4, <1>5, <1>6, <1>7, <1>8, <1>9
     DEF Next, Proceed, SavePriority, DeletePriority, vars

(* The inductive invariant: integrity and the absence of stray families     *)
(* both rest on what the requests remember.                                 *)
IInv == /\ TypeOK /\ RequestsConsistent /\ FamiliesKnown
        /\ ReferentialIntegrity /\ NoStrayFamily

(* The inductive invariant: types, what the requests remember, the foreign  *)
(* keys and the stray families need each other.                             *)
LEMMA Invariance == Spec => []IInv
<1>1. Init => IInv
  <2> USE BoundsAssumption, SentinelAssumption DEF Init
  <2>1. Init => TypeOK
    BY DEF TypeOK, Request, Idle, Ops, Steps
  <2>2. Init => RequestsConsistent
    BY DEF RequestsConsistent, Consistent, At, Idle
  <2>3. Init => ReferentialIntegrity /\ NoStrayFamily
    BY DEF ReferentialIntegrity, NoStrayFamily, Stray
  <2>4. Init => FamiliesKnown
    BY DEF FamiliesKnown, Knows, At, Idle
  <2>5. QED
    BY <2>1, <2>2, <2>3, <2>4 DEF IInv
<1>2. IInv /\ [Next]_vars => IInv'
  BY TypeInductive, ConsistentInductive, KnownInductive, IntegrityInductive, NoStrayInductive
     DEF IInv
<1>3. QED
  BY <1>1, <1>2, PTL DEF Spec

(* What requests remember from call to call stays true of the tables.      *)
THEOREM RequestsStayConsistent == Spec => []RequestsConsistent
<1>1. IInv => RequestsConsistent
  BY DEF IInv
<1>2. QED
  BY <1>1, Invariance, PTL

(* Every operation leaves the tables and the requests within their types.  *)
THEOREM TypeCorrect == Spec => []TypeOK
BY Invariance, PTL DEF IInv

(* No snapshot without its family, no priority without its snapshot.       *)
THEOREM IntegrityPreserved == Spec => []ReferentialIntegrity
BY Invariance, PTL DEF IInv

(* Two deletions never leave an empty family to each other.                *)
THEOREM NoFamilyLeftBehind == Spec => []NoStrayFamily
BY Invariance, PTL DEF IInv

(* A snapshot id always means the same snapshot.                           *)
THEOREM IdentityPreserved == Spec => SnapshotIdentity
<1>1. IInv /\ [Next]_vars =>
        [\A s \in SnapshotIds :
           \/ economic'[s] = economic[s]
           \/ economic'[s] = None
           \/ /\ economic[s] = None
              /\ \A w \in Workers : req[w].snapshot = s => req[w].step = "commit"]_vars
  <2> SUFFICES ASSUME IInv, Next, NEW s \in SnapshotIds,
                      economic'[s] # economic[s], economic'[s] # None
               PROVE  /\ economic[s] = None
                      /\ \A w \in Workers : req[w].snapshot = s => req[w].step = "commit"
    OBVIOUS
  <2> USE DEF IInv, TypeOK, RequestsConsistent, Consistent, At
  <2>1. PICK w \in Workers : CommitSnapshot(w) /\ FamilyPresent(w)
    BY DEF Next, Proceed, LookupFamily, FindSnapshot, FindFamily,
           PersistNewFamily, PersistInFamily, CommitSnapshot, PickNewest,
           ListPriorities, PurgePriorities, DeleteEconomic, CountRemaining,
           DeleteFamilyRow, DeactivateFamily, Abort, InsertFamily,
           OverwriteFamily, SavePriority, DeletePriority
  <2>2. req[w].snapshot = s /\ req[w].step = "commit"
    BY <2>1 DEF CommitSnapshot
  <2>3. QED
    BY <2>2
<1>2. QED
  BY Invariance, <1>1, PTL DEF Spec, SnapshotIdentity

(* A family is made active with a person only by the insert of its row.     *)
THEOREM RetirementLasts == Spec => RetiredForGood
<1>1. IInv /\ [Next]_vars =>
        [\A f \in FamilyIds :
           (~Unborn(f) /\ ~Surveyed(f)) => ~(Surveyed(f)')]_vars
  <2> SUFFICES ASSUME IInv, Next, NEW f \in FamilyIds,
                      ~Unborn(f), ~Surveyed(f), Surveyed(f)'
               PROVE  FALSE
    OBVIOUS
  <2> USE BoundsAssumption, SentinelAssumption DEF IInv, TypeOK, FamilyIds
  <2>1. family'[f] # None /\ family'[f] # family[f]
    BY DEF Surveyed
  <2>2. ASSUME NEW w \in Workers, CommitSnapshot(w) PROVE FALSE
    <3>1. req[w].row # None /\ req[w].family = f
      BY <2>1, <2>2 DEF CommitSnapshot
    <3>2. Expected(f)
      BY <2>2, <3>1 DEF CommitSnapshot, Expected
    <3>3. QED
      BY <3>2 DEF Unborn
  <2>3. ASSUME NEW w \in Workers, DeactivateFamily(w) PROVE FALSE
    <3>1. /\ req[w].row # None /\ req[w].row \in FamilyRow \cup {None}
      BY <2>3 DEF DeactivateFamily, RequestsConsistent, Consistent, At, Request
    <3>2. family'[f] = [req[w].row EXCEPT !.active = FALSE]
      BY <2>1, <2>3 DEF DeactivateFamily
    <3>3. ~family'[f].active
      BY <3>1, <3>2 DEF FamilyRow
    <3>4. QED
      BY <3>3 DEF Surveyed
  <2>4. ASSUME NEW w \in Workers, DeleteFamilyRow(w) PROVE FALSE
    BY <2>1, <2>4 DEF DeleteFamilyRow
  <2>5. ASSUME NEW c \in Codes, NEW active \in BOOLEAN,
               \/ InsertFamily(c, active)
               \/ \E g \in FamilyIds : OverwriteFamily(g, c, active)
        PROVE  FALSE
    <3>1. family'[f] = [code |-> c, active |-> active, person |-> FALSE]
      BY <2>1, <2>5 DEF InsertFamily, OverwriteFamily
    <3>2. QED
      BY <3>1 DEF Surveyed
  <2>6. QED
    BY <2>1, <2>2, <2>3, <2>4, <2>5
       DEF Next, Proceed, LookupFamily, FindSnapshot, FindFamily,
           PersistNewFamily, PersistInFamily, PickNewest, ListPriorities,
           PurgePriorities, DeleteEconomic, CountRemaining, Abort,
           SavePriority, DeletePriority
<1>2. QED
  BY Invariance, <1>1, PTL DEF Spec, RetiredForGood

-----------------------------------------------------------------------------
(* The contract with module Priorities.                                    *)

\* Ids of priorities come from the sequence.
PrioritiesDrawn == \A p \in PriorityIds : priority[p] # None => p <= prioSeq

LEMMA DrawnInductive == IInv /\ PrioritiesDrawn /\ [Next]_vars => PrioritiesDrawn'
<1> SUFFICES ASSUME IInv, PrioritiesDrawn, [Next]_vars PROVE PrioritiesDrawn'
  OBVIOUS
<1>1. prioSeq \in Nat
  BY BoundsAssumption DEF IInv, TypeOK
<1>2. ASSUME NEW w \in Workers, PurgePriorities(w) PROVE PrioritiesDrawn'
  BY <1>2 DEF PrioritiesDrawn, PurgePriorities
<1>3. ASSUME NEW p \in PriorityIds, NEW s \in SnapshotIds \cup {Null}, SavePriority(p, s)
      PROVE  PrioritiesDrawn'
  <2>1. \A q \in PriorityIds : q # p => priority'[q] = priority[q]
    BY <1>3 DEF IInv, TypeOK, SavePriority
  <2>2. p <= prioSeq' /\ prioSeq <= prioSeq' /\ prioSeq' \in Nat
    BY <1>1, <1>3 DEF PrioritiesDrawn, SavePriority, PriorityIds
  <2>3. QED
    BY <1>1, <2>1, <2>2 DEF PrioritiesDrawn, PriorityIds
<1>4. ASSUME NEW p \in PriorityIds, DeletePriority(p) PROVE PrioritiesDrawn'
  BY <1>4 DEF PrioritiesDrawn, DeletePriority, IInv, TypeOK
<1>5. CASE UNCHANGED <<priority, prioSeq>>
  BY <1>5 DEF PrioritiesDrawn
<1>6. QED
  BY <1>2, <1>3, <1>4, <1>5
     DEF Next, Proceed, LookupFamily, FindSnapshot, FindFamily, PersistNewFamily,
         PersistInFamily, CommitSnapshot, PickNewest, ListPriorities, DeleteEconomic,
         CountRemaining, DeleteFamilyRow, DeactivateFamily, Abort, InsertFamily,
         OverwriteFamily, vars

TableStep == Table!Next \/ UNCHANGED <<priority, Stored, 1 .. prioSeq, Settled>>

(* Only a commit, and what ends one, settles an id.                        *)
LEMMA SettledKept ==
    ASSUME TypeOK, NEW w \in Workers, NEW r, Set(w, r), ~At(w, "commit"),
           \/ r.step # "commit" /\ UNCHANGED snapSeq
           \/ /\ r.step = "commit" /\ r.snapshot = snapSeq + 1
              /\ snapSeq' = snapSeq + 1
              /\ \A v \in Workers : At(v, "commit") => req[v].snapshot # snapSeq + 1
    PROVE  Settled' = Settled
<1> DEFINE Held(t) == \E v \in Workers : At(v, "commit") /\ req[v].snapshot = t
           HeldNext(t) == \E v \in Workers : At(v, "commit")' /\ req'[v].snapshot = t
<1>1. req' = [req EXCEPT ![w] = r] /\ snapSeq \in Nat
  BY BoundsAssumption DEF TypeOK, Set
<1>2. \A v \in Workers : req'[v] = IF v = w THEN r ELSE req[v]
  BY <1>1 DEF TypeOK
<1>3. CASE r.step # "commit" /\ UNCHANGED snapSeq
  <2>1. \A t \in 1 .. snapSeq : Held(t) <=> HeldNext(t)
    BY <1>2, <1>3 DEF At
  <2>2. QED
    BY <1>3, <2>1 DEF Settled
<1>4. CASE r.step = "commit" /\ r.snapshot = snapSeq + 1 /\ snapSeq' = snapSeq + 1
  <2>1. \A t \in 1 .. snapSeq : Held(t) <=> HeldNext(t)
    BY <1>1, <1>2, <1>4 DEF At
  <2>2. HeldNext(snapSeq + 1)
    BY <1>2, <1>4 DEF At
  <2>3. (1 .. snapSeq') = (1 .. snapSeq) \cup {snapSeq + 1}
    BY <1>1, <1>4
  <2>4. QED
    BY <2>1, <2>2, <2>3 DEF Settled
<1>5. QED
  BY <1>3, <1>4

LEMMA SettledByOne ==
    ASSUME IInv, NEW w \in Workers, At(w, "commit"), Finish(w), UNCHANGED snapSeq
    PROVE  /\ req[w].snapshot \in SnapshotIds /\ req[w].snapshot \notin Settled
           /\ economic[req[w].snapshot] = None
           /\ Settled' = Settled \cup {req[w].snapshot}
<1> DEFINE s == req[w].snapshot
<1>1. /\ s \in SnapshotIds /\ s <= snapSeq /\ economic[s] = None
      /\ \A v \in Workers \ {w} : req[v].snapshot # s
  BY DEF IInv, TypeOK, Request, RequestsConsistent, Consistent, At
<1>2. s \in 1 .. snapSeq
  BY <1>1, BoundsAssumption DEF IInv, TypeOK, SnapshotIds
<1>3. \A v \in Workers : req'[v] = IF v = w THEN Idle ELSE req[v]
  BY DEF IInv, TypeOK, Finish, Set
<1>4. \A v \in Workers : At(v, "commit")' <=> v # w /\ At(v, "commit")
  BY <1>3 DEF At, Idle
<1>5. Settled' = Settled \cup {s}
  BY <1>1, <1>2, <1>3, <1>4 DEF Settled
<1>6. QED
  BY <1>1, <1>5 DEF Settled

(* The insert appears under an id of its own, or the id is spent on nothing.*)
LEMMA CommitKeepsTable ==
    ASSUME IInv, NEW w \in Workers, CommitSnapshot(w)
    PROVE  TableStep
<1> DEFINE s == req[w].snapshot
<1>1. /\ s \in SnapshotIds /\ s \notin Settled
      /\ Settled' = Settled \cup {s}
      /\ UNCHANGED <<priority, 1 .. prioSeq>>
  BY SettledByOne DEF CommitSnapshot
<1>2. CASE FamilyPresent(w)
  <2>1. /\ req[w].family # None
        /\ economic' = [economic EXCEPT ![s] = req[w].family]
    BY <1>2 DEF CommitSnapshot, IInv, RequestsConsistent, Consistent
  <2>2. Stored' = Stored \cup {s}
    BY <1>1, <2>1 DEF IInv, TypeOK, Stored
  <2>3. Table!Appear(s)
    BY <1>1, <2>2 DEF Table!Appear
  <2>4. QED
    BY <1>1, <2>3 DEF TableStep, Table!Next
<1>3. CASE ~FamilyPresent(w)
  <2>1. Table!Miss(s)
    BY <1>1, <1>3 DEF CommitSnapshot, Stored, Table!Miss
  <2>2. QED
    BY <1>1, <2>1 DEF TableStep, Table!Next
<1>4. QED
  BY <1>2, <1>3

(* A snapshot is removed when no priority refers to it at that instant.    *)
LEMMA RemovalKeepsTable ==
    ASSUME IInv, NEW w \in Workers, DeleteEconomic(w)
    PROVE  TableStep
<1> DEFINE s == req[w].snapshot
<1>1. s \in SnapshotIds
  BY DEF IInv, TypeOK, Request, RequestsConsistent, Consistent, DeleteEconomic, At
<1>2. Settled' = Settled /\ UNCHANGED <<priority, 1 .. prioSeq>>
  <2>1. ASSUME NEW r, Set(w, r), r.step # "commit" PROVE Settled' = Settled
    BY <2>1, SettledKept DEF IInv, DeleteEconomic, At
  <2>2. ASSUME NEW t, t # "commit", Goto(w, t) PROVE Settled' = Settled
    BY <2>1, <2>2 DEF Goto, IInv, TypeOK, Request
  <2>3. QED
    BY <2>1, <2>2 DEF DeleteEconomic, Finish, Idle
<1>3. CASE economic[s] # None /\ PrioritiesOf(s) = {}
  <2>1. Stored' = Stored \ {s}
    BY <1>1, <1>3 DEF IInv, TypeOK, DeleteEconomic, Stored
  <2>2. Table!Remove(s)
    BY <1>2, <1>3, <2>1 DEF Table!Remove, PrioritiesOf
  <2>3. QED
    BY <1>1, <2>2 DEF TableStep, Table!Next
<1>4. CASE ~(economic[s] # None /\ PrioritiesOf(s) = {})
  BY <1>2, <1>4 DEF DeleteEconomic, Stored, TableStep
<1>5. QED
  BY <1>3, <1>4

(* A call that changes the priorities only.                                *)
LEMMA PurgeKeepsTable ==
    ASSUME IInv, NEW w \in Workers, PurgePriorities(w)
    PROVE  TableStep
<1> DEFINE P == req[w].prios
<1>1. P \in SUBSET PriorityIds
  BY DEF IInv, TypeOK, Request
<1>2. Settled' = Settled /\ UNCHANGED <<Stored, 1 .. prioSeq>>
  <2>1. ASSUME NEW r, Set(w, r), r.step # "commit" PROVE Settled' = Settled
    BY <2>1, SettledKept DEF IInv, PurgePriorities, At
  <2>2. Goto(w, "deleteEconomic") => Settled' = Settled
    BY <2>1 DEF Goto, IInv, TypeOK, Request
  <2>3. QED
    BY <2>1, <2>2 DEF PurgePriorities, Finish, Idle, Stored
<1>3. UNCHANGED priority \/ Table!Put(P, None)
  BY DEF PurgePriorities, Table!Put
<1>4. QED
  BY <1>1, <1>2, <1>3 DEF TableStep, Table!Next, Table!Delete

(* What the environment does to the priorities is what the contract allows. *)
LEMMA SaveKeepsTable ==
    ASSUME IInv, PrioritiesDrawn, NEW p \in PriorityIds, NEW s \in SnapshotIds \cup {Null},
           SavePriority(p, s)
    PROVE  TableStep
<1> DEFINE P == {p}
           used == 1 .. prioSeq
<1>1. prioSeq \in Nat /\ p \in Nat
  BY BoundsAssumption DEF IInv, TypeOK, PriorityIds
<1>2. UNCHANGED <<Stored, Settled>>
  BY DEF SavePriority, Stored, Settled, At
<1>3. s = Null \/ s \in Stored
  BY DEF SavePriority, Stored
<1>4. Table!Put(P, s)
  BY DEF IInv, TypeOK, SavePriority, Table!Put
<1>5. CASE p = prioSeq + 1
  <2>1. (1 .. prioSeq') = used \cup P /\ p \notin used
    BY <1>1, <1>5 DEF SavePriority
  <2>2. Table!Save(P, s)
    BY <1>2, <1>3, <1>4, <2>1 DEF Table!Save
  <2>3. QED
    BY <2>2 DEF TableStep, Table!Next
<1>6. CASE p # prioSeq + 1
  <2>1. priority[p] # None /\ prioSeq' = prioSeq
    BY <1>6 DEF SavePriority
  <2>2. p \in used
    BY <1>1, <2>1 DEF PrioritiesDrawn, PriorityIds
  <2>3. Table!Save(P, s)
    BY <1>2, <1>3, <1>4, <2>1, <2>2 DEF Table!Save
  <2>4. QED
    BY <2>3 DEF TableStep, Table!Next
<1>7. QED
  BY <1>5, <1>6

(* Every call keeps the contract.                                          *)
LEMMA StepKeepsTable == IInv /\ PrioritiesDrawn /\ [Next]_vars => TableStep
<1> SUFFICES ASSUME IInv, PrioritiesDrawn, [Next]_vars PROVE TableStep
  OBVIOUS
<1>1. \A w \in Workers : req[w] \in Request
  BY DEF IInv, TypeOK
<1>2. ASSUME NEW w \in Workers, NEW r, Set(w, r), ~At(w, "commit"), r.step # "commit",
             UNCHANGED <<economic, snapSeq, priority, prioSeq>>
      PROVE  TableStep
  <2>1. Settled' = Settled
    BY <1>2, SettledKept DEF IInv
  <2>2. QED
    BY <1>2, <2>1 DEF TableStep, Stored
<1>3. ASSUME NEW w \in Workers, Finish(w), ~At(w, "commit"),
             UNCHANGED <<economic, snapSeq, priority, prioSeq>>
      PROVE  TableStep
  BY <1>2, <1>3 DEF Finish, Idle
<1>4. ASSUME NEW w \in Workers, NEW t, Goto(w, t), ~At(w, "commit"), t # "commit",
             UNCHANGED <<economic, snapSeq, priority, prioSeq>>
      PROVE  TableStep
  BY <1>1, <1>2, <1>4 DEF Goto, Request
<1>5. ASSUME NEW w \in Workers,
             \/ \E c \in Codes : LookupFamily(w, c)
             \/ \E s \in SnapshotIds : FindSnapshot(w, s)
             \/ \E f \in FamilyIds : FindFamily(w, f)
      PROVE  TableStep
  <2>1. ASSUME NEW c \in Codes, LookupFamily(w, c) PROVE TableStep
    BY <1>2, <2>1 DEF LookupFamily, At, Idle
  <2>2. ASSUME NEW s \in SnapshotIds, FindSnapshot(w, s) PROVE TableStep
    BY <1>2, <2>2 DEF FindSnapshot, At, Idle
  <2>3. ASSUME NEW f \in FamilyIds, FindFamily(w, f) PROVE TableStep
    BY <1>2, <2>3 DEF FindFamily, At, Idle
  <2>4. QED
    BY <1>5, <2>1, <2>2, <2>3
<1>6. ASSUME NEW w \in Workers, PersistNewFamily(w) \/ PersistInFamily(w)
      PROVE  TableStep
  <2>1. PICK r : /\ Set(w, r) /\ r.step = "commit" /\ r.snapshot = snapSeq + 1
    <3>1. /\ [req[w] EXCEPT !.step = "commit", !.snapshot = snapSeq + 1].step = "commit"
          /\ [req[w] EXCEPT !.step = "commit", !.snapshot = snapSeq + 1].snapshot = snapSeq + 1
          /\ [req[w] EXCEPT !.step = "commit", !.family = famSeq + 1,
                            !.snapshot = snapSeq + 1].step = "commit"
          /\ [req[w] EXCEPT !.step = "commit", !.family = famSeq + 1,
                            !.snapshot = snapSeq + 1].snapshot = snapSeq + 1
      BY <1>1 DEF Request
    <3>2. QED
      BY <1>6, <3>1 DEF PersistNewFamily, PersistInFamily
  <2>2. \A v \in Workers : At(v, "commit") => req[v].snapshot # snapSeq + 1
    <3>1. \A v \in Workers : At(v, "commit") =>
            req[v].snapshot \in SnapshotIds /\ req[v].snapshot <= snapSeq
      BY <1>1 DEF Request, IInv, RequestsConsistent, Consistent
    <3>2. snapSeq \in Nat
      BY BoundsAssumption DEF IInv, TypeOK
    <3>3. QED
      BY <3>1, <3>2 DEF SnapshotIds
  <2>3. /\ ~At(w, "commit") /\ snapSeq' = snapSeq + 1
        /\ UNCHANGED <<economic, priority, prioSeq>>
    BY <1>6 DEF PersistNewFamily, PersistInFamily, At
  <2>4. Settled' = Settled
    BY <2>1, <2>2, <2>3, SettledKept DEF IInv
  <2>5. QED
    BY <2>3, <2>4 DEF TableStep, Stored
<1>7. ASSUME NEW w \in Workers, PickNewest(w) \/ ListPriorities(w) PROVE TableStep
  <2>1. ~At(w, "commit") /\ UNCHANGED <<economic, snapSeq, priority, prioSeq>>
    BY <1>7 DEF PickNewest, ListPriorities, At
  <2>2. ASSUME NEW s, Set(w, [req[w] EXCEPT !.step = "listPriorities", !.snapshot = s])
        PROVE  TableStep
    <3>1. [req[w] EXCEPT !.step = "listPriorities", !.snapshot = s].step # "commit"
      BY <1>1 DEF Request
    <3>2. QED
      BY <1>2, <2>1, <2>2, <3>1
  <2>3. ASSUME NEW P, Set(w, [req[w] EXCEPT !.step = "purgePriorities", !.prios = P])
        PROVE  TableStep
    <3>1. [req[w] EXCEPT !.step = "purgePriorities", !.prios = P].step # "commit"
      BY <1>1 DEF Request
    <3>2. QED
      BY <1>2, <2>1, <2>3, <3>1
  <2>4. QED
    BY <1>4, <1>7, <2>1, <2>2, <2>3 DEF PickNewest, ListPriorities
<1>8. ASSUME NEW w \in Workers, CountRemaining(w) \/ DeleteFamilyRow(w) \/ DeactivateFamily(w)
      PROVE  TableStep
  BY <1>3, <1>4, <1>8 DEF CountRemaining, DeleteFamilyRow, DeactivateFamily, At
<1>9. ASSUME NEW w \in Workers, Abort(w) PROVE TableStep
  <2>1. CASE At(w, "commit")
    <3>1. /\ req[w].snapshot \in SnapshotIds
          /\ Settled' = Settled \cup {req[w].snapshot}
      BY <1>9, <2>1, SettledByOne DEF Abort
    <3>2. Table!Miss(req[w].snapshot)
      BY <1>9, <3>1 DEF Table!Miss, Abort, Stored
    <3>3. QED
      BY <3>1, <3>2 DEF TableStep, Table!Next
  <2>2. CASE ~At(w, "commit")
    BY <1>3, <1>9, <2>2 DEF Abort
  <2>3. QED
    BY <2>1, <2>2
<1>10. ASSUME NEW p \in PriorityIds, DeletePriority(p) PROVE TableStep
  <2>1. Table!Put({p}, None)
    BY <1>10 DEF IInv, TypeOK, DeletePriority, Table!Put
  <2>2. Table!Delete({p})
    BY <1>10, <2>1 DEF DeletePriority, Table!Delete, Stored, Settled, At
  <2>3. QED
    BY <2>2 DEF TableStep, Table!Next
<1>11. CASE UNCHANGED <<economic, snapSeq, priority, prioSeq, req>>
  BY <1>11 DEF TableStep, Stored, Settled, At
<1>12. QED
  BY <1>5, <1>6, <1>7, <1>8, <1>9, <1>10, <1>11,
     CommitKeepsTable, RemovalKeepsTable, PurgeKeepsTable, SaveKeepsTable
     DEF Next, Proceed, InsertFamily, OverwriteFamily, vars

(* Snapshots keeps the contract with Priorities: an indicator appears once  *)
(* and goes only when nothing refers to it, although its priorities are     *)
(* listed and purged by earlier calls.                                      *)
THEOREM SnapshotsKeepPriorityTable == Spec => KeepsPriorityTable
<1>1. Init => Table!Init /\ PrioritiesDrawn
  <2> SUFFICES ASSUME Init PROVE Table!Init /\ PrioritiesDrawn
    OBVIOUS
  <2>1. (1 .. snapSeq) = {} /\ (1 .. prioSeq) = {} /\ Stored = {}
    BY DEF Init, Stored
  <2>2. Settled = {}
    BY <2>1 DEF Settled
  <2>3. QED
    BY <2>1, <2>2 DEF Init, Table!Init, PrioritiesDrawn
<1>2. IInv /\ PrioritiesDrawn /\ [Next]_vars
        => PrioritiesDrawn' /\ [Table!Next]_<<priority, Stored, 1 .. prioSeq, Settled>>
  BY DrawnInductive, StepKeepsTable DEF TableStep
<1>3. QED
  BY <1>1, <1>2, Invariance, PTL DEF Spec, KeepsPriorityTable, Table!Spec, Table!vars

-----------------------------------------------------------------------------
(* How many families can share a code.                                     *)

\* Requests that will write back a family with code c.
WritingBack(c) == {w \in Workers : /\ req[w].op = "deleteFamily"
                                   /\ req[w].row.person /\ req[w].row.code = c}

Bounded(c) == Cardinality(Sharing(c)) + Cardinality(Inserting(c))
                <= Cardinality(Workers)

(* The families of a code and the requests that insert one are finitely     *)
(* many.                                                                    *)
LEMMA FiniteParts ==
    \A c \in Codes :
        /\ IsFiniteSet(Sharing(c)) /\ IsFiniteSet(Inserting(c))
        /\ Cardinality(Sharing(c)) \in Nat /\ Cardinality(Inserting(c)) \in Nat
        /\ Cardinality(Workers) \in Nat
<1> TAKE c \in Codes
<1>1. IsFiniteSet(FamilyIds)
  BY BoundsAssumption, FS_Interval DEF FamilyIds
<1>2. Sharing(c) \in SUBSET FamilyIds /\ Inserting(c) \in SUBSET Workers
  BY DEF Sharing, Inserting
<1>3. IsFiniteSet(Sharing(c)) /\ IsFiniteSet(Inserting(c))
  BY <1>1, <1>2, WorkersAssumption, FS_Subset
<1>4. QED
  BY <1>3, WorkersAssumption, FS_CardinalityType

(* A step that adds to neither set keeps the bound.                        *)
LEMMA ShrinkingKeepsBound ==
    ASSUME NEW c \in Codes, Bounded(c), Sharing(c)' \subseteq Sharing(c),
           Inserting(c)' \subseteq Inserting(c)
    PROVE  Bounded(c)'
<1> DEFINE S == Sharing(c)'  I == Inserting(c)'
<1>1. /\ IsFiniteSet(Sharing(c)) /\ IsFiniteSet(Inserting(c))
      /\ Cardinality(Sharing(c)) \in Nat /\ Cardinality(Inserting(c)) \in Nat
      /\ Cardinality(Workers) \in Nat
  BY FiniteParts
<1>2. IsFiniteSet(S) /\ Cardinality(S) <= Cardinality(Sharing(c))
  BY <1>1, FS_Subset
<1>3. IsFiniteSet(I) /\ Cardinality(I) <= Cardinality(Inserting(c))
  BY <1>1, FS_Subset
<1>4. Cardinality(S) \in Nat /\ Cardinality(I) \in Nat
  BY <1>2, <1>3, FS_CardinalityType
<1>5. Cardinality(S) + Cardinality(I) <= Cardinality(Workers)
  <2> HIDE DEF S, I
  <2> QED
    BY <1>1, <1>2, <1>3, <1>4 DEF Bounded
<1>6. QED
  BY <1>5 DEF Bounded

(* A look-up that finds nothing leaves only the families some request will  *)
(* write back, at most one for each worker that does not insert.            *)
LEMMA LookupKeepsBound ==
    ASSUME TypeOK, RequestsConsistent, NEW c \in Codes, NEW w \in Workers,
           FindByCode(c) = {}, At(w, "idle"), UNCHANGED family,
           Set(w, [Idle EXCEPT !.op = "addSnapshot", !.step = "persist",
                    !.row = [code |-> c, active |-> TRUE, person |-> TRUE]])
    PROVE  Bounded(c)'
<1> DEFINE S == Sharing(c)'  I == Inserting(c)'  B == WritingBack(c)'
           g == [f \in S |-> CHOOSE v \in B : req'[v].family = f]
<1>1. S = {f \in FamilyIds : \E v \in B : req'[v].family = f}
  BY DEF Sharing, WritingBack, FindByCode
<1>2. g \in Injection(S, B)
  <2>1. \A f \in S : g[f] \in B /\ req'[g[f]].family = f
    BY <1>1
  <2>2. g \in [S -> B]
    BY <2>1
  <2>3. \A e, f \in S : g[e] = g[f] => e = f
    <3> HIDE DEF g
    <3> QED
      BY <2>1
  <2>4. QED
    <3> HIDE DEF g
    <3> QED
      BY <2>2, <2>3 DEF Injection, IsInjective
<1>3. I \in SUBSET Workers /\ B \in SUBSET Workers /\ I \cap B = {}
  BY DEF Inserting, WritingBack
<1>4. IsFiniteSet(I) /\ IsFiniteSet(B)
  BY <1>3, WorkersAssumption, FS_Subset
<1> HIDE DEF S, I, B, g
<1>5. Cardinality(S) <= Cardinality(B) /\ IsFiniteSet(S)
  BY <1>2, <1>4, FS_Injection
<1>6. Cardinality(I \cup B) = Cardinality(I) + Cardinality(B) - Cardinality(I \cap B)
  BY <1>4, FS_Union
<1>7. Cardinality(I \cup B) <= Cardinality(Workers)
  BY <1>3, WorkersAssumption, FS_Subset
<1>8. Cardinality(I \cap B) = 0
  BY <1>3, FS_EmptySet
<1>9. /\ Cardinality(S) \in Nat /\ Cardinality(I) \in Nat
      /\ Cardinality(B) \in Nat /\ Cardinality(Workers) \in Nat
  BY <1>4, <1>5, WorkersAssumption, FS_CardinalityType
<1>10. Cardinality(S) + Cardinality(I) <= Cardinality(Workers)
  BY <1>5, <1>6, <1>7, <1>8, <1>9
<1>11. QED
  BY <1>10 DEF Bounded, S, I

(* The snapshot committed with a new family turns one insertion under way   *)
(* into one more family.                                                   *)
LEMMA CommitKeepsBound ==
    ASSUME TypeOK, RequestsConsistent, NEW c \in Codes, Bounded(c),
           NEW w \in Workers, CommitSnapshot(w)
    PROVE  Bounded(c)'
<1>1. Inserting(c)' = Inserting(c) \ {w}
  BY DEF CommitSnapshot, Inserting, TypeOK, Finish, Set, Idle
<1>a. req[w].op = "addSnapshot" /\ req[w].family \in FamilyIds
  BY DEF CommitSnapshot, TypeOK, RequestsConsistent, Consistent, At, Request
<1>2. CASE req[w].row # None /\ req[w].row.code = c
  <2> DEFINE f == req[w].family  S == Sharing(c)'  T == Sharing(c) \cup {f}
             I == Inserting(c)'
  <2>1. S \subseteq T
    BY <1>2, <1>a DEF CommitSnapshot, Sharing, TypeOK, Finish, Set, Idle
  <2>2. w \in Inserting(c)
    BY <1>2, <1>a DEF Inserting
  <2>3. /\ IsFiniteSet(Sharing(c)) /\ IsFiniteSet(Inserting(c))
        /\ Cardinality(Sharing(c)) \in Nat /\ Cardinality(Inserting(c)) \in Nat
        /\ Cardinality(Workers) \in Nat
    BY FiniteParts
  <2>4. IsFiniteSet(T) /\ Cardinality(T) <= Cardinality(Sharing(c)) + 1
    <3>1. ASSUME NEW x
          PROVE  /\ IsFiniteSet(Sharing(c) \cup {x})
                 /\ Cardinality(Sharing(c) \cup {x}) =
                      IF x \in Sharing(c) THEN Cardinality(Sharing(c))
                                          ELSE Cardinality(Sharing(c)) + 1
      BY <2>3, FS_AddElement
    <3>2. QED
      BY <2>3, <3>1
  <2>5. Cardinality(I) = Cardinality(Inserting(c)) - 1
    BY <1>1, <2>2, <2>3, FS_RemoveElement
  <2>6. IsFiniteSet(S) /\ Cardinality(S) <= Cardinality(T)
    BY <2>1, <2>4, FS_Subset
  <2>7. Cardinality(S) \in Nat /\ Cardinality(T) \in Nat
    BY <2>4, <2>6, FS_CardinalityType
  <2>8. Cardinality(S) + Cardinality(I) <= Cardinality(Workers)
    <3> HIDE DEF S, I, T
    <3> QED
      BY <2>3, <2>4, <2>5, <2>6, <2>7 DEF Bounded
  <2>9. QED
    BY <2>8 DEF Bounded
<1>3. CASE ~(req[w].row # None /\ req[w].row.code = c)
  <2>1. Sharing(c)' \subseteq Sharing(c)
    BY <1>3, <1>a DEF CommitSnapshot, Sharing, TypeOK, Finish, Set, Idle
  <2>2. QED
    BY <1>1, <2>1, ShrinkingKeepsBound
<1>4. QED
  BY <1>2, <1>3

(* A request that changes without inserting another family with the code    *)
(* and without loading one that is not counted yet keeps the bound.         *)
LEMMA RequestKeepsBound ==
    ASSUME TypeOK, NEW c \in Codes, Bounded(c), UNCHANGED family,
           NEW w \in Workers, NEW r, Set(w, r),
           r.op = "deleteFamily" /\ r.row.person /\ r.row.code = c
             => r.family \in Sharing(c),
           r.op = "addSnapshot" /\ r.row # None /\ r.row.code = c
             => w \in Inserting(c)
    PROVE  Bounded(c)'
<1>1. \A v \in Workers : req'[v] = IF v = w THEN r ELSE req[v]
  BY DEF Set, TypeOK
<1>2. Sharing(c)' \subseteq Sharing(c)
  BY <1>1 DEF Sharing
<1>3. Inserting(c)' \subseteq Inserting(c)
  BY <1>1 DEF Inserting
<1>4. QED
  BY <1>2, <1>3, ShrinkingKeepsBound

(* The usual case: the request goes on with the same family and row, or it  *)
(* ends.                                                                    *)
LEMMA ProgressKeepsBound ==
    ASSUME TypeOK, NEW c \in Codes, Bounded(c), UNCHANGED family,
           NEW w \in Workers, NEW r, Set(w, r),
           \/ r = Idle
           \/ r.op = req[w].op /\ r.row = req[w].row /\ r.family = req[w].family
    PROVE  Bounded(c)'
<1>1. req[w].family \in FamilyIds \cup {None}
  BY DEF TypeOK, Request
<1>2. CASE r = Idle
  BY <1>2, RequestKeepsBound DEF Idle
<1>3. CASE r.op = req[w].op /\ r.row = req[w].row /\ r.family = req[w].family
  <2>1. Inserting(c)' \subseteq Inserting(c)
    BY <1>3 DEF Inserting, Set, TypeOK
  <2>2. Sharing(c)' \subseteq Sharing(c)
    BY <1>3 DEF Sharing, Set, TypeOK
  <2>3. QED
    BY <2>1, <2>2, ShrinkingKeepsBound
<1>4. QED
  BY <1>2, <1>3

(* Only the look-up and the commit of addSurveySnapshot add to a code.     *)
LEMMA BoundInductive ==
    ASSUME TypeOK, RequestsConsistent, DuplicatesBounded, [Next]_vars
    PROVE  DuplicatesBounded'
<1> SUFFICES ASSUME NEW c \in Codes PROVE Bounded(c)'
  BY DEF DuplicatesBounded, Bounded
<1>0. Bounded(c)
  BY DEF DuplicatesBounded, Bounded
<1>a. \A w \in Workers : req[w] \in Request
  BY DEF TypeOK
<1>b. ASSUME NEW w \in Workers, UNCHANGED family,
             Finish(w) \/ \E st : Goto(w, st)
      PROVE  Bounded(c)'
  <2>1. CASE Finish(w)
    BY <1>0, <1>b, <2>1, ProgressKeepsBound DEF Finish
  <2>2. ASSUME NEW st, Goto(w, st) PROVE Bounded(c)'
    <3> DEFINE r == [req[w] EXCEPT !.step = st]
    <3>1. r.op = req[w].op /\ r.row = req[w].row /\ r.family = req[w].family
      BY <1>a DEF Request
    <3>2. Set(w, r)
      BY <2>2 DEF Goto
    <3>3. QED
      BY <1>0, <1>b, <3>1, <3>2, ProgressKeepsBound
  <2>3. QED
    BY <1>b, <2>1, <2>2
<1>1. ASSUME NEW w \in Workers, NEW d \in Codes, LookupFamily(w, d)
      PROVE  Bounded(c)'
  <2> DEFINE r == [Idle EXCEPT !.op = "addSnapshot", !.step = "persist",
                    !.row = [code |-> d, active |-> TRUE, person |-> TRUE]]
  <2>1. At(w, "idle") /\ UNCHANGED family
    BY <1>1 DEF LookupFamily
  <2>2. CASE FindByCode(d) = {} /\ d = c
    <3>1. Set(w, r)
      BY <1>1, <2>2 DEF LookupFamily
    <3>2. QED
      BY <2>1, <2>2, <3>1, LookupKeepsBound
  <2>3. CASE FindByCode(d) = {} /\ d # c
    <3>1. Set(w, r)
      BY <1>1, <2>3 DEF LookupFamily
    <3>2. r.op = "addSnapshot" /\ r.row.code = d
      BY DEF Idle
    <3>3. QED
      BY <1>0, <2>1, <2>3, <3>1, <3>2, RequestKeepsBound
  <2>4. CASE FindByCode(d) # {}
    <3>1. PICK f : Set(w, [Idle EXCEPT !.op = "addSnapshot",
                             !.step = "persist", !.family = f])
      BY <1>1, <2>4 DEF LookupFamily
    <3>2. /\ [Idle EXCEPT !.op = "addSnapshot", !.step = "persist",
                          !.family = f].op = "addSnapshot"
          /\ [Idle EXCEPT !.op = "addSnapshot", !.step = "persist",
                          !.family = f].row = None
      BY DEF Idle
    <3>3. QED
      BY <1>0, <2>1, <3>1, <3>2, RequestKeepsBound
  <2>5. QED
    BY <2>2, <2>3, <2>4
<1>2. ASSUME NEW w \in Workers, CommitSnapshot(w) PROVE Bounded(c)'
  BY <1>0, <1>2, CommitKeepsBound
<1>3. ASSUME NEW w \in Workers, NEW s \in SnapshotIds, FindSnapshot(w, s)
      PROVE  Bounded(c)'
  <2> DEFINE r == [Idle EXCEPT !.op = "deleteSnapshot", !.step = "listPriorities",
                               !.family = economic[s], !.snapshot = s]
  <2>1. Set(w, r) /\ UNCHANGED family
    BY <1>3 DEF FindSnapshot
  <2>2. r.op = "deleteSnapshot"
    BY DEF Idle
  <2>3. QED
    BY <1>0, <2>1, <2>2, RequestKeepsBound
<1>4. ASSUME NEW w \in Workers, NEW f \in FamilyIds, FindFamily(w, f)
      PROVE  Bounded(c)'
  <2> DEFINE r == [Idle EXCEPT !.op = "deleteFamily", !.step = "pickNewest",
                               !.family = f, !.row = family[f]]
  <2>1. Set(w, r) /\ UNCHANGED family /\ family[f] # None
    BY <1>4 DEF FindFamily
  <2>2. r.op = "deleteFamily" /\ r.row = family[f] /\ r.family = f
    BY DEF Idle
  <2>3. r.row.person /\ r.row.code = c => r.family \in Sharing(c)
    BY <2>1, <2>2 DEF Sharing
  <2>4. QED
    BY <1>0, <2>1, <2>2, <2>3, RequestKeepsBound
<1>5. ASSUME NEW w \in Workers, PersistNewFamily(w) PROVE Bounded(c)'
  <2> DEFINE r == [req[w] EXCEPT !.step = "commit", !.family = famSeq + 1,
                                 !.snapshot = snapSeq + 1]
  <2>1. Set(w, r) /\ UNCHANGED family
    BY <1>5 DEF PersistNewFamily
  <2>2. req[w].op = "addSnapshot"
    BY <1>5 DEF PersistNewFamily, RequestsConsistent, Consistent
  <2>3. r.op = req[w].op /\ r.row = req[w].row
    BY <1>a DEF Request
  <2>4. r.row # None /\ r.row.code = c => w \in Inserting(c)
    BY <2>2, <2>3 DEF Inserting
  <2>5. QED
    BY <1>0, <2>1, <2>2, <2>3, <2>4, RequestKeepsBound
<1>6. ASSUME NEW w \in Workers, PersistInFamily(w) PROVE Bounded(c)'
  <2> DEFINE r == [req[w] EXCEPT !.step = "commit", !.snapshot = snapSeq + 1]
  <2>1. Set(w, r) /\ UNCHANGED family
    BY <1>6 DEF PersistInFamily
  <2>2. r.op = req[w].op /\ r.row = req[w].row /\ r.family = req[w].family
    BY <1>a DEF Request
  <2>3. QED
    BY <1>0, <2>1, <2>2, ProgressKeepsBound
<1>7. ASSUME NEW w \in Workers, PickNewest(w) PROVE Bounded(c)'
  <2>1. UNCHANGED family
    BY <1>7 DEF PickNewest
  <2>2. ASSUME NEW s, Set(w, [req[w] EXCEPT !.step = "listPriorities", !.snapshot = s])
        PROVE  Bounded(c)'
    <3> DEFINE r == [req[w] EXCEPT !.step = "listPriorities", !.snapshot = s]
    <3>1. r.op = req[w].op /\ r.row = req[w].row /\ r.family = req[w].family
      BY <1>a DEF Request
    <3>2. QED
      BY <1>0, <2>1, <2>2, <3>1, ProgressKeepsBound
  <2>3. QED
    BY <1>7, <1>b, <2>1, <2>2 DEF PickNewest
<1>8. ASSUME NEW w \in Workers, ListPriorities(w) PROVE Bounded(c)'
  <2> DEFINE r == [req[w] EXCEPT !.step = "purgePriorities",
                                 !.prios = PrioritiesOf(req[w].snapshot)]
  <2>1. Set(w, r) /\ UNCHANGED family
    BY <1>8 DEF ListPriorities
  <2>2. r.op = req[w].op /\ r.row = req[w].row /\ r.family = req[w].family
    BY <1>a DEF Request
  <2>3. QED
    BY <1>0, <2>1, <2>2, ProgressKeepsBound
<1>9. ASSUME NEW w \in Workers,
             PurgePriorities(w) \/ DeleteEconomic(w) \/ CountRemaining(w) \/ Abort(w)
      PROVE  Bounded(c)'
  <2>1. UNCHANGED family /\ (Finish(w) \/ \E st : Goto(w, st))
    BY <1>9 DEF PurgePriorities, DeleteEconomic, CountRemaining, Abort
  <2>2. QED
    BY <1>b, <2>1
<1>10. ASSUME NEW w \in Workers, DeleteFamilyRow(w) \/ DeactivateFamily(w)
       PROVE  Bounded(c)'
  <2>1. Finish(w)
    BY <1>10 DEF DeleteFamilyRow, DeactivateFamily
  <2>2. CASE UNCHANGED family
    BY <1>b, <2>1, <2>2
  <2>3. CASE family' # family
    <3>1. \A g \in FamilyIds :
            \/ family'[g] = family[g]
            \/ family'[g] = None
            \/ /\ g = req[w].family /\ At(w, "deactivate")
               /\ family'[g] = [req[w].row EXCEPT !.active = FALSE]
      BY <1>10 DEF DeleteFamilyRow, DeactivateFamily, TypeOK
    <3>2. \A v \in Workers : req'[v] = IF v = w THEN Idle ELSE req[v]
      BY <2>1 DEF Finish, Set, TypeOK
    <3>3. At(w, "deactivate") =>
            /\ req[w].op = "deleteFamily" /\ req[w].row \in FamilyRow
            /\ LET row == [req[w].row EXCEPT !.active = FALSE]
               IN  row.person = req[w].row.person /\ row.code = req[w].row.code
      <4>1. At(w, "deactivate") => req[w].op = "deleteFamily" /\ req[w].row # None
        BY DEF RequestsConsistent, Consistent, At
      <4>2. req[w].row \in FamilyRow \cup {None}
        BY <1>a DEF Request
      <4>3. QED
        BY <4>1, <4>2 DEF FamilyRow
    <3>4. Idle.op = "none" /\ Idle.row = None
      BY DEF Idle
    <3>5. ASSUME NEW g \in FamilyIds, g \in Sharing(c)' PROVE g \in Sharing(c)
      <4>1. CASE family'[g] # None /\ family'[g].person /\ family'[g].code = c
        <5>1. CASE family'[g] = family[g]
          BY <4>1, <5>1 DEF Sharing
        <5>2. CASE g = req[w].family /\ At(w, "deactivate")
                     /\ family'[g] = [req[w].row EXCEPT !.active = FALSE]
          BY <3>3, <4>1, <5>2 DEF Sharing
        <5>3. QED
          BY <3>1, <4>1, <5>1, <5>2
      <4>2. ASSUME NEW v \in Workers, req'[v].op = "deleteFamily", req'[v].family = g,
                   req'[v].row.person, req'[v].row.code = c
            PROVE  g \in Sharing(c)
        <5>1. req'[v] = req[v]
          BY <3>2, <3>4, <4>2
        <5>2. QED
          BY <4>2, <5>1 DEF Sharing
      <4>3. QED
        BY <3>5, <4>1, <4>2 DEF Sharing
    <3>6. Inserting(c)' \subseteq Inserting(c)
      BY <3>2, <3>4 DEF Inserting
    <3>7. Sharing(c)' \subseteq Sharing(c)
      BY <3>5 DEF Sharing
    <3>8. QED
      BY <1>0, <3>6, <3>7, ShrinkingKeepsBound
  <2>4. QED
    BY <2>2, <2>3
<1>11. ASSUME NEW d \in Codes, NEW active \in BOOLEAN,
              \/ InsertFamily(d, active)
              \/ \E f \in FamilyIds : OverwriteFamily(f, d, active)
       PROVE  Bounded(c)'
  <2>1. /\ UNCHANGED req
        /\ \A g \in FamilyIds : \/ family'[g] = family[g]
                                \/ ~family'[g].person
    BY <1>11 DEF InsertFamily, OverwriteFamily, TypeOK
  <2>2. Sharing(c)' \subseteq Sharing(c) /\ Inserting(c)' \subseteq Inserting(c)
    BY <2>1 DEF Sharing, Inserting
  <2>3. QED
    BY <1>0, <2>2, ShrinkingKeepsBound
<1>12. CASE UNCHANGED <<family, req>>
  <2>1. Sharing(c)' \subseteq Sharing(c) /\ Inserting(c)' \subseteq Inserting(c)
    BY <1>12 DEF Sharing, Inserting
  <2>2. QED
    BY <1>0, <2>1, ShrinkingKeepsBound
<1>13. QED
  BY <1>1, <1>2, <1>3, <1>4, <1>5, <1>6, <1>7, <1>8, <1>9, <1>10, <1>11, <1>12
     DEF Next, Proceed, SavePriority, DeletePriority, vars

(* At most one surveyed family for each worker shares a code.              *)
THEOREM DuplicatesStayBounded == Spec => []DuplicatesBounded
<1>1. Init => DuplicatesBounded
  <2> SUFFICES ASSUME Init, NEW c \in Codes PROVE Bounded(c)
    BY DEF DuplicatesBounded, Bounded
  <2>1. Sharing(c) = {} /\ Inserting(c) = {}
    BY DEF Init, Sharing, Inserting, Idle
  <2>2. QED
    BY <2>1, FS_EmptySet, FiniteParts DEF Bounded
<1>2. IInv /\ DuplicatesBounded /\ [Next]_vars => DuplicatesBounded'
  BY BoundInductive DEF IInv
<1>3. QED
  BY Invariance, <1>1, <1>2, PTL DEF Spec

\* Each code is one surveyed family's.
CodesUnique ==
    \A f, g \in FamilyIds :
        (/\ family[f] # None /\ family[f].person
         /\ family[g] # None /\ family[g].person
         /\ family[f].code = family[g].code) => f = g

(* Requests that are served one after the other make one family for a code, *)
(* whatever was deleted, overwritten or aborted in between: a household is *)
(* doubled only by a race.                                                 *)
THEOREM SequentialKeepsCodes ==
    ASSUME Cardinality(Workers) = 1
    PROVE  Spec => []CodesUnique
<1>1. TypeOK /\ DuplicatesBounded => CodesUnique
  <2> SUFFICES ASSUME TypeOK, DuplicatesBounded,
                      NEW f \in FamilyIds, NEW g \in FamilyIds,
                      family[f] # None, family[f].person,
                      family[g] # None, family[g].person,
                      family[f].code = family[g].code
               PROVE  f = g
    BY DEF CodesUnique
  <2> DEFINE c == family[f].code
  <2>1. c \in Codes
    BY DEF TypeOK, FamilyRow
  <2>2. f \in Sharing(c) /\ g \in Sharing(c)
    BY DEF Sharing
  <2> HIDE DEF c
  <2>3. /\ IsFiniteSet(Sharing(c)) /\ Cardinality(Sharing(c)) \in Nat
        /\ Cardinality(Sharing(c)) <= 1
    BY <2>1, FiniteParts DEF DuplicatesBounded
  <2>4. Cardinality(Sharing(c)) # 0
    BY <2>2, <2>3, FS_EmptySet
  <2>5. Cardinality(Sharing(c)) = 1
    BY <2>3, <2>4
  <2>6. \E x : Sharing(c) = {x}
    <3>1. IsFiniteSet(Sharing(c))
      BY <2>3
    <3>2. QED
      BY <2>5, <3>1, FS_Singleton, Zenon
  <2>7. QED
    BY <2>2, <2>6
<1>2. QED
  BY <1>1, TypeCorrect, DuplicatesStayBounded, PTL

-----------------------------------------------------------------------------
(* Requests come to an end.                                                *)

\* The most calls a request at a step can still make.
CallsLeft == [idle |-> 0, commit |-> 1, persist |-> 2, deleteFamilyRow |-> 1,
              deactivate |-> 1, countRemaining |-> 2, deleteEconomic |-> 3,
              purgePriorities |-> 4, listPriorities |-> 5, pickNewest |-> 6]

RunsDown(w) ==
    \/ At(w, "idle") \/ req'[w] = req[w]
    \/ CallsLeft[req'[w].step] < CallsLeft[req[w].step]

(* A request in service is touched by its own worker alone, and each call it *)
(* makes leaves it fewer to make, whatever the others do to the tables:     *)
(* no failure and no list of priorities sends it back or round again.  This *)
(* is the safety half of StrayFamilyResolved.                               *)
THEOREM RequestsRunDown == Spec => [][\A w \in Workers : RunsDown(w)]_vars
<1>1. TypeOK /\ RequestsConsistent /\ Next => \A w \in Workers : RunsDown(w)
  <2> SUFFICES ASSUME TypeOK, RequestsConsistent, Next, NEW w \in Workers,
                      ~At(w, "idle"), req'[w] # req[w]
               PROVE  CallsLeft[req'[w].step] < CallsLeft[req[w].step]
    BY DEF RunsDown
  <2>1. req[w] \in Request /\ req[w].step \in Steps
    BY DEF TypeOK, Request
  <2>2. ASSUME NEW r, Set(w, r) PROVE req'[w] = r
    BY <2>2 DEF Set, TypeOK
  <2>3. ASSUME NEW st \in Steps, Goto(w, st) PROVE req'[w].step = st
    BY <2>1, <2>2, <2>3 DEF Goto, Request
  <2>4. Finish(w) => req'[w].step = "idle"
    BY <2>2 DEF Finish, Idle
  <2>5. ASSUME NEW v \in Workers, NEW r, Set(v, r) PROVE v = w
    BY <2>5 DEF Set, TypeOK
  <2>6. Finish(w) => CallsLeft[req'[w].step] < CallsLeft[req[w].step]
    BY <2>1, <2>4 DEF CallsLeft, Steps, At
  <2>7. Abort(w) \/ Proceed(w)
    <3>1. ASSUME NEW v \in Workers, Proceed(v) \/ Abort(v) PROVE v = w
      <4>1. CASE PersistNewFamily(v) \/ PersistInFamily(v) \/ ListPriorities(v)
        BY <2>5, <4>1 DEF PersistNewFamily, PersistInFamily, ListPriorities
      <4>2. CASE PickNewest(v)
        BY <2>5, <4>2 DEF PickNewest, Goto
      <4>3. CASE CommitSnapshot(v) \/ DeleteFamilyRow(v) \/ DeactivateFamily(v) \/ Abort(v)
        BY <2>5, <4>3 DEF CommitSnapshot, DeleteFamilyRow, DeactivateFamily, Abort, Finish
      <4>4. CASE PurgePriorities(v)
        BY <2>5, <4>4 DEF PurgePriorities, Goto, Finish
      <4>5. CASE DeleteEconomic(v)
        BY <2>5, <4>5 DEF DeleteEconomic, Goto, Finish
      <4>6. CASE CountRemaining(v)
        BY <2>5, <4>6 DEF CountRemaining, Goto, Finish
      <4>7. QED
        BY <3>1, <4>1, <4>2, <4>3, <4>4, <4>5, <4>6 DEF Proceed
    <3>2. ASSUME NEW v \in Workers, NEW c \in Codes, LookupFamily(v, c) PROVE FALSE
      <4>1. v = w
        BY <2>5, <3>2 DEF LookupFamily
      <4>2. QED
        BY <3>2, <4>1 DEF LookupFamily
    <3>3. ASSUME NEW v \in Workers, NEW x,
                 FindSnapshot(v, x) \/ FindFamily(v, x)
          PROVE  FALSE
      <4>1. v = w
        BY <2>5, <3>3 DEF FindSnapshot, FindFamily
      <4>2. QED
        BY <3>3, <4>1 DEF FindSnapshot, FindFamily
    <3>4. QED
      BY <3>1, <3>2, <3>3 DEF Next, InsertFamily, OverwriteFamily, SavePriority,
         DeletePriority
  <2>8. CASE PersistNewFamily(w) \/ PersistInFamily(w)
    <3>1. req'[w].step = "commit" /\ req[w].step = "persist"
      BY <2>1, <2>2, <2>8 DEF PersistNewFamily, PersistInFamily, At, Request
    <3>2. QED
      BY <3>1 DEF CallsLeft
  <2>9. CASE PickNewest(w)
    <3>1. /\ req'[w].step \in {"deactivate", "listPriorities"}
          /\ req[w].step = "pickNewest"
      BY <2>1, <2>2, <2>3, <2>9 DEF PickNewest, At, Request, Steps
    <3>2. QED
      BY <3>1 DEF CallsLeft
  <2>10. CASE ListPriorities(w)
    <3>1. req'[w].step = "purgePriorities" /\ req[w].step = "listPriorities"
      BY <2>1, <2>2, <2>10 DEF ListPriorities, At, Request
    <3>2. QED
      BY <3>1 DEF CallsLeft
  <2>11. CASE PurgePriorities(w)
    <3>1. CASE Goto(w, "deleteEconomic")
      <4>1. req'[w].step = "deleteEconomic" /\ req[w].step = "purgePriorities"
        BY <2>3, <2>11, <3>1 DEF PurgePriorities, At, Steps
      <4>2. QED
        BY <4>1 DEF CallsLeft
    <3>2. QED
      BY <2>6, <2>11, <3>1 DEF PurgePriorities
  <2>12. CASE DeleteEconomic(w)
    <3>1. CASE ~Finish(w)
      <4>1. Goto(w, "countRemaining") \/ Goto(w, "deactivate")
        BY <2>12, <3>1 DEF DeleteEconomic
      <4>2. /\ req'[w].step \in {"countRemaining", "deactivate"}
            /\ req[w].step = "deleteEconomic"
        BY <2>3, <2>12, <4>1 DEF DeleteEconomic, At, Steps
      <4>3. QED
        BY <4>2 DEF CallsLeft
    <3>2. QED
      BY <2>6, <3>1
  <2>13. CASE CountRemaining(w)
    <3>1. CASE Goto(w, "deleteFamilyRow")
      <4>1. req'[w].step = "deleteFamilyRow" /\ req[w].step = "countRemaining"
        BY <2>3, <2>13, <3>1 DEF CountRemaining, At, Steps
      <4>2. QED
        BY <4>1 DEF CallsLeft
    <3>2. QED
      BY <2>6, <2>13, <3>1 DEF CountRemaining
  <2>14. QED
    BY <2>6, <2>7, <2>8, <2>9, <2>10, <2>11, <2>12, <2>13
       DEF Proceed, Abort, CommitSnapshot, DeleteFamilyRow, DeactivateFamily
<1>2. QED
  BY <1>1, Invariance, PTL DEF Spec, IInv

=============================================================================
