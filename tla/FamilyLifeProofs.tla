--------------------------- MODULE FamilyLifeProofs ---------------------------
(***************************************************************************)
(* Snapshots implements FamilyLife: every call of every request is a step  *)
(* in the life of one family, or of none.                                  *)
(***************************************************************************)
EXTENDS SnapshotsProofs

\* A snapshot only ever brings an active family with it.
NewActive == \A w \in Workers :
    req[w].op = "addSnapshot" /\ req[w].row # None => req[w].row.active

LInv == IInv /\ NewActive

(* What Status looks at.                                                   *)
LEMMA Unaffected ==
    ASSUME NEW f \in FamilyIds,
           family'[f] = family[f], SnapshotsOf(f)' = SnapshotsOf(f),
           family[f] = None =>
             (Unborn(f) <=> Unborn(f)'),
           Stray(f) => (Minded(f) <=> Minded(f)')
    PROVE  Status(f)' = Status(f)
BY DEF Status, StatusOfRow, Stray

(* A family that is the only one to change makes a move.                   *)
LEMMA OneMoves ==
    ASSUME NEW f \in FamilyIds, NEW from, NEW to,
           Status(f) \in from, Status(f)' = to,
           \A g \in FamilyIds \ {f} : Status(g)' = Status(g)
    PROVE  Life!Move(f, from, to)
BY DEF Life!Move, Stages

(* No family changes.                                                      *)
LEMMA NoneMoves ==
    ASSUME \A g \in FamilyIds : Status(g)' = Status(g)
    PROVE  UNCHANGED Stages
BY DEF Stages

(* Which stage a family is in, read off its row and its snapshots, before   *)
(* and after a step.                                                       *)
LEMMA Reading ==
    ASSUME NEW f \in FamilyIds
    PROVE  /\ family[f] = None /\ Unborn(f) => Status(f) = "unborn"
           /\ family[f] = None /\ ~Unborn(f) => Status(f) = "gone"
           /\ family[f] # None /\ SnapshotsOf(f) # {} =>
                Status(f) = IF family[f].active THEN "listed" ELSE "hidden"
           /\ family[f] # None /\ SnapshotsOf(f) = {} =>
                Status(f) = IF ~family[f].active THEN "closed"
                            ELSE IF ~family[f].person THEN "registered"
                            ELSE IF Minded(f) THEN "closing" ELSE "abandoned"
BY DEF Status, StatusOfRow, Stray

LEMMA ReadingNext ==
    ASSUME NEW f \in FamilyIds
    PROVE  /\ family'[f] = None /\ Unborn(f)' => Status(f)' = "unborn"
           /\ family'[f] = None /\ ~Unborn(f)' => Status(f)' = "gone"
           /\ family'[f] # None /\ SnapshotsOf(f)' # {} =>
                Status(f)' = IF family'[f].active THEN "listed" ELSE "hidden"
           /\ family'[f] # None /\ SnapshotsOf(f)' = {} =>
                Status(f)' = IF ~family'[f].active THEN "closed"
                             ELSE IF ~family'[f].person THEN "registered"
                             ELSE IF Minded(f)' THEN "closing" ELSE "abandoned"
BY DEF Status, StatusOfRow, Stray

\* The request of worker w is about to insert the row of f.
Expects(w, f) == At(w, "commit") /\ req[w].row # None /\ req[w].family = f

(* Only the request that changes can change who expects or minds a family. *)
LEMMA OthersKeep ==
    ASSUME NEW w \in Workers, NEW f \in FamilyIds,
           \A v \in Workers \ {w} : req'[v] = req[v]
    PROVE  /\ (Expects(w, f)' <=> Expects(w, f)) => (Expected(f)' <=> Expected(f))
           /\ (CleaningUp(w, f)' <=> CleaningUp(w, f)) => (Minded(f)' <=> Minded(f))
           /\ Expects(w, f)' => Expected(f)'
           /\ CleaningUp(w, f) => Minded(f)
           /\ CleaningUp(w, f)' => Minded(f)'
<1>1. \A v \in Workers \ {w} : /\ Expects(v, f)' <=> Expects(v, f)
                               /\ CleaningUp(v, f)' <=> CleaningUp(v, f)
  BY DEF Expects, CleaningUp, At
<1>2. /\ Expected(f) <=> \E v \in Workers : Expects(v, f)
      /\ Expected(f)' <=> \E v \in Workers : Expects(v, f)'
  BY DEF Expected, Expects
<1>3. /\ Minded(f) <=> \E v \in Workers : CleaningUp(v, f)
      /\ Minded(f)' <=> \E v \in Workers : CleaningUp(v, f)'
  BY DEF Minded
<1>4. QED
  BY <1>1, <1>2, <1>3

(* A family whose row and snapshots a step leaves alone stays in its stage,  *)
(* when the request that changes neither starts nor stops to be about to    *)
(* insert it or to clean it up.                                             *)
LEMMA StaysAsIs ==
    ASSUME NEW w \in Workers, NEW f \in FamilyIds,
           \A v \in Workers \ {w} : req'[v] = req[v],
           family'[f] = family[f], SnapshotsOf(f)' = SnapshotsOf(f),
           f > famSeq <=> f > famSeq',
           family[f] = None => (Expects(w, f)' <=> Expects(w, f)),
           Stray(f) => (CleaningUp(w, f)' <=> CleaningUp(w, f))
    PROVE  Status(f)' = Status(f)
<1>1. family[f] = None => (Expected(f)' <=> Expected(f))
  BY OthersKeep
<1>2. family[f] = None => (Unborn(f)' <=> Unborn(f))
  BY <1>1 DEF Unborn
<1>3. Stray(f) => (Minded(f)' <=> Minded(f))
  BY OthersKeep
<1>4. QED
  BY <1>2, <1>3, Unaffected

(* A call that writes no family and no snapshot, and before and after which *)
(* the request is about to do neither, is no step in any family's life.    *)
LEMMA CallsOnly ==
    ASSUME TypeOK, NEW w \in Workers, NEW r, Set(w, r),
           UNCHANGED <<family, famSeq, economic>>,
           \A f \in FamilyIds :
              /\ family[f] = None => (Expects(w, f)' <=> Expects(w, f))
              /\ Stray(f) => (CleaningUp(w, f)' <=> CleaningUp(w, f))
    PROVE  UNCHANGED Stages
<1>1. \A v \in Workers \ {w} : req'[v] = req[v]
  BY DEF Set, TypeOK
<1>2. ASSUME NEW f \in FamilyIds PROVE Status(f)' = Status(f)
  <2>1. SnapshotsOf(f)' = SnapshotsOf(f)
    BY DEF SnapshotsOf
  <2>2. QED
    BY <1>1, <2>1, StaysAsIs
<1>3. QED
  BY <1>2, NoneMoves

(* Families other than the one a request is about are not moved by it.     *)
LEMMA OthersStay ==
    ASSUME TypeOK, NEW w \in Workers, NEW r, Set(w, r), NEW f \in FamilyIds,
           f # req[w].family, f # r.family,
           family'[f] = family[f], SnapshotsOf(f)' = SnapshotsOf(f),
           f > famSeq <=> f > famSeq'
    PROVE  Status(f)' = Status(f)
<1>1. \A v \in Workers : req'[v] = IF v = w THEN r ELSE req[v]
  BY DEF Set, TypeOK
<1>2. /\ ~Expects(w, f) /\ ~Expects(w, f)'
      /\ ~CleaningUp(w, f) /\ ~CleaningUp(w, f)'
  BY <1>1 DEF Expects, CleaningUp
<1>3. QED
  BY <1>1, <1>2, StaysAsIs

LifeStep == Life!Next \/ UNCHANGED <<Stages, lost>>

(* The look-ups, the calls on priorities and the count of what is left.    *)
LEMMA CallsLive ==
    ASSUME LInv, NEW w \in Workers,
           \/ \E c \in Codes : LookupFamily(w, c)
           \/ \E s \in SnapshotIds : FindSnapshot(w, s)
           \/ \E f \in FamilyIds : FindFamily(w, f)
           \/ PersistInFamily(w) \/ ListPriorities(w)
           \/ PurgePriorities(w) \/ CountRemaining(w)
    PROVE  LifeStep
<1>1. TypeOK /\ UNCHANGED <<family, famSeq, economic, lost>>
  BY DEF LInv, IInv, LookupFamily, FindSnapshot, FindFamily, PersistInFamily,
         ListPriorities, PurgePriorities, CountRemaining
<1>2. req[w] \in Request
  BY <1>1 DEF TypeOK
<1>3. ASSUME NEW r, Set(w, r), ~At(w, "commit") \/ req[w].row = None,
             r.step # "commit" \/ r.row = None,
             ~(req[w].step \in {"countRemaining", "deleteFamilyRow", "deactivate"}),
             ~(r.step \in {"countRemaining", "deleteFamilyRow", "deactivate"})
      PROVE  LifeStep
  <2>1. req'[w] = r
    BY <1>1, <1>3 DEF Set, TypeOK
  <2>2. \A f \in FamilyIds : /\ Expects(w, f)' <=> Expects(w, f)
                             /\ CleaningUp(w, f)' <=> CleaningUp(w, f)
    BY <1>3, <2>1 DEF Expects, CleaningUp, At
  <2>3. UNCHANGED Stages
    BY <1>1, <1>3, <2>2, CallsOnly
  <2>4. QED
    BY <1>1, <2>3 DEF LifeStep
<1>4. ASSUME NEW c \in Codes, LookupFamily(w, c) PROVE LifeStep
  BY <1>3, <1>4 DEF LookupFamily, At, Idle
<1>5. ASSUME NEW s \in SnapshotIds, FindSnapshot(w, s) PROVE LifeStep
  BY <1>3, <1>5 DEF FindSnapshot, At, Idle
<1>6. ASSUME NEW f \in FamilyIds, FindFamily(w, f) PROVE LifeStep
  BY <1>3, <1>6 DEF FindFamily, At, Idle
<1>7. ASSUME PersistInFamily(w) PROVE LifeStep
  <2> DEFINE r == [req[w] EXCEPT !.step = "commit", !.snapshot = snapSeq + 1]
  <2>1. r.step = "commit" /\ r.row = req[w].row
    BY <1>2 DEF Request
  <2>2. Set(w, r) /\ At(w, "persist") /\ req[w].row = None
    BY <1>7 DEF PersistInFamily
  <2> HIDE DEF r
  <2>3. QED
    BY <1>3, <2>1, <2>2 DEF At
<1>8. ASSUME ListPriorities(w) PROVE LifeStep
  <2> DEFINE r == [req[w] EXCEPT !.step = "purgePriorities",
                                 !.prios = PrioritiesOf(req[w].snapshot)]
  <2>1. r.step = "purgePriorities"
    BY <1>2 DEF Request
  <2>2. Set(w, r) /\ At(w, "listPriorities")
    BY <1>8 DEF ListPriorities
  <2> HIDE DEF r
  <2>3. QED
    BY <1>3, <2>1, <2>2 DEF At
<1>9. ASSUME PurgePriorities(w) PROVE LifeStep
  <2> DEFINE r == [req[w] EXCEPT !.step = "deleteEconomic"]
  <2>1. r.step = "deleteEconomic"
    BY <1>2 DEF Request
  <2>2. (Set(w, r) \/ Set(w, Idle)) /\ At(w, "purgePriorities")
    BY <1>9 DEF PurgePriorities, Goto, Finish
  <2>3. Idle.step = "idle"
    BY DEF Idle
  <2> HIDE DEF r
  <2>4. QED
    BY <1>3, <2>1, <2>2, <2>3 DEF At
<1>10. ASSUME CountRemaining(w) PROVE LifeStep
  <2> DEFINE r == [req[w] EXCEPT !.step = "deleteFamilyRow"]
  <2>1. r.step = "deleteFamilyRow" /\ r.family = req[w].family
    BY <1>2 DEF Request
  <2>2. /\ At(w, "countRemaining")
        /\ IF SnapshotsOf(req[w].family) = {} THEN Set(w, r) ELSE Set(w, Idle)
    BY <1>10 DEF CountRemaining, Goto, Finish
  <2>3. Idle.step = "idle"
    BY DEF Idle
  <2>4. \A q : Set(w, q) => req'[w] = q
    BY <1>1 DEF Set, TypeOK
  <2> HIDE DEF r
  <2>5. \A f \in FamilyIds :
          /\ Expects(w, f)' <=> Expects(w, f)
          /\ Stray(f) => (CleaningUp(w, f)' <=> CleaningUp(w, f))
    BY <2>1, <2>2, <2>3, <2>4 DEF Expects, CleaningUp, At, Stray
  <2>6. UNCHANGED Stages
    BY <1>1, <2>2, <2>5, CallsOnly
  <2>7. QED
    BY <1>1, <2>6 DEF LifeStep
<1>11. QED
  BY <1>4, <1>5, <1>6, <1>7, <1>8, <1>9, <1>10

(* What the invariant says of the request of one worker.                   *)
LEMMA RequestFacts ==
    ASSUME LInv, NEW w \in Workers
    PROVE  /\ req[w] \in Request /\ Consistent(w) /\ Knows(w)
           /\ req[w].family \in FamilyIds \cup {None}
           /\ req[w].row \in FamilyRow \cup {None}
           /\ req[w].snapshot \in SnapshotIds \cup {None}
           /\ \A r : Set(w, r) =>
                \A v \in Workers : req'[v] = IF v = w THEN r ELSE req[v]
BY DEF LInv, IInv, TypeOK, RequestsConsistent, FamiliesKnown, Request, Set

(* Only ids that were drawn are in the table, and whoever is about to insert *)
(* a family is the only one to know of it.                                  *)
LEMMA FamilyFacts ==
    ASSUME LInv, NEW f \in FamilyIds
    PROVE  /\ family[f] \in FamilyRow \cup {None}
           /\ f > famSeq => family[f] = None
           /\ Expected(f) => family[f] = None
           /\ family[f] # None => ~Unborn(f)
           /\ SnapshotsOf(f) # {} => family[f] # None
<1>1. Expected(f) => family[f] = None
  BY DEF LInv, IInv, FamiliesKnown, Knows, Expected
<1>2. f > famSeq => family[f] = None
  BY DEF LInv, IInv, FamiliesKnown
<1>3. SnapshotsOf(f) # {} => family[f] # None
  BY SentinelAssumption DEF LInv, IInv, ReferentialIntegrity, SnapshotsOf, FamilyIds
<1>4. QED
  BY <1>1, <1>2, <1>3 DEF Unborn, LInv, IInv, TypeOK

(* An id that is drawn for a family leaves it unborn.                      *)
LEMMA PersistLives ==
    ASSUME LInv, NEW w \in Workers, PersistNewFamily(w) PROVE LifeStep
<1>0. PICK f \in FamilyIds : f = famSeq + 1
  BY BoundsAssumption DEF LInv, IInv, PersistNewFamily, TypeOK, FamilyIds
<1> DEFINE r == [req[w] EXCEPT !.step = "commit", !.family = f,
                               !.snapshot = snapSeq + 1]
<1>1. /\ TypeOK /\ famSeq \in Nat /\ famSeq' = f /\ f \in FamilyIds
      /\ At(w, "persist") /\ req[w].row # None
      /\ Set(w, r) /\ UNCHANGED <<family, economic, lost>>
  BY <1>0, BoundsAssumption DEF LInv, IInv, PersistNewFamily, TypeOK, FamilyIds
<1>2. r.step = "commit" /\ r.family = f /\ r.row = req[w].row
  BY RequestFacts DEF Request
<1>3. req'[w] = r /\ \A v \in Workers \ {w} : req'[v] = req[v]
  BY <1>1, RequestFacts
<1> HIDE DEF r
<1>4. ASSUME NEW g \in FamilyIds \ {f} PROVE Status(g)' = Status(g)
  <2>1. SnapshotsOf(g)' = SnapshotsOf(g) /\ family'[g] = family[g]
    BY <1>1 DEF SnapshotsOf
  <2>2. g > famSeq <=> g > famSeq'
    BY <1>0, <1>1 DEF FamilyIds
  <2>3. /\ ~Expects(w, g) /\ ~Expects(w, g)'
        /\ ~CleaningUp(w, g) /\ ~CleaningUp(w, g)'
    BY <1>1, <1>2, <1>3 DEF Expects, CleaningUp, At
  <2>4. QED
    BY <1>3, <2>1, <2>2, <2>3, StaysAsIs
<1>5. Status(f)' = Status(f)
  <2>1. f > famSeq
    BY <1>0, <1>1
  <2>2. family[f] = None /\ family'[f] = None
    BY <1>1, <2>1, FamilyFacts
  <2>3. Expects(w, f)'
    BY <1>1, <1>2, <1>3 DEF Expects, At
  <2>4. Unborn(f) /\ Unborn(f)'
    BY <1>1, <1>3, <2>1, <2>3, OthersKeep DEF Unborn
  <2>5. QED
    BY <1>1, <2>2, <2>4, Reading, ReadingNext
<1>6. UNCHANGED Stages
  BY <1>4, <1>5, NoneMoves
<1>7. QED
  BY <1>1, <1>6 DEF LifeStep

(* A snapshot that is stored surveys its family.                           *)
LEMMA CommitLives ==
    ASSUME LInv, NEW w \in Workers, CommitSnapshot(w) PROVE LifeStep
<1>1. /\ TypeOK /\ At(w, "commit") /\ Set(w, Idle) /\ UNCHANGED famSeq
      /\ Idle.family = None /\ Idle.step = "idle"
  BY DEF LInv, IInv, CommitSnapshot, Finish, Idle
<1>0. PICK f \in FamilyIds, s \in SnapshotIds :
         f = req[w].family /\ s = req[w].snapshot
  BY <1>1, RequestFacts DEF Consistent
<1>2. req[w].op = "addSnapshot" /\ economic[s] = None /\ f # None
  BY <1>0, <1>1, RequestFacts, SentinelAssumption DEF Consistent, FamilyIds
<1>3. req'[w] = Idle /\ \A v \in Workers \ {w} : req'[v] = req[v]
  BY <1>1, RequestFacts
<1>4. CASE FamilyPresent(w)
  <2>1. /\ economic' = [economic EXCEPT ![s] = f]
        /\ family' = IF req[w].row = None THEN family
                     ELSE [family EXCEPT ![f] = req[w].row]
        /\ lost' = lost \ {f}
    BY <1>0, <1>4 DEF CommitSnapshot
  <2>2. SnapshotsOf(f)' # {}
    BY <1>1, <1>2, <2>1 DEF SnapshotsOf, TypeOK
  <2>3. ASSUME NEW g \in FamilyIds \ {f} PROVE Status(g)' = Status(g)
    <3>1. SnapshotsOf(g)' = SnapshotsOf(g)
      BY <1>1, <1>2, <2>1, SentinelAssumption DEF SnapshotsOf, TypeOK, FamilyIds
    <3>2. family'[g] = family[g]
      BY <1>1, <2>1 DEF TypeOK
    <3>3. g # Idle.family
      BY <1>1, SentinelAssumption DEF FamilyIds
    <3>4. QED
      BY <1>0, <1>1, <3>1, <3>2, <3>3, OthersStay
  <2>4. CASE req[w].row = None
    <3>1. family[f] # None /\ family'[f] = family[f]
      BY <1>0, <1>4, <2>1, <2>4 DEF FamilyPresent
    <3>2. CASE family[f].active
      <4>1. Status(f)' = "listed"
        BY <1>2, <2>2, <3>1, <3>2, ReadingNext
      <4>2. Status(f) \in {"unborn", "registered", "listed", "closing", "abandoned"}
        BY <1>2, <3>1, <3>2, Reading
      <4>3. Life!Move(f, {"unborn", "registered", "listed", "closing", "abandoned"}, "listed")
        BY <1>2, <2>3, <4>1, <4>2, OneMoves
      <4>4. Life!Survey(f)
        BY <2>1, <4>3 DEF Life!Survey
      <4>5. QED
        BY <1>2, <4>4 DEF LifeStep, Life!Next
    <3>3. CASE ~family[f].active
      <4>1. Status(f)' = "hidden"
        BY <1>2, <2>2, <3>1, <3>3, ReadingNext
      <4>2. Status(f) \in {"hidden", "closed"}
        BY <1>2, <3>1, <3>3, Reading
      <4>3. Life!Move(f, {"hidden", "closed"}, "hidden")
        BY <1>2, <2>3, <4>1, <4>2, OneMoves
      <4>4. Life!Survey(f)
        BY <2>1, <4>3 DEF Life!Survey
      <4>5. QED
        BY <1>2, <4>4 DEF LifeStep, Life!Next
    <3>4. QED
      BY <3>2, <3>3
  <2>5. CASE req[w].row # None
    <3>1. family[f] = None /\ family'[f] = req[w].row /\ req[w].row.active
      BY <1>0, <1>1, <1>2, <2>1, <2>5, RequestFacts DEF Knows, TypeOK, LInv, NewActive
    <3>2. Expects(w, f)
      BY <1>0, <1>1, <2>5 DEF Expects
    <3>3. Unborn(f)
      BY <3>2 DEF Unborn, Expected, Expects
    <3>4. Status(f) = "unborn"
      BY <1>2, <3>1, <3>3, Reading
    <3>5. Status(f)' = "listed"
      BY <1>2, <2>2, <2>5, <3>1, ReadingNext
    <3>6. Life!Move(f, {"unborn", "registered", "listed", "closing", "abandoned"}, "listed")
      BY <1>2, <2>3, <3>4, <3>5, OneMoves
    <3>7. Life!Survey(f)
      BY <2>1, <3>6 DEF Life!Survey
    <3>8. QED
      BY <1>2, <3>7 DEF LifeStep, Life!Next
  <2>6. QED
    BY <2>4, <2>5
<1>5. CASE ~FamilyPresent(w)
  <2>1. UNCHANGED <<economic, family, lost>> /\ req[w].row = None
    BY <1>5 DEF CommitSnapshot, FamilyPresent
  <2>2. \A g \in FamilyIds : /\ ~Expects(w, g) /\ ~Expects(w, g)'
                             /\ ~CleaningUp(w, g) /\ ~CleaningUp(w, g)'
    BY <1>1, <1>3, <2>1 DEF Expects, CleaningUp, At
  <2>3. UNCHANGED Stages
    BY <1>1, <2>1, <2>2, CallsOnly
  <2>4. QED
    BY <2>1, <2>3 DEF LifeStep
<1>6. QED
  BY <1>4, <1>5

(* A deletion that finds nothing to delete takes up an abandoned family.   *)
LEMMA PickLives ==
    ASSUME LInv, NEW w \in Workers, PickNewest(w) PROVE LifeStep
<1>0. PICK f \in FamilyIds : f = req[w].family
  BY RequestFacts DEF PickNewest, Consistent, At
<1>1. /\ TypeOK /\ req[w].step = "pickNewest"
      /\ UNCHANGED <<family, famSeq, economic, lost>>
  BY DEF LInv, IInv, PickNewest, At
<1>2. req[w] \in Request
  BY RequestFacts
<1>3. ASSUME NEW s, s \in SnapshotsOf(f),
             Set(w, [req[w] EXCEPT !.step = "listPriorities", !.snapshot = s])
      PROVE  LifeStep
  <2> DEFINE r == [req[w] EXCEPT !.step = "listPriorities", !.snapshot = s]
  <2>1. r.step = "listPriorities"
    BY <1>2 DEF Request
  <2>2. Set(w, r) /\ req'[w] = r
    BY <1>3, RequestFacts
  <2> HIDE DEF r
  <2>3. \A g \in FamilyIds : /\ ~Expects(w, g) /\ ~Expects(w, g)'
                             /\ ~CleaningUp(w, g) /\ ~CleaningUp(w, g)'
    BY <1>1, <2>1, <2>2 DEF Expects, CleaningUp, At
  <2>4. UNCHANGED Stages
    BY <1>1, <2>2, <2>3, CallsOnly
  <2>5. QED
    BY <1>1, <2>4 DEF LifeStep
<1>4. ASSUME Goto(w, "deactivate") PROVE LifeStep
  <2> DEFINE r == [req[w] EXCEPT !.step = "deactivate"]
  <2>1. r.step = "deactivate" /\ r.family = f
    BY <1>0, <1>2 DEF Request
  <2>2. Set(w, r) /\ \A v \in Workers : req'[v] = IF v = w THEN r ELSE req[v]
    BY <1>4, RequestFacts DEF Goto
  <2> HIDE DEF r
  <2>3. ASSUME NEW g \in FamilyIds PROVE SnapshotsOf(g)' = SnapshotsOf(g)
    BY <1>1 DEF SnapshotsOf
  <2>4. \A g \in FamilyIds \ {f} : Status(g)' = Status(g)
    BY <1>0, <1>1, <2>1, <2>2, <2>3, OthersStay
  <2>5. CleaningUp(w, f)' /\ ~Expects(w, f) /\ ~Expects(w, f)'
    BY <1>1, <2>1, <2>2 DEF CleaningUp, Expects, At
  <2>6. Minded(f)' /\ (Unborn(f)' <=> Unborn(f))
    BY <1>1, <2>2, <2>5, OthersKeep DEF Unborn
  <2>7. CASE Stray(f) /\ ~Minded(f)
    <3>1. Status(f) = "abandoned" /\ Status(f)' = "closing"
      BY <1>1, <2>3, <2>6, <2>7, Reading, ReadingNext DEF Stray
    <3>2. Life!Move(f, {"abandoned"}, "closing")
      BY <2>4, <3>1, OneMoves
    <3>3. Life!TakeUp(f)
      BY <3>2 DEF Life!TakeUp
    <3>4. QED
      BY <1>1, <3>3 DEF LifeStep, Life!Next
  <2>8. CASE ~(Stray(f) /\ ~Minded(f))
    <3>1. Status(f)' = Status(f)
      BY <1>1, <2>3, <2>6, <2>8, Unaffected
    <3>2. UNCHANGED Stages
      BY <2>4, <3>1, NoneMoves
    <3>3. QED
      BY <1>1, <3>2 DEF LifeStep
  <2>9. QED
    BY <2>7, <2>8
<1>5. QED
  BY <1>0, <1>3, <1>4 DEF PickNewest

(* The deletion of its last snapshot is for the same request to clean up.  *)
LEMMA EconomicLives ==
    ASSUME LInv, NEW w \in Workers, DeleteEconomic(w) PROVE LifeStep
<1>0. PICK f \in FamilyIds, s \in SnapshotIds :
         f = req[w].family /\ s = req[w].snapshot
  BY RequestFacts DEF DeleteEconomic, Consistent, At
<1>1. /\ TypeOK /\ req[w].step = "deleteEconomic" /\ req[w] \in Request
      /\ UNCHANGED <<family, famSeq, lost>>
  BY DEF LInv, IInv, DeleteEconomic, At, TypeOK
<1>2. ASSUME economic[s] # None, economic' = [economic EXCEPT ![s] = None],
             NEW st \in {"countRemaining", "deactivate"}, Goto(w, st)
      PROVE  LifeStep
  <2> DEFINE r == [req[w] EXCEPT !.step = st]
  <2>1. r.step = st /\ r.family = f
    BY <1>0, <1>1 DEF Request
  <2>2. Set(w, r) /\ \A v \in Workers : req'[v] = IF v = w THEN r ELSE req[v]
    BY <1>2, RequestFacts DEF Goto
  <2> HIDE DEF r
  <2>3. economic[s] = f /\ f # None
    BY <1>0, <1>1, <1>2, RequestFacts, SentinelAssumption DEF Consistent, FamilyIds
  <2>4. ASSUME NEW g \in FamilyIds \ {f} PROVE Status(g)' = Status(g)
    <3>1. SnapshotsOf(g)' = SnapshotsOf(g)
      BY <1>1, <1>2, <2>3, SentinelAssumption DEF SnapshotsOf, TypeOK, FamilyIds
    <3>2. QED
      BY <1>0, <1>1, <2>1, <2>2, <3>1, OthersStay
  <2>5. CleaningUp(w, f)' /\ Minded(f)'
    <3>1. CleaningUp(w, f)'
      BY <2>1, <2>2 DEF CleaningUp
    <3>2. QED
      BY <3>1 DEF Minded
  <2>6. SnapshotsOf(f) # {}
    BY <2>3 DEF SnapshotsOf
  <2>7. family[f] # None /\ family'[f] = family[f] /\ family[f] \in FamilyRow
    BY <1>1, <2>6, FamilyFacts
  <2>8. Status(f) = IF family[f].active THEN "listed" ELSE "hidden"
    BY <2>6, <2>7, Reading
  <2>9. CASE SnapshotsOf(f)' # {}
    <3>1. Status(f)' = Status(f)
      BY <2>7, <2>8, <2>9, ReadingNext
    <3>2. UNCHANGED Stages
      BY <2>4, <3>1, NoneMoves
    <3>3. QED
      BY <1>1, <3>2 DEF LifeStep
  <2>10. CASE SnapshotsOf(f)' = {}
    <3>1. Status(f)' = IF ~family[f].active THEN "closed"
                       ELSE IF ~family[f].person THEN "registered" ELSE "closing"
      BY <2>5, <2>7, <2>10, ReadingNext
    <3>2. Life!LoseLast(f)
      <4>1. CASE ~family[f].active
        <5>1. Life!Move(f, {"hidden"}, "closed")
          BY <2>4, <2>8, <3>1, <4>1, OneMoves
        <5>2. QED
          BY <5>1 DEF Life!LoseLast
      <4>2. CASE family[f].active /\ family[f].person
        <5>1. Life!Move(f, {"listed"}, "closing")
          BY <2>4, <2>8, <3>1, <4>2, OneMoves
        <5>2. QED
          BY <5>1 DEF Life!LoseLast
      <4>3. CASE family[f].active /\ ~family[f].person
        <5>1. Life!Move(f, {"listed"}, "registered")
          BY <2>4, <2>8, <3>1, <4>3, OneMoves
        <5>2. QED
          BY <5>1 DEF Life!LoseLast
      <4>4. QED
        BY <4>1, <4>2, <4>3
    <3>3. QED
      BY <1>1, <3>2 DEF LifeStep, Life!Next
  <2>11. QED
    BY <2>9, <2>10
<1>3. ASSUME UNCHANGED economic, Finish(w) PROVE LifeStep
  <2>1. Set(w, Idle) /\ req'[w] = Idle /\ Idle.step = "idle"
    BY <1>3, RequestFacts DEF Finish, Idle
  <2>2. \A g \in FamilyIds : /\ ~Expects(w, g) /\ ~Expects(w, g)'
                             /\ ~CleaningUp(w, g) /\ ~CleaningUp(w, g)'
    BY <1>1, <2>1 DEF Expects, CleaningUp, At
  <2>3. UNCHANGED Stages
    BY <1>1, <1>3, <2>1, <2>2, CallsOnly
  <2>4. QED
    BY <1>1, <2>3 DEF LifeStep
<1>4. QED
  BY <1>0, <1>2, <1>3 DEF DeleteEconomic

(* The end of a request that was cleaning up.                              *)
LEMMA CleanedUp ==
    ASSUME LInv, NEW w \in Workers, NEW f \in FamilyIds, f = req[w].family,
           CleaningUp(w, f), Finish(w), UNCHANGED <<famSeq, economic>>,
           \A g \in FamilyIds \ {f} : family'[g] = family[g]
    PROVE  /\ \A g \in FamilyIds : SnapshotsOf(g)' = SnapshotsOf(g)
           /\ \A g \in FamilyIds \ {f} : Status(g)' = Status(g)
           /\ Minded(f) /\ (Unborn(f)' <=> Unborn(f))
<1>1. /\ TypeOK /\ Set(w, Idle) /\ Idle.family = None /\ Idle.step = "idle"
      /\ \A v \in Workers : req'[v] = IF v = w THEN Idle ELSE req[v]
  BY RequestFacts DEF Finish, Idle, LInv, IInv
<1>2. \A g \in FamilyIds : SnapshotsOf(g)' = SnapshotsOf(g)
  BY DEF SnapshotsOf
<1>3. \A g \in FamilyIds : g # Idle.family
  BY <1>1, SentinelAssumption DEF FamilyIds
<1>4. \A g \in FamilyIds \ {f} : Status(g)' = Status(g)
  BY <1>1, <1>2, <1>3, OthersStay
<1>5. ~Expects(w, f) /\ ~Expects(w, f)'
  BY <1>1 DEF Expects, CleaningUp, At
<1>6. Minded(f) /\ (Unborn(f)' <=> Unborn(f))
  BY <1>1, <1>5, OthersKeep DEF Unborn
<1>7. QED
  BY <1>2, <1>4, <1>6

LEMMA DeleteRowLives ==
    ASSUME LInv, NEW w \in Workers, DeleteFamilyRow(w) PROVE LifeStep
<1>0. PICK f \in FamilyIds : f = req[w].family
  BY RequestFacts DEF DeleteFamilyRow, Consistent, At
<1>1. /\ TypeOK /\ CleaningUp(w, f) /\ Finish(w)
      /\ UNCHANGED <<famSeq, economic, lost>>
      /\ family' = IF SnapshotsOf(f) = {} THEN [family EXCEPT ![f] = None]
                                          ELSE family
  BY <1>0 DEF LInv, IInv, DeleteFamilyRow, CleaningUp, At
<1>2. \A g \in FamilyIds \ {f} : family'[g] = family[g]
  BY <1>1 DEF TypeOK
<1>3. /\ SnapshotsOf(f)' = SnapshotsOf(f) /\ Minded(f) /\ (Unborn(f)' <=> Unborn(f))
      /\ \A g \in FamilyIds \ {f} : Status(g)' = Status(g)
  BY <1>0, <1>1, <1>2, CleanedUp
<1>4. CASE family[f] # None /\ SnapshotsOf(f) = {}
  <2>1. family'[f] = None /\ ~Unborn(f)'
    BY <1>1, <1>3, <1>4, FamilyFacts DEF TypeOK
  <2>2. Status(f)' = "gone"
    BY <2>1, ReadingNext
  <2>3. Status(f) \in {"registered", "closing", "closed"}
    BY <1>3, <1>4, Reading
  <2>4. Life!Move(f, {"registered", "closing", "closed"}, "gone")
    BY <1>3, <2>2, <2>3, OneMoves
  <2>5. Life!Delete(f)
    BY <2>4 DEF Life!Delete
  <2>6. QED
    BY <1>1, <2>5 DEF LifeStep, Life!Next
<1>5. CASE family[f] = None \/ SnapshotsOf(f) # {}
  <2>1. family'[f] = family[f] /\ ~Stray(f)
    BY <1>1, <1>5 DEF TypeOK, Stray
  <2>2. Status(f)' = Status(f)
    BY <1>3, <2>1, Unaffected
  <2>3. UNCHANGED Stages
    BY <1>3, <2>2, NoneMoves
  <2>4. QED
    BY <1>1, <2>3 DEF LifeStep
<1>6. QED
  BY <1>4, <1>5

LEMMA DeactivateLives ==
    ASSUME LInv, NEW w \in Workers, DeactivateFamily(w) PROVE LifeStep
<1>0. PICK f \in FamilyIds : f = req[w].family
  BY RequestFacts DEF DeactivateFamily, Consistent, At
<1>1. /\ TypeOK /\ CleaningUp(w, f) /\ Finish(w) /\ req[w].op = "deleteFamily"
      /\ UNCHANGED <<famSeq, economic, lost>>
      /\ family' = IF family[f] = None \/ ~req[w].row.active THEN family
                   ELSE [family EXCEPT ![f] = [req[w].row EXCEPT !.active = FALSE]]
  BY <1>0, RequestFacts
     DEF LInv, IInv, DeactivateFamily, CleaningUp, At, Consistent
<1>2. \A g \in FamilyIds \ {f} : family'[g] = family[g]
  BY <1>1 DEF TypeOK
<1>3. /\ SnapshotsOf(f)' = SnapshotsOf(f) /\ Minded(f) /\ (Unborn(f)' <=> Unborn(f))
      /\ \A g \in FamilyIds \ {f} : Status(g)' = Status(g)
  BY <1>0, <1>1, <1>2, CleanedUp
<1>4. CASE family[f] # None /\ req[w].row.active
  <2>1. req[w].row \in FamilyRow
    BY <1>1, RequestFacts DEF Consistent
  <2>2. family'[f] = [req[w].row EXCEPT !.active = FALSE]
    BY <1>1, <1>4 DEF TypeOK
  <2>3. family'[f] \in FamilyRow /\ ~family'[f].active
    BY <2>1, <2>2 DEF FamilyRow
  <2>4. family'[f] # None
    BY <2>3, SentinelAssumption
  <2>5. CASE SnapshotsOf(f) # {}
    <3>1. Status(f)' = "hidden"
      BY <1>3, <2>3, <2>4, <2>5, ReadingNext
    <3>2. CASE family[f].active
      <4>1. Status(f) = "listed"
        BY <1>4, <2>5, <3>2, Reading
      <4>2. Life!Move(f, {"listed"}, "hidden")
        BY <1>3, <3>1, <4>1, OneMoves
      <4>3. Life!Deactivate(f)
        BY <4>2 DEF Life!Deactivate
      <4>4. QED
        BY <1>1, <4>3 DEF LifeStep, Life!Next
    <3>3. CASE ~family[f].active
      <4>1. Status(f) = "hidden"
        BY <1>4, <2>5, <3>3, Reading
      <4>2. UNCHANGED Stages
        BY <1>3, <3>1, <4>1, NoneMoves
      <4>3. QED
        BY <1>1, <4>2 DEF LifeStep
    <3>4. QED
      BY <3>2, <3>3
  <2>6. CASE SnapshotsOf(f) = {}
    <3>1. Status(f)' = "closed"
      BY <1>3, <2>3, <2>4, <2>6, ReadingNext
    <3>2. CASE family[f].active
      <4>1. Status(f) \in {"registered", "closing"}
        BY <1>3, <1>4, <2>6, <3>2, Reading
      <4>2. Life!Move(f, {"registered", "closing"}, "closed")
        BY <1>3, <3>1, <4>1, OneMoves
      <4>3. Life!Deactivate(f)
        BY <4>2 DEF Life!Deactivate
      <4>4. QED
        BY <1>1, <4>3 DEF LifeStep, Life!Next
    <3>3. CASE ~family[f].active
      <4>1. Status(f) = "closed"
        BY <1>4, <2>6, <3>3, Reading
      <4>2. UNCHANGED Stages
        BY <1>3, <3>1, <4>1, NoneMoves
      <4>3. QED
        BY <1>1, <4>2 DEF LifeStep
    <3>4. QED
      BY <3>2, <3>3
  <2>7. QED
    BY <2>5, <2>6
<1>5. CASE family[f] = None \/ ~req[w].row.active
  <2>1. Retired(f) /\ family'[f] = family[f]
    BY <1>0, <1>1, <1>5, RequestFacts DEF Knows, Retired
  <2>2. Status(f)' = Status(f)
    BY <1>3, <2>1, Unaffected DEF Retired, Stray
  <2>3. UNCHANGED Stages
    BY <1>3, <2>2, NoneMoves
  <2>4. QED
    BY <1>1, <2>3 DEF LifeStep
<1>6. QED
  BY <1>4, <1>5

(* A request that is cut short leaves at most the family in its hands.     *)
LEMMA AbortLives ==
    ASSUME LInv, NEW w \in Workers, Abort(w) PROVE LifeStep
<1>1. /\ TypeOK /\ Finish(w) /\ UNCHANGED <<family, famSeq, economic>>
      /\ lost' = lost \cup {f \in FamilyIds : CleaningUp(w, f)}
      /\ Set(w, Idle) /\ Idle.family = None /\ Idle.step = "idle"
      /\ \A v \in Workers : req'[v] = IF v = w THEN Idle ELSE req[v]
  BY RequestFacts DEF LInv, IInv, Abort, Finish, Idle
<1>2. ASSUME NEW f \in FamilyIds, CleaningUp(w, f) PROVE LifeStep
  <2>1. f = req[w].family
    BY <1>2 DEF CleaningUp
  <2>2. lost' = lost \cup {f}
    BY <1>1, <1>2 DEF CleaningUp
  <2>3. /\ SnapshotsOf(f)' = SnapshotsOf(f) /\ Minded(f) /\ (Unborn(f)' <=> Unborn(f))
        /\ \A g \in FamilyIds \ {f} : Status(g)' = Status(g)
    BY <1>1, <1>2, <2>1, CleanedUp
  <2>4. CASE Stray(f) /\ ~Minded(f)'
    <3>1. Status(f) = "closing" /\ Status(f)' = "abandoned"
      BY <1>1, <2>3, <2>4, Reading, ReadingNext DEF Stray
    <3>2. Life!Move(f, {"closing"}, "abandoned")
      BY <2>3, <3>1, OneMoves
    <3>3. Life!CutShort(f)
      BY <2>2, <3>2 DEF Life!CutShort
    <3>4. QED
      BY <3>3 DEF LifeStep, Life!Next
  <2>5. CASE ~(Stray(f) /\ ~Minded(f)')
    <3>1. Status(f)' = Status(f)
      BY <1>1, <2>3, <2>5, Unaffected
    <3>2. UNCHANGED Stages
      BY <2>3, <3>1, NoneMoves
    <3>3. Life!CutShort(f)
      BY <2>2, <3>2 DEF Life!CutShort
    <3>4. QED
      BY <3>3 DEF LifeStep, Life!Next
  <2>6. QED
    BY <2>4, <2>5
<1>3. CASE ~\E f \in FamilyIds : CleaningUp(w, f)
  <2>1. UNCHANGED lost
    BY <1>1, <1>3
  <2>2. ASSUME NEW f \in FamilyIds, Expects(w, f) PROVE LifeStep
    <3>1. f = req[w].family /\ f # Idle.family /\ req[w].op = "addSnapshot"
      BY <1>1, <2>2, RequestFacts, SentinelAssumption
         DEF Expects, FamilyIds, Consistent
    <3>2. ASSUME NEW g \in FamilyIds \ {f} PROVE Status(g)' = Status(g)
      <4>1. SnapshotsOf(g)' = SnapshotsOf(g)
        BY <1>1 DEF SnapshotsOf
      <4>2. g # Idle.family /\ g # req[w].family
        BY <1>1, <3>1, SentinelAssumption DEF FamilyIds
      <4>3. QED
        BY <1>1, <4>1, <4>2, OthersStay
    <3>3. ~Expected(f)'
      <4>1. ASSUME NEW v \in Workers, Expects(v, f)' PROVE FALSE
        <5>1. v # w /\ Expects(v, f)
          BY <1>1, <3>1, <4>1 DEF Expects, At
        <5>2. req[v].op = "deleteSnapshot" /\ req[v].op = "addSnapshot"
          BY <2>2, <5>1, RequestFacts DEF Knows, Expects, Consistent
        <5>3. QED
          BY <5>2
      <4>2. QED
        BY <4>1 DEF Expected, Expects
    <3>4. f <= famSeq
      BY <3>1, RequestFacts, SentinelAssumption DEF Knows, FamilyIds
    <3>5. ~Unborn(f)' /\ Unborn(f)
      BY <1>1, <2>2, <3>3, <3>4 DEF Unborn, Expected, Expects, TypeOK, FamilyIds
    <3>6. family[f] = None /\ family'[f] = None
      BY <1>1, <3>1, <2>2, RequestFacts DEF Knows, Expects
    <3>7. Status(f) = "unborn" /\ Status(f)' = "gone"
      BY <3>5, <3>6, Reading, ReadingNext
    <3>8. Life!Move(f, {"unborn"}, "gone")
      BY <3>2, <3>7, OneMoves
    <3>9. Life!Waste(f)
      BY <3>8 DEF Life!Waste
    <3>10. QED
      BY <2>1, <3>9 DEF LifeStep, Life!Next
  <2>3. CASE ~\E f \in FamilyIds : Expects(w, f)
    <3>1. \A g \in FamilyIds : ~Expects(w, g)' /\ ~CleaningUp(w, g)'
      BY <1>1 DEF Expects, CleaningUp, At
    <3>2. UNCHANGED Stages
      BY <1>1, <1>3, <2>3, <3>1, CallsOnly
    <3>3. QED
      BY <2>1, <3>2 DEF LifeStep
  <2>4. QED
    BY <2>2, <2>3
<1>4. QED
  BY <1>2, <1>3

(* POST /families moves the family it writes, and no other.                *)
LEMMA RegisterLives ==
    ASSUME LInv, NEW c \in Codes, NEW active \in BOOLEAN,
           \/ InsertFamily(c, active)
           \/ \E f \in FamilyIds : OverwriteFamily(f, c, active)
    PROVE  LifeStep
<1> DEFINE new == [code |-> c, active |-> active, person |-> FALSE]
<1>1. TypeOK /\ UNCHANGED <<economic, req, lost>> /\ new \in FamilyRow /\ new # None
  <2>1. TypeOK /\ UNCHANGED <<economic, req, lost>>
    BY DEF LInv, IInv, InsertFamily, OverwriteFamily
  <2>2. new \in FamilyRow
    BY DEF FamilyRow
  <2>3. QED
    BY <2>1, <2>2, SentinelAssumption
<1>2. new.active = active /\ new.person = FALSE
  OBVIOUS
<1> HIDE DEF new
<1>3. PICK w \in Workers : TRUE
  BY WorkersAssumption
<1>4. ASSUME NEW f \in FamilyIds
      PROVE  /\ SnapshotsOf(f)' = SnapshotsOf(f)
             /\ Expects(w, f)' <=> Expects(w, f)
             /\ CleaningUp(w, f)' <=> CleaningUp(w, f)
  BY <1>1 DEF SnapshotsOf, Expects, CleaningUp, At
<1>5. ASSUME NEW f \in FamilyIds,
             \A g \in FamilyIds \ {f} : /\ family'[g] = family[g]
                                        /\ g > famSeq <=> g > famSeq'
      PROVE  \A g \in FamilyIds \ {f} : Status(g)' = Status(g)
  BY <1>1, <1>3, <1>4, <1>5, StaysAsIs
<1>6. ASSUME InsertFamily(c, active) PROVE LifeStep
  <2>1. PICK f \in FamilyIds : f = famSeq + 1
    BY <1>1, <1>6, BoundsAssumption DEF InsertFamily, TypeOK, FamilyIds
  <2>2. family' = [family EXCEPT ![f] = new] /\ famSeq' = f /\ f > famSeq
    BY <1>1, <1>6, <2>1 DEF InsertFamily, TypeOK, new
  <2>3. \A g \in FamilyIds \ {f} : Status(g)' = Status(g)
    <3>1. \A g \in FamilyIds \ {f} : family'[g] = family[g]
      BY <1>1, <2>2 DEF TypeOK
    <3>2. \A g \in FamilyIds \ {f} : g > famSeq <=> g > famSeq'
      BY <1>1, <2>1, <2>2 DEF FamilyIds, TypeOK
    <3>3. QED
      BY <1>5, <3>1, <3>2
  <2>4. family[f] = None /\ SnapshotsOf(f) = {} /\ Unborn(f)
    BY <2>2, FamilyFacts DEF Unborn
  <2>5. Status(f) = "unborn"
    BY <2>4, Reading
  <2>6. family'[f] = new /\ SnapshotsOf(f)' = {}
    BY <1>1, <1>4, <2>2, <2>4 DEF TypeOK
  <2>7. Status(f)' = IF active THEN "registered" ELSE "closed"
    BY <1>1, <1>2, <2>6, ReadingNext
  <2>8. Life!Register(f)
    <3>1. CASE active
      <4>1. Life!Move(f, {"unborn", "closed", "closing", "abandoned"}, "registered")
        BY <2>3, <2>5, <2>7, <3>1, OneMoves
      <4>2. QED
        BY <4>1 DEF Life!Register
    <3>2. CASE ~active
      <4>1. Life!Move(f, {"unborn", "registered", "closing", "abandoned"}, "closed")
        BY <2>3, <2>5, <2>7, <3>2, OneMoves
      <4>2. QED
        BY <4>1 DEF Life!Register
    <3>3. QED
      BY <3>1, <3>2
  <2>9. QED
    BY <1>1, <2>8 DEF LifeStep, Life!Next
<1>7. ASSUME NEW f \in FamilyIds, OverwriteFamily(f, c, active) PROVE LifeStep
  <2>1. /\ family[f] # None /\ family' = [family EXCEPT ![f] = new]
        /\ UNCHANGED famSeq
    BY <1>7 DEF OverwriteFamily, new
  <2>2. \A g \in FamilyIds \ {f} : Status(g)' = Status(g)
    <3>1. \A g \in FamilyIds \ {f} : family'[g] = family[g]
      BY <1>1, <2>1 DEF TypeOK
    <3>2. \A g \in FamilyIds \ {f} : g > famSeq <=> g > famSeq'
      BY <2>1
    <3>3. QED
      BY <1>5, <3>1, <3>2
  <2>3. family'[f] = new
    BY <1>1, <2>1 DEF TypeOK
  <2>4. ASSUME Status(f)' = Status(f) PROVE LifeStep
    <3>1. UNCHANGED Stages
      BY <2>2, <2>4, NoneMoves
    <3>2. QED
      BY <1>1, <3>1 DEF LifeStep
  <2>5. ASSUME Life!Register(f) PROVE LifeStep
    BY <1>1, <2>5 DEF LifeStep, Life!Next
  <2>6. CASE SnapshotsOf(f) # {}
    <3>1. Status(f) \in {"listed", "hidden"}
      BY <2>1, <2>6, Reading
    <3>2. Status(f)' = IF active THEN "listed" ELSE "hidden"
      BY <1>1, <1>2, <1>4, <2>3, <2>6, ReadingNext
    <3>3. CASE active /\ Status(f) = "hidden"
      <4>1. Life!Move(f, {"hidden"}, "listed")
        BY <2>2, <3>2, <3>3, OneMoves
      <4>2. QED
        BY <2>5, <4>1 DEF Life!Register
    <3>4. CASE ~active /\ Status(f) = "listed"
      <4>1. Life!Move(f, {"listed"}, "hidden")
        BY <2>2, <3>2, <3>4, OneMoves
      <4>2. QED
        BY <2>5, <4>1 DEF Life!Register
    <3>5. QED
      BY <2>4, <3>1, <3>2, <3>3, <3>4
  <2>7. CASE SnapshotsOf(f) = {}
    <3>1. Status(f) \in {"registered", "closing", "abandoned", "closed"}
      BY <2>1, <2>7, Reading
    <3>2. Status(f)' = IF active THEN "registered" ELSE "closed"
      BY <1>1, <1>2, <1>4, <2>3, <2>7, ReadingNext
    <3>3. CASE active /\ Status(f) # "registered"
      <4>1. Life!Move(f, {"unborn", "closed", "closing", "abandoned"}, "registered")
        BY <2>2, <3>1, <3>2, <3>3, OneMoves
      <4>2. QED
        BY <2>5, <4>1 DEF Life!Register
    <3>4. CASE ~active /\ Status(f) # "closed"
      <4>1. Life!Move(f, {"unborn", "registered", "closing", "abandoned"}, "closed")
        BY <2>2, <3>1, <3>2, <3>4, OneMoves
      <4>2. QED
        BY <2>5, <4>1 DEF Life!Register
    <3>5. QED
      BY <2>4, <3>2, <3>3, <3>4
  <2>8. QED
    BY <2>6, <2>7
<1>8. QED
  BY <1>6, <1>7

(* What is left: priorities and stuttering.                                *)
LEMMA PriorityLives ==
    ASSUME LInv, UNCHANGED <<family, famSeq, economic, req, lost>>
    PROVE  LifeStep
<1>1. PICK w \in Workers : TRUE
  BY WorkersAssumption
<1>2. \A f \in FamilyIds : /\ SnapshotsOf(f)' = SnapshotsOf(f)
                           /\ Expects(w, f)' <=> Expects(w, f)
                           /\ CleaningUp(w, f)' <=> CleaningUp(w, f)
  BY DEF SnapshotsOf, Expects, CleaningUp, At
<1>3. \A f \in FamilyIds : Status(f)' = Status(f)
  BY <1>1, <1>2, StaysAsIs
<1>4. QED
  BY <1>3, NoneMoves DEF LifeStep

LEMMA StepLives == LInv /\ [Next]_vars => LifeStep
<1> SUFFICES ASSUME LInv, [Next]_vars PROVE LifeStep
  OBVIOUS
<1>1. CASE \E w \in Workers :
             \/ \E c \in Codes : LookupFamily(w, c)
             \/ \E s \in SnapshotIds : FindSnapshot(w, s)
             \/ \E f \in FamilyIds : FindFamily(w, f)
  BY <1>1, CallsLive
<1>2. CASE \E w \in Workers : Proceed(w)
  BY <1>2, CallsLive, PersistLives, CommitLives, PickLives, EconomicLives,
     DeleteRowLives, DeactivateLives DEF Proceed
<1>3. CASE \E w \in Workers : Abort(w)
  BY <1>3, AbortLives
<1>4. CASE \E c \in Codes, active \in BOOLEAN :
             \/ InsertFamily(c, active)
             \/ \E f \in FamilyIds : OverwriteFamily(f, c, active)
  BY <1>4, RegisterLives
<1>5. CASE \E p \in PriorityIds :
             \/ DeletePriority(p)
             \/ \E s \in SnapshotIds \cup {Null} : SavePriority(p, s)
  BY <1>5, PriorityLives DEF DeletePriority, SavePriority
<1>6. CASE UNCHANGED vars
  BY <1>6, PriorityLives DEF vars
<1>7. QED
  BY <1>1, <1>2, <1>3, <1>4, <1>5, <1>6 DEF Next

(* Only the look-up of addSurveySnapshot makes a row to insert.            *)
LEMMA ActiveInductive == LInv /\ [Next]_vars => NewActive'
<1> SUFFICES ASSUME LInv, [Next]_vars PROVE NewActive'
  OBVIOUS
<1>1. ASSUME NEW w \in Workers, NEW r, Set(w, r),
             r.op = "addSnapshot" /\ r.row # None => r.row.active
      PROVE  NewActive'
  BY <1>1, RequestFacts DEF LInv, NewActive
<1>2. ASSUME NEW w \in Workers, NEW r, Set(w, r),
             r.op = req[w].op, r.row = req[w].row
      PROVE  NewActive'
  BY <1>1, <1>2 DEF LInv, NewActive
<1>3. ASSUME NEW w \in Workers, Finish(w) PROVE NewActive'
  BY <1>1, <1>3 DEF Finish, Idle
<1>4. ASSUME NEW w \in Workers, NEW st, Goto(w, st) PROVE NewActive'
  <2> DEFINE r == [req[w] EXCEPT !.step = st]
  <2>1. r.op = req[w].op /\ r.row = req[w].row
    BY RequestFacts DEF Request
  <2>2. Set(w, r)
    BY <1>4 DEF Goto
  <2> HIDE DEF r
  <2>3. QED
    BY <1>2, <2>1, <2>2
<1>5. ASSUME NEW w \in Workers, NEW c \in Codes, LookupFamily(w, c) PROVE NewActive'
  BY <1>1, <1>5 DEF LookupFamily, Idle
<1>6. ASSUME NEW w \in Workers, NEW s \in SnapshotIds, FindSnapshot(w, s)
      PROVE  NewActive'
  BY <1>1, <1>6 DEF FindSnapshot, Idle
<1>7. ASSUME NEW w \in Workers, NEW f \in FamilyIds, FindFamily(w, f)
      PROVE  NewActive'
  BY <1>1, <1>7 DEF FindFamily, Idle
<1>8. ASSUME NEW w \in Workers,
             PersistNewFamily(w) \/ PersistInFamily(w) \/ ListPriorities(w)
             \/ PickNewest(w)
      PROVE  NewActive'
  <2>1. \A st, f, s, P :
          /\ [req[w] EXCEPT !.step = st, !.family = f, !.snapshot = s].op = req[w].op
          /\ [req[w] EXCEPT !.step = st, !.family = f, !.snapshot = s].row = req[w].row
          /\ [req[w] EXCEPT !.step = st, !.snapshot = s].op = req[w].op
          /\ [req[w] EXCEPT !.step = st, !.snapshot = s].row = req[w].row
          /\ [req[w] EXCEPT !.step = st, !.prios = P].op = req[w].op
          /\ [req[w] EXCEPT !.step = st, !.prios = P].row = req[w].row
    BY RequestFacts DEF Request
  <2>2. CASE PersistNewFamily(w)
    <3> DEFINE r == [req[w] EXCEPT !.step = "commit", !.family = famSeq + 1,
                                   !.snapshot = snapSeq + 1]
    <3>1. r.op = req[w].op /\ r.row = req[w].row
      BY <2>1
    <3>2. Set(w, r)
      BY <2>2 DEF PersistNewFamily
    <3> HIDE DEF r
    <3>3. QED
      BY <1>2, <3>1, <3>2
  <2>3. CASE PersistInFamily(w)
    BY <1>2, <2>1, <2>3 DEF PersistInFamily
  <2>4. CASE ListPriorities(w)
    BY <1>2, <2>1, <2>4 DEF ListPriorities
  <2>5. CASE PickNewest(w)
    BY <1>2, <1>4, <2>1, <2>5 DEF PickNewest
  <2>6. QED
    BY <1>8, <2>2, <2>3, <2>4, <2>5
<1>9. ASSUME NEW w \in Workers,
             CommitSnapshot(w) \/ PurgePriorities(w) \/ DeleteEconomic(w)
             \/ CountRemaining(w) \/ DeleteFamilyRow(w) \/ DeactivateFamily(w)
             \/ Abort(w)
      PROVE  NewActive'
  BY <1>3, <1>4, <1>9 DEF CommitSnapshot, PurgePriorities, DeleteEconomic,
     CountRemaining, DeleteFamilyRow, DeactivateFamily, Abort
<1>10. CASE UNCHANGED req
  BY <1>10 DEF LInv, NewActive
<1>11. QED
  BY <1>5, <1>6, <1>7, <1>8, <1>9, <1>10
     DEF Next, Proceed, InsertFamily, OverwriteFamily, SavePriority, DeletePriority, vars

(* Every behaviour of the calls is, seen from any family, a life of that    *)
(* family: the detailed model implements the abstract one.                  *)
THEOREM FamiliesLiveTheirLives == Spec => LivesItsLife
<1>1. Init => Life!Init /\ NewActive
  <2> SUFFICES ASSUME Init PROVE Life!Init /\ NewActive
    OBVIOUS
  <2>1. NewActive
    BY DEF Init, NewActive, Idle
  <2>2. ASSUME NEW f \in FamilyIds PROVE Status(f) = "unborn"
    <3>1. family[f] = None /\ Unborn(f)
      BY DEF Init, Unborn, FamilyIds
    <3>2. QED
      BY <3>1, Reading
  <2>3. QED
    BY <2>1, <2>2 DEF Init, Life!Init, Stages
<1>2. IInv /\ NewActive /\ [Next]_vars => NewActive' /\ [Life!Next]_<<Stages, lost>>
  BY StepLives, ActiveInductive DEF LInv, LifeStep
<1>3. QED
  BY <1>1, <1>2, Invariance, PTL DEF Spec, LivesItsLife, Life!Spec
=============================================================================
