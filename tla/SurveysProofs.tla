--------------------------- MODULE SurveysProofs ---------------------------
(***************************************************************************)
(* Proofs about Surveys, for every set of attributes with consistent names *)
(* and all schemas, snapshots, threads and ids.                            *)
(***************************************************************************)
EXTENDS Surveys, TLAPS

(* What is true of the tables between the calls of the requests: ids above  *)
(* a sequence are free, a stored survey was checked, and a snapshot about   *)
(* to be inserted was checked against the survey that still has its id.     *)
Pending(w) ==
    /\ ~At(w, "idle") => req[w].survey \in 1 .. survSeq
    /\ At(w, "insert") =>
         /\ Storable(req[w].data) /\ Codeable(req[w].data)
         /\ survey[req[w].survey] # None =>
              Complies(survey[req[w].survey], req[w].data)
Sound ==
    /\ \A s \in SurveyIds : s > survSeq => survey[s] = None
    /\ \A s \in SurveyIds : survey[s] # None => ValidSchema(survey[s])
    /\ \A w \in Workers : Pending(w)
IInv == TypeOK /\ Sound /\ SnapshotsComply /\ PersonIdentified

(* The rows made of answers hold what their columns allow.                 *)
LEMMA RowType ==
    ASSUME NEW s \in SurveyIds, NEW d \in SUBSET Answer
    PROVE  RowOf(s, d) \in Row
<1> DEFINE cols == {b \in Attributes : b.group # "PERSONAL"}
           es(a) == {e \in d : Static(e) /\ a \in Renamed(e)}
           value(a) == IF es(a) = {} THEN Null
                       ELSE Stored(a, (CHOOSE e \in es(a) : TRUE).value)
<1>1. ASSUME NEW a \in cols PROVE value(a) \in Kinds \cup {Null}
  <2>1. CASE es(a) = {}
    BY <2>1
  <2>2. CASE es(a) # {}
    <3>1. (CHOOSE e \in es(a) : TRUE) \in es(a)
      BY <2>2
    <3>2. (CHOOSE e \in es(a) : TRUE).value \in Kinds \cup {Null}
      BY <3>1 DEF Answer
    <3>3. "fraction" \in Kinds
      BY DEF Kinds
    <3> QED
      BY <2>2, <3>2, <3>3 DEF Stored
  <2> QED
    BY <2>1, <2>2
<1>2. [a \in cols |-> value(a)] \in [cols -> Kinds \cup {Null}]
  BY <1>1
<1> HIDE DEF value
<1>3. RowOf(s, d) = [survey |-> s, columns |-> [a \in cols |-> value(a)],
                     extras |-> {e \in d : Additional(e) /\ e.section # "PERSONAL"},
                     personal |-> {e \in d : e.section = "PERSONAL"}]
  BY DEF RowOf, value
<1> QED
  BY <1>2, <1>3 DEF Row

(* Whoever has a family code has its parts in the personal section: each    *)
(* part has one key, and its column takes texts only.                       *)
LEMMA PersonOfRow ==
    ASSUME NEW s \in SurveyIds, NEW d \in SUBSET Answer,
           Storable(d), Codeable(d), NEW a \in CodeParts
    PROVE  \E e \in RowOf(s, d).personal : e.name = a.schema /\ e.value = "text"
<1>1. PICK e \in d : e.section = "PERSONAL" /\ Static(e) /\ a \in Renamed(e)
  BY DEF Codeable
<1>2. PICK b \in Renamed(e) : Fits(b, e.value)
  BY <1>1 DEF Storable
<1>3. a \in Attributes /\ b \in Attributes /\ a.schema = e.name /\ b.schema = e.name
  BY <1>1, <1>2 DEF Renamed
<1>4. a = b /\ a.column = "text"
  BY <1>3, AttributesAssumption
<1>5. e.value = "text"
  BY <1>2, <1>4 DEF Fits
<1>6. e \in RowOf(s, d).personal
  BY <1>1 DEF RowOf
<1> QED
  BY <1>3, <1>5, <1>6

LEMMA InitInv == Init => IInv
<1> SUFFICES ASSUME Init PROVE IInv
  OBVIOUS
<1>1. Idle \in Request
  BY DEF Idle, Request
<1>2. TypeOK
  BY <1>1, BoundsAssumption DEF Init, TypeOK
<1>3. Sound
  BY DEF Init, Sound, Pending, At, Idle
<1>4. SnapshotsComply /\ PersonIdentified
  BY DEF Init, SnapshotsComply, PersonIdentified, Present
<1> QED
  BY <1>2, <1>3, <1>4 DEF IInv

(* The step that matters: the survey cannot have changed since the check,   *)
(* it can only have gone, and then the foreign key refuses the snapshot.    *)
LEMMA InsertInv ==
    ASSUME IInv, NEW w \in Workers, InsertSnapshot(w)
    PROVE  IInv'
<1> DEFINE r == req[w]
           n == snapSeq + 1
<1>1. /\ r \in Request /\ r.survey \in SurveyIds /\ r.data \in SUBSET Answer
      /\ n \in SnapshotIds
  BY BoundsAssumption DEF IInv, TypeOK, Sound, Pending, InsertSnapshot, At,
                          Request, SnapshotIds, SurveyIds
<1>2. RowOf(r.survey, r.data) \in Row
  BY <1>1, RowType
<1>3. RowOf(r.survey, r.data).survey = r.survey
  BY DEF RowOf
<1>4. req' = [req EXCEPT ![w] = Idle] /\ Idle \in Request
  BY DEF InsertSnapshot, Finish, Set, Idle, Request
<1>5. TypeOK'
  <2>1. snapshot' \in [SnapshotIds -> Row \cup {None}]
    BY <1>1, <1>2 DEF IInv, TypeOK, InsertSnapshot
  <2>2. sent' \in [SnapshotIds -> SUBSET Answer]
    BY <1>1 DEF IInv, TypeOK, InsertSnapshot
  <2>3. snapSeq' \in 0 .. MaxSnapshots
    BY BoundsAssumption DEF IInv, TypeOK, InsertSnapshot
  <2> QED
    BY <1>4, <2>1, <2>2, <2>3 DEF IInv, TypeOK, InsertSnapshot
<1>6. Sound'
  BY <1>4 DEF IInv, TypeOK, Sound, Pending, At, InsertSnapshot, Idle
<1>7. CASE survey[r.survey] = None
  <2>1. UNCHANGED <<survey, snapshot, sent>>
    BY <1>7 DEF InsertSnapshot
  <2> QED
    BY <1>5, <1>6, <2>1 DEF IInv, SnapshotsComply, PersonIdentified, Present
<1>8. CASE survey[r.survey] # None
  <2>1. /\ snapshot' = [snapshot EXCEPT ![n] = RowOf(r.survey, r.data)]
        /\ sent' = [sent EXCEPT ![n] = r.data]
        /\ UNCHANGED survey
    BY <1>8 DEF InsertSnapshot
  <2>2. \A m \in SnapshotIds \ {n} : snapshot'[m] = snapshot[m] /\ sent'[m] = sent[m]
    BY <2>1 DEF IInv, TypeOK
  <2>3. snapshot'[n] = RowOf(r.survey, r.data) /\ sent'[n] = r.data
    BY <1>1, <2>1 DEF IInv, TypeOK
  <2>4. Storable(r.data) /\ Codeable(r.data) /\ Complies(survey[r.survey], r.data)
        /\ ValidSchema(survey[r.survey])
    BY <1>1, <1>8 DEF IInv, Sound, Pending, InsertSnapshot
  <2>5. SnapshotsComply'
    <3> SUFFICES ASSUME NEW m \in Present'
                 PROVE  /\ survey[snapshot'[m].survey] # None
                        /\ ValidSchema(survey[snapshot'[m].survey])
                        /\ Complies(survey[snapshot'[m].survey], sent'[m])
      BY <2>1 DEF SnapshotsComply
    <3>1. CASE m = n
      BY <3>1, <2>3, <2>4, <1>3, <1>8
    <3>2. CASE m # n
      <4>1. m \in Present
        BY <2>2, <3>2 DEF Present
      <4> QED
        BY <4>1, <2>2, <3>2 DEF IInv, SnapshotsComply, Present
    <3> QED
      BY <3>1, <3>2
  <2>6. PersonIdentified'
    <3> SUFFICES ASSUME NEW m \in Present', NEW a \in CodeParts
                 PROVE  \E e \in snapshot'[m].personal :
                            e.name = a.schema /\ e.value = "text"
      BY DEF PersonIdentified
    <3>1. CASE m = n
      BY <3>1, <2>3, <2>4, <1>1, PersonOfRow
    <3>2. CASE m # n
      <4>1. m \in Present
        BY <2>2, <3>2 DEF Present
      <4> QED
        BY <4>1, <2>2, <3>2 DEF IInv, PersonIdentified, Present
    <3> QED
      BY <3>1, <3>2
  <2> QED
    BY <1>5, <1>6, <2>5, <2>6 DEF IInv
<1> QED
  BY <1>7, <1>8

(* A deletion that leaves the snapshots alone removes a survey no snapshot  *)
(* refers to, and nobody gets its id.                                       *)
LEMMA DeleteSurveyInv ==
    ASSUME IInv, NEW w \in Workers, DeleteSurvey(w)
    PROVE  IInv'
<1> DEFINE s == req[w].survey
<1>1. s \in SurveyIds
  <2>1. s \in 1 .. survSeq
    BY DEF IInv, Sound, Pending, DeleteSurvey, At
  <2>2. survSeq \in 0 .. MaxSurveys
    BY DEF IInv, TypeOK
  <2> QED
    BY <2>1, <2>2, BoundsAssumption DEF SurveyIds
<1>2. req' = [req EXCEPT ![w] = Idle] /\ Idle \in Request
  BY DEF DeleteSurvey, Finish, Set, Idle, Request
<1>3. TypeOK'
  BY <1>1, <1>2 DEF IInv, TypeOK, DeleteSurvey
<1>4. \A t \in SurveyIds : survey'[t] \in {survey[t], None}
  BY DEF IInv, TypeOK, DeleteSurvey
<1>5. Sound'
  <2>1. \A t \in SurveyIds : t > survSeq' => survey'[t] = None
    BY <1>4 DEF IInv, Sound, DeleteSurvey
  <2>2. \A t \in SurveyIds : survey'[t] # None => ValidSchema(survey'[t])
    BY <1>4 DEF IInv, Sound
  <2>3. ASSUME NEW v \in Workers PROVE Pending(v)'
    <3>1. CASE v = w
      BY <3>1, <1>2 DEF IInv, TypeOK, Pending, At, Idle
    <3>2. CASE v # w
      <4>1. req'[v] = req[v] /\ survSeq' = survSeq
        BY <1>2, <3>2 DEF IInv, TypeOK, DeleteSurvey
      <4>2. Pending(v)
        BY DEF IInv, Sound
      <4>3. ~At(v, "idle") => req[v].survey \in SurveyIds
        BY <4>2, BoundsAssumption DEF Pending, IInv, TypeOK, SurveyIds
      <4>4. At(v, "insert") => ~At(v, "idle")
        BY DEF At
      <4> QED
        BY <4>1, <4>2, <4>3, <4>4, <1>4 DEF Pending, At
    <3> QED
      BY <3>1, <3>2
  <2> QED
    BY <2>1, <2>2, <2>3 DEF Sound
<1>6. \A n \in Present : snapshot[n].survey \in SurveyIds
  BY DEF IInv, TypeOK, Present, Row
<1>7. \A n \in Present : survey'[snapshot[n].survey] = survey[snapshot[n].survey]
  <2> SUFFICES ASSUME NEW n \in Present
               PROVE  survey'[snapshot[n].survey] = survey[snapshot[n].survey]
    OBVIOUS
  <2>1. CASE Unreferenced(s)
    <3>1. snapshot[n].survey # s
      BY <2>1 DEF Unreferenced, Present
    <3> QED
      BY <3>1, <1>6 DEF IInv, TypeOK, DeleteSurvey
  <2>2. CASE ~Unreferenced(s)
    BY <2>2 DEF DeleteSurvey
  <2> QED
    BY <2>1, <2>2
<1>8. UNCHANGED <<snapshot, sent>> /\ Present' = Present
  BY DEF DeleteSurvey, Present
<1>9. SnapshotsComply'
  BY <1>7, <1>8 DEF IInv, SnapshotsComply
<1>10. PersonIdentified'
  BY <1>8 DEF IInv, PersonIdentified
<1> QED
  BY <1>3, <1>5, <1>9, <1>10 DEF IInv

LEMMA AddSurveyInv ==
    ASSUME IInv, NEW c \in Schemas, AddSurveyDefinition(c)
    PROVE  IInv'
<1> DEFINE s == survSeq + 1
<1>1. s \in SurveyIds /\ survSeq \in Nat /\ survSeq' = s
  BY BoundsAssumption DEF IInv, TypeOK, AddSurveyDefinition, SurveyIds
<1>2. c \in Schema /\ c # None
  BY InputsAssumption, SentinelAssumption
<1>3. /\ survey' = [survey EXCEPT ![s] = c] /\ ValidSchema(c)
      /\ UNCHANGED <<snapshot, snapSeq, req, sent>>
  BY DEF AddSurveyDefinition
<1>4. survey[s] = None
  BY <1>1 DEF IInv, Sound
<1>5. TypeOK'
  BY <1>1, <1>2, <1>3, BoundsAssumption DEF IInv, TypeOK, AddSurveyDefinition
<1>6. \A t \in SurveyIds \ {s} : survey'[t] = survey[t]
  BY <1>3 DEF IInv, TypeOK
<1>7. survey'[s] = c
  BY <1>1, <1>3 DEF IInv, TypeOK
<1>8. Sound'
  <2>1. \A t \in SurveyIds : t > survSeq' => survey'[t] = None
    BY <1>1, <1>6 DEF IInv, Sound, SurveyIds
  <2>2. \A t \in SurveyIds : survey'[t] # None => ValidSchema(survey'[t])
    BY <1>3, <1>6, <1>7 DEF IInv, Sound
  <2>3. ASSUME NEW v \in Workers PROVE Pending(v)'
    <3>1. Pending(v) /\ req' = req
      BY <1>3 DEF IInv, Sound
    <3>2. ~At(v, "idle") => req[v].survey \in SurveyIds \ {s}
      BY <3>1, <1>1, BoundsAssumption DEF Pending, IInv, TypeOK, SurveyIds
    <3>3. At(v, "insert") => ~At(v, "idle")
      BY DEF At
    <3>4. ~At(v, "idle") => req[v].survey \in 1 .. survSeq'
      BY <3>1, <1>1 DEF Pending
    <3> QED
      BY <3>1, <3>2, <3>3, <3>4, <1>6 DEF Pending, At
  <2> QED
    BY <2>1, <2>2, <2>3 DEF Sound
<1>9. \A n \in Present : snapshot[n].survey \in SurveyIds \ {s}
  <2> SUFFICES ASSUME NEW n \in Present PROVE snapshot[n].survey \in SurveyIds \ {s}
    OBVIOUS
  <2>1. snapshot[n] \in Row
    BY DEF IInv, TypeOK, Present
  <2>2. survey[snapshot[n].survey] # None
    BY DEF IInv, SnapshotsComply
  <2> QED
    BY <1>4, <2>1, <2>2 DEF Row
<1>10. SnapshotsComply'
  <2>1. Present' = Present
    BY <1>3 DEF Present
  <2> QED
    BY <1>3, <1>6, <1>9, <2>1 DEF IInv, SnapshotsComply
<1>11. PersonIdentified'
  BY <1>3 DEF IInv, PersonIdentified, Present
<1> QED
  BY <1>5, <1>8, <1>10, <1>11 DEF IInv

(* The steps that only change what a request remembers.                    *)
LEMMA RequestInv ==
    ASSUME IInv, NEW w \in Workers, NEW r \in Request,
           Set(w, r), UNCHANGED <<survey, survSeq, snapshot, snapSeq, sent>>,
           r.step # "idle" => r.survey \in 1 .. survSeq,
           r.step = "insert" => /\ Storable(r.data) /\ Codeable(r.data)
                                /\ Complies(survey[r.survey], r.data)
    PROVE  IInv'
<1>1. req' = [req EXCEPT ![w] = r] /\ req \in [Workers -> Request]
  BY DEF Set, IInv, TypeOK
<1>2. TypeOK'
  BY <1>1 DEF IInv, TypeOK
<1>3. ASSUME NEW v \in Workers PROVE Pending(v)'
  <2>1. CASE v = w
    BY <1>1, <2>1 DEF Pending, At
  <2>2. CASE v # w
    BY <1>1, <2>2 DEF IInv, Sound, Pending, At
  <2> QED
    BY <2>1, <2>2
<1>4. Sound'
  BY <1>3 DEF IInv, Sound
<1>5. SnapshotsComply' /\ PersonIdentified'
  BY DEF IInv, SnapshotsComply, PersonIdentified, Present
<1> QED
  BY <1>2, <1>4, <1>5 DEF IInv

LEMMA DeleteSnapshotInv ==
    ASSUME IInv, NEW n \in SnapshotIds, DeleteSnapshot(n)
    PROVE  IInv'
<1>1. TypeOK' /\ Sound'
  BY DEF IInv, TypeOK, Sound, Pending, At, DeleteSnapshot
<1>2. /\ Present' \subseteq Present
      /\ \A m \in Present' : snapshot'[m] = snapshot[m]
      /\ UNCHANGED <<survey, sent>>
  BY DEF IInv, TypeOK, DeleteSnapshot, Present
<1>3. SnapshotsComply' /\ PersonIdentified'
  BY <1>2 DEF IInv, SnapshotsComply, PersonIdentified
<1> QED
  BY <1>1, <1>3 DEF IInv

LEMMA NextInv == IInv /\ [Next]_vars => IInv'
<1> SUFFICES ASSUME IInv, [Next]_vars PROVE IInv'
  OBVIOUS
<1>1. Idle \in Request /\ Idle.step = "idle"
  BY DEF Idle, Request
<1>2. ASSUME NEW c \in Schemas, AddSurveyDefinition(c) PROVE IInv'
  BY <1>2, AddSurveyInv
<1>3. ASSUME NEW w \in Workers, NEW s \in SurveyIds, FindSurvey(w, s)
      PROVE  IInv'
  <2> DEFINE r == [Idle EXCEPT !.step = "delete", !.survey = s]
  <2>1. r \in Request /\ r.step = "delete" /\ r.survey = s
    BY DEF Idle, Request
  <2>2. s \in 1 .. survSeq
    BY <1>3, BoundsAssumption DEF IInv, TypeOK, Sound, FindSurvey, SurveyIds
  <2> QED
    BY <1>3, <2>1, <2>2, RequestInv DEF FindSurvey
<1>4. ASSUME NEW w \in Workers, DeleteSurvey(w) PROVE IInv'
  BY <1>4, DeleteSurveyInv
<1>5. ASSUME NEW w \in Workers, NEW s \in SurveyIds, NEW d \in Submissions,
             CheckSnapshot(w, s, d)
      PROVE  IInv'
  <2> DEFINE r == [step |-> "insert", survey |-> s, data |-> d]
  <2>1. r \in Request
    BY InputsAssumption DEF Request
  <2>2. s \in 1 .. survSeq
    BY <1>5, BoundsAssumption DEF IInv, TypeOK, Sound, CheckSnapshot, SurveyIds
  <2> QED
    BY <1>5, <2>1, <2>2, RequestInv DEF CheckSnapshot
<1>6. ASSUME NEW w \in Workers, InsertSnapshot(w) PROVE IInv'
  BY <1>6, InsertInv
<1>7. ASSUME NEW w \in Workers, Abort(w) PROVE IInv'
  BY <1>1, <1>7, RequestInv DEF Abort, Finish
<1>8. ASSUME NEW n \in SnapshotIds, DeleteSnapshot(n) PROVE IInv'
  BY <1>8, DeleteSnapshotInv
<1>9. CASE UNCHANGED vars
  BY <1>9 DEF vars, IInv, TypeOK, Sound, Pending, At, SnapshotsComply,
              PersonIdentified, Present
<1> QED
  BY <1>2, <1>3, <1>4, <1>5, <1>6, <1>7, <1>8, <1>9
     DEF Next, RejectSurveyDefinition

LEMMA Invariance == Spec => []IInv
<1>1. Init => IInv
  BY InitInv
<1>2. IInv /\ [Next]_vars => IInv'
  BY NextInv
<1> QED
  BY <1>1, <1>2, PTL DEF Spec

(* Tables and requests keep their types, for any attributes and surveys.   *)
THEOREM TypeCorrect == Spec => []TypeOK
<1>1. IInv => TypeOK
  BY DEF IInv
<1> QED
  BY <1>1, Invariance, PTL

(* The survey of a stored snapshot is there and is complied with, however   *)
(* the requests that check, insert and delete interleave.                   *)
THEOREM ComplianceKept == Spec => []SnapshotsComply
<1>1. IInv => SnapshotsComply
  BY DEF IInv
<1> QED
  BY <1>1, Invariance, PTL

(* Every stored snapshot has the parts of the family code in its personal   *)
(* section, although compliance would take them from any section.           *)
THEOREM PersonsIdentified == Spec => []PersonIdentified
<1>1. IInv => PersonIdentified
  BY DEF IInv
<1> QED
  BY <1>1, Invariance, PTL

-----------------------------------------------------------------------------
\* Rows and requests are made of submissions.
Faithful ==
    /\ \A n \in Present : /\ sent[n] \in Submissions /\ Storable(sent[n])
                          /\ snapshot[n] = RowOf(snapshot[n].survey, sent[n])
    /\ \A w \in Workers : At(w, "insert") => req[w].data \in Submissions

LEMMA FaithfulInductive == IInv /\ Faithful /\ [Next]_vars => Faithful'
<1> SUFFICES ASSUME IInv, Faithful, [Next]_vars PROVE Faithful'
  OBVIOUS
<1>1. ASSUME \A n \in SnapshotIds : snapshot'[n] = snapshot[n] \/ snapshot'[n] = None,
             UNCHANGED sent,
             \A w \in Workers : At(w, "insert")' =>
                 req'[w] = req[w] \/ req'[w].data \in Submissions
      PROVE  Faithful'
  <2>1. \A n \in Present' : n \in Present /\ snapshot'[n] = snapshot[n]
    BY <1>1 DEF Present
  <2>2. \A w \in Workers : At(w, "insert")' => req'[w].data \in Submissions
    BY <1>1 DEF Faithful, At
  <2>3. QED
    BY <1>1, <2>1, <2>2 DEF Faithful
<1>2. ASSUME NEW w \in Workers, NEW r, Set(w, r),
             r.step = "insert" => r.data \in Submissions
      PROVE  \A v \in Workers : At(v, "insert")' =>
                 req'[v] = req[v] \/ req'[v].data \in Submissions
  BY <1>2 DEF IInv, TypeOK, Set, At
<1>3. Idle.step = "idle"
  BY DEF Idle
<1>4. ASSUME NEW w \in Workers, Finish(w)
      PROVE  \A v \in Workers : At(v, "insert")' =>
                 req'[v] = req[v] \/ req'[v].data \in Submissions
  BY <1>2, <1>3, <1>4 DEF Finish
<1>5. ASSUME NEW w \in Workers, NEW s \in SurveyIds, NEW d \in Submissions,
             CheckSnapshot(w, s, d)
      PROVE  Faithful'
  <2> DEFINE r == [step |-> "insert", survey |-> s, data |-> d]
  <2>1. Set(w, r) /\ r.data = d
    BY <1>5 DEF CheckSnapshot
  <2> HIDE DEF r
  <2>2. QED
    BY <1>1, <1>2, <1>5, <2>1 DEF CheckSnapshot
<1>6. ASSUME NEW w \in Workers, InsertSnapshot(w) PROVE Faithful'
  <2>1. CASE survey[req[w].survey] = None
    BY <1>1, <1>4, <1>6, <2>1 DEF InsertSnapshot
  <2>2. CASE survey[req[w].survey] # None
    <3>1. PICK t, d : t = req[w].survey /\ d = req[w].data
      OBVIOUS
    <3>2. /\ snapshot' = [snapshot EXCEPT ![snapSeq + 1] = RowOf(t, d)]
          /\ sent' = [sent EXCEPT ![snapSeq + 1] = d]
          /\ Finish(w) /\ At(w, "insert")
      BY <1>6, <2>2, <3>1 DEF InsertSnapshot
    <3>3. d \in Submissions /\ Storable(d)
      BY <3>1, <3>2 DEF IInv, Sound, Pending, Faithful
    <3>4. \A v \in Workers : At(v, "insert")' => req'[v].data \in Submissions
      BY <1>4, <3>2 DEF Faithful, At
    <3>5. snapSeq + 1 \in SnapshotIds
      BY <1>6, BoundsAssumption DEF IInv, TypeOK, InsertSnapshot, SnapshotIds
    <3>6. /\ snapshot'[snapSeq + 1] = RowOf(t, d) /\ sent'[snapSeq + 1] = d
          /\ \A n \in SnapshotIds : n # snapSeq + 1 =>
               snapshot'[n] = snapshot[n] /\ sent'[n] = sent[n]
      BY <3>2, <3>5 DEF IInv, TypeOK
    <3>7. RowOf(t, d).survey = t
      BY DEF RowOf
    <3>8. ASSUME NEW n \in Present'
          PROVE  /\ sent'[n] \in Submissions /\ Storable(sent'[n])
                 /\ snapshot'[n] = RowOf(snapshot'[n].survey, sent'[n])
      <4>1. CASE n = snapSeq + 1
        BY <3>3, <3>6, <3>7, <4>1
      <4>2. CASE n # snapSeq + 1
        BY <3>6, <4>2 DEF Faithful, Present
      <4>3. QED
        BY <4>1, <4>2
    <3>9. QED
      BY <3>4, <3>8 DEF Faithful
  <2>3. QED
    BY <2>1, <2>2
<1>7. ASSUME NEW w \in Workers, NEW s \in SurveyIds, FindSurvey(w, s) PROVE Faithful'
  <2> DEFINE r == [Idle EXCEPT !.step = "delete", !.survey = s]
  <2>1. Set(w, r) /\ r.step = "delete"
    BY <1>7 DEF FindSurvey, Idle
  <2> HIDE DEF r
  <2>2. QED
    BY <1>1, <1>2, <1>7, <2>1 DEF FindSurvey
<1>8. ASSUME NEW w \in Workers, DeleteSurvey(w) \/ Abort(w) PROVE Faithful'
  BY <1>1, <1>4, <1>8 DEF DeleteSurvey, Abort
<1>9. ASSUME NEW n \in SnapshotIds, DeleteSnapshot(n) PROVE Faithful'
  <2>1. \A m \in SnapshotIds : snapshot'[m] = snapshot[m] \/ snapshot'[m] = None
    BY <1>9 DEF IInv, TypeOK, DeleteSnapshot
  <2>2. QED
    BY <1>1, <1>9, <2>1 DEF DeleteSnapshot
<1>10. ASSUME UNCHANGED <<snapshot, sent, req>> PROVE Faithful'
  BY <1>1, <1>10
<1>11. QED
  BY <1>5, <1>6, <1>7, <1>8, <1>9, <1>10
     DEF Next, AddSurveyDefinition, RejectSurveyDefinition, vars

(* A key is the system name or the schema name of one attribute at most, so *)
(* the answer that fills a column is the only one and came in the section   *)
(* of the column's group.                                                  *)
LEMMA ColumnOfRow ==
    ASSUME NEW s, NEW d \in Submissions, Storable(d),
           NEW a \in Attributes, a.group # "PERSONAL"
    PROVE  /\ RowOf(s, d).columns[a] # Null =>
                \E e \in d : /\ e.name = a.schema /\ e.section = a.group
                             /\ a \in Renamed(e)
                             /\ RowOf(s, d).columns[a] = Stored(a, e.value)
           /\ \A e \in d : Static(e) /\ a \in Renamed(e) =>
                RowOf(s, d).columns[a] = Stored(a, e.value)
<1> DEFINE es == {e \in d : Static(e) /\ a \in Renamed(e)}
<1>1. RowOf(s, d).columns[a] = IF es = {} THEN Null
                               ELSE Stored(a, (CHOOSE e \in es : TRUE).value)
  BY DEF RowOf
<1>2. ASSUME NEW e \in es PROVE e.name = a.schema /\ e.section = a.group
  <2>1. e.name = a.schema
    BY DEF Renamed
  <2>2. PICK c \in Attributes : c.system = e.name /\ c.group = e.section
    BY DEF Static
  <2>3. c = a
    BY <2>1, <2>2, AttributesAssumption
  <2>4. QED
    BY <2>1, <2>2, <2>3
<1>3. \A e, f \in es : e = f
  BY <1>2, InputsAssumption
<1>4. CASE es = {}
  BY <1>1, <1>4
<1>5. CASE es # {}
  <2>1. PICK e \in es : TRUE
    BY <1>5
  <2>2. (CHOOSE f \in es : TRUE) = e
    BY <1>3, <2>1
  <2>3. RowOf(s, d).columns[a] = Stored(a, e.value)
    BY <1>1, <1>5, <2>2
  <2>4. e.name = a.schema /\ e.section = a.group /\ e \in d /\ a \in Renamed(e)
    BY <1>2
  <2>5. \A f \in d : Static(f) /\ a \in Renamed(f) => f = e
    BY <1>3
  <2>6. QED
    BY <2>3, <2>4, <2>5
<1>6. QED
  BY <1>4, <1>5

\* What AnswersReadBack asks of one snapshot and one group.
ReadsBack(d, r, g) ==
    LET back == ReadBack(r, g)
        own == {e \in d : e.section = g /\ \A a \in Attributes :
                  e.name \in {a.schema, a.system} => a.group = g}
    IN  /\ \A e \in own : \E f \in back : Same(e, f)
        /\ \A f \in back : f.value # Null => \E e \in d : e.section = g /\ Same(e, f)
        /\ \A f, h \in back : f.name = h.name => f = h

(* Dealing the answers out and putting them together again loses, changes   *)
(* and adds none.                                                           *)
THEOREM RowReadsBack ==
    ASSUME NEW s, NEW d \in Submissions, Storable(d), NEW g \in {"ECONOMIC", "INDICATOR"}
    PROVE  ReadsBack(d, RowOf(s, d), g)
<1> DEFINE r == RowOf(s, d)
           extras == {e \in r.extras : e.section = g}
           column(a) == [section |-> g, name |-> a.schema, value |-> r.columns[a]]
           shown == {b \in Attributes : b.group = g /\ \A e \in extras : e.name # b.schema}
           back == extras \cup {column(a) : a \in shown}
           own == {e \in d : e.section = g /\ \A a \in Attributes :
                     e.name \in {a.schema, a.system} => a.group = g}
<1>1. ReadBack(r, g) = back
  BY DEF ReadBack
<1>2. extras = {e \in d : Additional(e) /\ e.section = g}
  BY DEF RowOf
<1>3. g # "PERSONAL"
  OBVIOUS
<1>4. ASSUME NEW e \in own PROVE \E f \in back : Same(e, f)
  <2>1. CASE Additional(e)
    <3>1. e \in back
      BY <1>2, <2>1
    <3>2. QED
      BY <3>1 DEF Same
  <2>2. CASE ~Additional(e)
    <3>1. PICK a \in Attributes : a.system = e.name
      BY <2>2 DEF Additional
    <3>2. a.group = g /\ Static(e)
      BY <3>1 DEF Static
    <3>3. PICK b \in Renamed(e) : TRUE
      BY <3>2 DEF Storable
    <3>4. a \in Renamed(e)
      BY <3>1, <3>3, AttributesAssumption DEF Renamed
    <3>5. a.schema = e.name
      BY <3>4 DEF Renamed
    <3>6. r.columns[a] = Stored(a, e.value)
      BY <1>3, <3>2, <3>4, ColumnOfRow
    <3>7. \A x \in extras : x.name # a.schema
      BY <1>2, <3>1, <3>5 DEF Additional
    <3>8. column(a) \in back
      BY <3>2, <3>7
    <3>9. Same(e, column(a))
      BY <3>4, <3>5, <3>6 DEF Same
    <3>10. QED
      BY <3>8, <3>9
  <2>3. QED
    BY <2>1, <2>2
<1>5. ASSUME NEW f \in back, f.value # Null PROVE \E e \in d : e.section = g /\ Same(e, f)
  <2>1. CASE f \in extras
    BY <1>2, <2>1 DEF Same
  <2>2. CASE f \notin extras
    <3>1. PICK a \in shown : f = column(a)
      BY <2>2
    <3>2. a \in Attributes /\ a.group = g /\ r.columns[a] # Null
      BY <1>5, <3>1
    <3>3. PICK e \in d : /\ e.name = a.schema /\ e.section = a.group
                         /\ a \in Renamed(e) /\ r.columns[a] = Stored(a, e.value)
      BY <1>3, <3>2, ColumnOfRow
    <3>4. Same(e, f)
      BY <3>1, <3>3 DEF Same
    <3>5. QED
      BY <3>2, <3>3, <3>4
  <2>3. QED
    BY <2>1, <2>2
<1>6. ASSUME NEW f \in back, NEW h \in back, f.name = h.name PROVE f = h
  <2>1. CASE f \in extras /\ h \in extras
    BY <1>2, <1>6, <2>1, InputsAssumption
  <2>2. ASSUME NEW x \in extras, NEW a \in shown PROVE x.name # column(a).name
    OBVIOUS
  <2>3. ASSUME NEW a \in shown, NEW b \in shown, column(a).name = column(b).name
        PROVE  a = b
    BY <2>3, AttributesAssumption
  <2>4. QED
    BY <1>6, <2>1, <2>2, <2>3
<1>7. QED
  BY <1>1, <1>4, <1>5, <1>6 DEF ReadsBack

(* What was sent where it belongs is read back, once and unchanged, for any *)
(* attributes with consistent names and any snapshots.                      *)
THEOREM AnswersKept == Spec => []AnswersReadBack
<1>1. Init => Faithful
  BY DEF Init, Faithful, Present, At, Idle
<1>2. IInv /\ Faithful /\ [Next]_vars => Faithful'
  BY FaithfulInductive
<1>3. Faithful => AnswersReadBack
  <2> SUFFICES ASSUME Faithful, NEW n \in Present, NEW g \in {"ECONOMIC", "INDICATOR"}
               PROVE  ReadsBack(sent[n], snapshot[n], g)
    BY DEF AnswersReadBack, ReadsBack
  <2>1. PICK d, t : /\ d \in Submissions /\ d = sent[n] /\ Storable(d)
                    /\ snapshot[n] = RowOf(t, d)
    BY DEF Faithful
  <2>2. QED
    BY <2>1, RowReadsBack
<1>4. QED
  BY <1>1, <1>2, <1>3, Invariance, PTL DEF Spec

-----------------------------------------------------------------------------
\* Surveys are posted ones.
Posted == \A s \in SurveyIds : survey[s] # None => survey[s] \in Schemas
LInv == IInv /\ Faithful /\ Posted

LedgerStep ==
    Ledger!Next \/ UNCHANGED <<survey, Submitted, 1 .. survSeq, 1 .. snapSeq>>

LEMMA PostedInductive == IInv /\ Posted /\ [Next]_vars => Posted'
<1> SUFFICES ASSUME IInv, Posted, [Next]_vars PROVE Posted'
  OBVIOUS
<1>1. ASSUME NEW c \in Schemas, AddSurveyDefinition(c) PROVE Posted'
  BY <1>1 DEF IInv, TypeOK, Posted, AddSurveyDefinition
<1>2. ASSUME NEW w \in Workers, DeleteSurvey(w) PROVE Posted'
  BY <1>2 DEF IInv, TypeOK, Posted, DeleteSurvey
<1>3. CASE UNCHANGED survey
  BY <1>3 DEF Posted
<1>4. QED
  BY <1>1, <1>2, <1>3 DEF Next, RejectSurveyDefinition, FindSurvey, CheckSnapshot,
     InsertSnapshot, Abort, DeleteSnapshot, vars

(* The insert is the instant of the submission: the survey it was checked   *)
(* against is still the one under its id, or there is none and the foreign  *)
(* key refuses it.                                                          *)
LEMMA InsertSubmits ==
    ASSUME LInv, NEW w \in Workers, InsertSnapshot(w)
    PROVE  LedgerStep
<1> DEFINE n == snapSeq + 1
           drawn == 1 .. snapSeq
<1>1. PICK s, d : s = req[w].survey /\ d = req[w].data
  OBVIOUS
<1>2. /\ s \in SurveyIds /\ d \in Submissions
      /\ Storable(d) /\ Codeable(d)
      /\ survey[s] # None => Complies(survey[s], d)
  BY <1>1, BoundsAssumption DEF LInv, IInv, TypeOK, Sound, Pending, Faithful,
     InsertSnapshot, At, SurveyIds
<1>3. n \in SnapshotIds /\ n \notin drawn /\ (1 .. snapSeq') = drawn \cup {n}
  BY BoundsAssumption DEF LInv, IInv, TypeOK, InsertSnapshot, SnapshotIds
<1>4. Ledger!Draw(n)
  BY <1>3 DEF Ledger!Draw, InsertSnapshot
<1>5. CASE survey[s] = None
  <2>1. UNCHANGED Submitted
    BY <1>1, <1>5 DEF InsertSnapshot, Submitted
  <2>2. Ledger!Refuse(n)
    BY <1>4, <2>1 DEF Ledger!Refuse
  <2>3. QED
    BY <1>3, <2>2 DEF LedgerStep, Ledger!Next
<1>6. CASE survey[s] # None
  <2>1. survey[s] \in DOMAIN Accepted /\ d \in Accepted[survey[s]]
    BY <1>2, <1>6 DEF LInv, IInv, Posted, Sound, Accepted
  <2>2. /\ snapshot' = [snapshot EXCEPT ![n] = RowOf(s, d)]
        /\ sent' = [sent EXCEPT ![n] = d]
    BY <1>1, <1>6 DEF InsertSnapshot
  <2>3. RowOf(s, d).survey = s /\ RowOf(s, d) # None
    <3>1. d \in SUBSET Answer
      BY <1>2, InputsAssumption
    <3>2. RowOf(s, d) \in Row
      BY <1>2, <3>1, RowType
    <3>3. QED
      BY <3>2, SentinelAssumption DEF RowOf
  <2>4. Submitted' = [Submitted EXCEPT ![n] = [survey |-> s, data |-> d]]
    <3>1. \A m \in SnapshotIds :
            Submitted'[m] = IF m = n THEN [survey |-> s, data |-> d] ELSE Submitted[m]
      BY <2>2, <2>3 DEF Submitted, LInv, IInv, TypeOK
    <3>2. QED
      BY <3>1 DEF Submitted
  <2>5. Ledger!Submit(n, s, d)
    BY <1>4, <1>6, <2>1, <2>4 DEF Ledger!Submit
  <2>6. QED
    BY <1>2, <1>3, <2>1, <2>5 DEF LedgerStep, Ledger!Next
<1>7. QED
  BY <1>5, <1>6

(* Every step is a step of the ledger or leaves it alone.                   *)
LEMMA StepKeepsLedger == LInv /\ [Next]_vars => LedgerStep
<1> SUFFICES ASSUME LInv, [Next]_vars PROVE LedgerStep
  OBVIOUS
<1>1. ASSUME NEW c \in Schemas, AddSurveyDefinition(c) PROVE LedgerStep
  <2> DEFINE s == survSeq + 1
             drawn == 1 .. survSeq
  <2>1. s \in SurveyIds /\ s \notin drawn /\ (1 .. survSeq') = drawn \cup {s}
    BY <1>1, BoundsAssumption DEF LInv, IInv, TypeOK, AddSurveyDefinition, SurveyIds
  <2>2. UNCHANGED <<Submitted, 1 .. snapSeq>>
    BY <1>1 DEF AddSurveyDefinition, Submitted
  <2>3. Ledger!Define(s, c)
    BY <1>1, <2>1, <2>2 DEF AddSurveyDefinition, Ledger!Define
  <2>4. c \in DOMAIN Accepted
    BY <1>1 DEF AddSurveyDefinition, Accepted
  <2>5. QED
    BY <2>1, <2>3, <2>4 DEF LedgerStep, Ledger!Next
<1>2. ASSUME NEW w \in Workers, DeleteSurvey(w) PROVE LedgerStep
  <2> DEFINE s == req[w].survey
  <2>1. UNCHANGED <<Submitted, 1 .. survSeq, 1 .. snapSeq>>
    BY <1>2 DEF DeleteSurvey, Submitted
  <2>2. s \in SurveyIds
    BY <1>2, BoundsAssumption DEF LInv, IInv, TypeOK, Sound, Pending, DeleteSurvey,
       At, SurveyIds
  <2>3. CASE Unreferenced(s)
    <3>1. \A n \in SnapshotIds : Submitted[n] # None => Submitted[n].survey # s
      BY <2>3 DEF Unreferenced, Submitted
    <3>2. Ledger!Withdraw(s)
      BY <1>2, <2>1, <2>3, <3>1 DEF DeleteSurvey, Ledger!Withdraw
    <3>3. QED
      BY <2>2, <3>2 DEF LedgerStep, Ledger!Next
  <2>4. CASE ~Unreferenced(s)
    BY <1>2, <2>1, <2>4 DEF DeleteSurvey, LedgerStep
  <2>5. QED
    BY <2>3, <2>4
<1>3. ASSUME NEW w \in Workers, InsertSnapshot(w) PROVE LedgerStep
  BY <1>3, InsertSubmits
<1>4. ASSUME NEW n \in SnapshotIds, DeleteSnapshot(n) PROVE LedgerStep
  <2>1. Submitted' = [Submitted EXCEPT ![n] = None]
    <3>1. \A m \in SnapshotIds : Submitted'[m] = IF m = n THEN None ELSE Submitted[m]
      BY <1>4 DEF LInv, IInv, TypeOK, DeleteSnapshot, Submitted
    <3>2. QED
      BY <3>1 DEF Submitted
  <2>2. Ledger!Remove(n)
    BY <1>4, <2>1 DEF DeleteSnapshot, Ledger!Remove
  <2>3. QED
    BY <2>2 DEF LedgerStep, Ledger!Next
<1>5. CASE UNCHANGED <<survey, survSeq, snapshot, snapSeq, sent>>
  BY <1>5 DEF LedgerStep, Submitted
<1>6. QED
  BY <1>1, <1>2, <1>3, <1>4, <1>5 DEF Next, RejectSurveyDefinition, FindSurvey,
     CheckSnapshot, Abort, vars

(* Surveys implements SurveyLedger: whatever happens between the check of a *)
(* submission and its insert, what is stored was accepted by its survey in  *)
(* one instant, and no survey is withdrawn under its snapshots.             *)
THEOREM SubmissionsAreAtomic == Spec => SubmissionsAtomic
<1>1. Init => Ledger!Init /\ Faithful /\ Posted
  BY BoundsAssumption DEF Init, Ledger!Init, Submitted, Faithful, Posted, Present,
     At, Idle
<1>2. IInv /\ Faithful /\ Posted /\ [Next]_vars
        => /\ Faithful' /\ Posted'
           /\ [Ledger!Next]_<<survey, Submitted, 1 .. survSeq, 1 .. snapSeq>>
  BY FaithfulInductive, PostedInductive, StepKeepsLedger DEF LInv, LedgerStep
<1>3. QED
  BY <1>1, <1>2, Invariance, PTL DEF Spec, SubmissionsAtomic, Ledger!Spec

=============================================================================
