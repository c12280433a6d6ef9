----------------------------- MODULE DraftsProofs -----------------------------
(***************************************************************************)
(* Proofs about Drafts, for any number of threads, users and drafts, any    *)
(* age and any changes of the clock.                                       *)
(***************************************************************************)
EXTENDS Drafts, TLAPS

\* A request that holds a copy of the row it loaded.
Loaded(w) == At(w, "findUser") \/ At(w, "save")

\* The copy has the date of the row and, unless it was overtaken, its user.
CopySound(w) ==
    /\ req[w].draft \in DraftIds /\ req[w].draft <= idSeq
    /\ req[w].draft \in Present =>
         /\ draft[req[w].draft].created = req[w].created
         /\ req[w].overtaken \/ draft[req[w].draft].user = req[w].loadedUser

RequestSound(w) ==
    /\ Loaded(w) => CopySound(w)
    /\ At(w, "save") => req[w].user \in {req[w].loadedUser, req[w].name}
    /\ At(w, "delete") => req[w].draft \in DraftIds

Sound == /\ \A d \in Present : d <= idSeq
         /\ \A w \in Workers : RequestSound(w)

IInv == TypeOK /\ OwnersExist /\ Sound

LEMMA SetFacts ==
    ASSUME TypeOK, NEW w \in Workers, NEW r, Set(w, r)
    PROVE  /\ \A v \in Workers : req'[v] = IF v = w THEN r ELSE req[v]
           /\ r \in Request => req' \in [Workers -> Request]
BY DEF Set, TypeOK

LEMMA RequestType ==
    ASSUME TypeOK, NEW w \in Workers
    PROVE  /\ req[w] \in Request /\ Idle \in Request /\ Idle.step = "idle"
           /\ req[w].name \in Users \cup {None} /\ req[w].user \in Users \cup {None}
           /\ req[w].created \in Times
<1>1. req[w] \in Request
  BY DEF TypeOK
<1>2. 0 \in Times
  BY DraftsAssumption DEF Times
<1>3. QED
  BY <1>1, <1>2 DEF Idle, Request

-----------------------------------------------------------------------------
(* A save puts the copy of its request in the row's place, and the others   *)
(* that loaded the row are overtaken.                                      *)
LEMMA SaveFacts ==
    ASSUME IInv, NEW w \in Workers, At(w, "save"), req[w].draft \in Present,
           req[w].user \in users,
           draft' = [draft EXCEPT ![req[w].draft] = Written(w)], EndSave(w)
    PROVE  /\ \A d \in DraftIds : d # req[w].draft => draft'[d] = draft[d]
           /\ draft'[req[w].draft].user = req[w].user
           /\ draft'[req[w].draft].created = draft[req[w].draft].created
           /\ Present' = Present /\ req'[w] = Idle
           /\ \A v \in Workers \ {w} :
                /\ req[v].draft # req[w].draft => req'[v] = req[v]
                /\ req[v].draft = req[w].draft =>
                     req'[v] = [req[v] EXCEPT !.overtaken = TRUE]
           /\ draft' \in [DraftIds -> Row \cup {None}]
           /\ req' \in [Workers -> Request]
<1>1. TypeOK /\ RequestSound(w) /\ users \subseteq Users
  BY DEF IInv, Sound, TypeOK
<1>2. PICK x \in DraftIds : x = req[w].draft
  BY DEF Present
<1>3. x \in Present /\ draft[x].created = req[w].created
  BY <1>1, <1>2 DEF RequestSound, Loaded, CopySound
<1>4. \A d \in DraftIds : draft'[d] = IF d = x THEN Written(w) ELSE draft[d]
  BY <1>1, <1>2 DEF TypeOK
<1>5. Written(w) \in Row
  BY <1>1, RequestType DEF Written, Row
<1>6. draft' \in [DraftIds -> Row \cup {None}]
  BY <1>1, <1>2, <1>5 DEF TypeOK
<1>7. \A v \in Workers :
         req'[v] = IF v = w THEN Idle
                   ELSE IF req[v].draft = req[w].draft
                        THEN [req[v] EXCEPT !.overtaken = TRUE] ELSE req[v]
  BY DEF EndSave
<1>8. req' \in [Workers -> Request]
  <2>1. ASSUME NEW v \in Workers PROVE req'[v] \in Request
    <3>1. req[v] \in Request /\ Idle \in Request
      BY <1>1, RequestType
    <3>2. [req[v] EXCEPT !.overtaken = TRUE] \in Request
      BY <3>1 DEF Request
    <3>3. QED
      BY <1>7, <3>1, <3>2
  <2>2. QED
    BY <2>1 DEF EndSave
<1>9. Written(w) # None
  BY <1>5, NoRowAssumption
<1>10. Present' = Present
  BY <1>2, <1>3, <1>4, <1>9 DEF Present
<1>11. draft'[x].user = req[w].user /\ draft'[x].created = draft[x].created
  BY <1>3, <1>4 DEF Written
<1>12. QED
  BY <1>2, <1>4, <1>6, <1>7, <1>8, <1>10, <1>11

LEMMA TypeInductive == IInv /\ [Next]_vars => TypeOK'
<1> SUFFICES ASSUME IInv, [Next]_vars PROVE TypeOK'
  OBVIOUS
<1>0. TypeOK
  BY DEF IInv
<1>a. ASSUME NEW w \in Workers, Finish(w) PROVE req' \in [Workers -> Request]
  BY <1>0, <1>a, SetFacts, RequestType DEF Finish
<1>1. ASSUME NEW w \in Workers, NEW u \in Users, FindOwner(w, u) PROVE TypeOK'
  <2> DEFINE r == [Idle EXCEPT !.step = "persist", !.name = u, !.user = u]
  <2>1. r \in Request
    BY <1>0, RequestType DEF Request
  <2>2. Set(w, r)
    BY <1>1 DEF FindOwner
  <2> HIDE DEF r
  <2>3. QED
    BY <1>0, <1>1, <2>1, <2>2, SetFacts DEF FindOwner, TypeOK
<1>2. ASSUME NEW w \in Workers, Persist(w) PROVE TypeOK'
  <2> DEFINE r == [req[w] EXCEPT !.step = "insert", !.created = now]
  <2>1. r \in Request
    BY <1>0, RequestType DEF Request, TypeOK
  <2>2. Set(w, r)
    BY <1>2 DEF Persist
  <2> HIDE DEF r
  <2>3. QED
    BY <1>0, <1>2, <2>1, <2>2, SetFacts DEF Persist, TypeOK
<1>3. ASSUME NEW w \in Workers, Insert(w) PROVE TypeOK'
  <2>1. [user |-> req[w].user, created |-> req[w].created] \in Row
    BY <1>0, <1>3, RequestType DEF Insert, Row, TypeOK
  <2>2. draft' \in [DraftIds -> Row \cup {None}]
    BY <1>0, <1>3, <2>1 DEF Insert, TypeOK
  <2>3. idSeq' \in 0 .. MaxDrafts
    BY <1>0, <1>3, DraftsAssumption DEF Insert, TypeOK
  <2>4. QED
    BY <1>0, <1>3, <1>a, <2>2, <2>3 DEF Insert, TypeOK
<1>4. ASSUME NEW w \in Workers, NEW d \in DraftIds, NEW n \in Users \cup {None},
             NEW e \in BOOLEAN, FindDraft(w, d, n, e)
      PROVE  TypeOK'
  <2> DEFINE r == [Idle EXCEPT
         !.step = IF n = None THEN "save" ELSE "findUser",
         !.draft = d, !.name = n, !.user = draft[d].user,
         !.loadedUser = draft[d].user, !.created = draft[d].created,
         !.edits = e]
  <2>1. draft[d].user \in Users /\ draft[d].created \in Times
    BY <1>0, <1>4 DEF FindDraft, TypeOK, Present, Row
  <2>2. r \in Request
    BY <1>0, <2>1, RequestType DEF Request
  <2>3. Set(w, r)
    BY <1>4 DEF FindDraft
  <2> HIDE DEF r
  <2>4. QED
    BY <1>0, <1>4, <2>2, <2>3, SetFacts DEF FindDraft, TypeOK
<1>5. ASSUME NEW w \in Workers, FindUser(w) PROVE TypeOK'
  <2> DEFINE r == [req[w] EXCEPT !.step = "save", !.user = req[w].name]
  <2>1. r \in Request
    BY <1>0, RequestType DEF Request
  <2>2. Set(w, r) \/ Finish(w)
    BY <1>5 DEF FindUser
  <2> HIDE DEF r
  <2>3. req' \in [Workers -> Request]
    BY <1>0, <1>a, <2>1, <2>2, SetFacts
  <2>4. QED
    BY <1>0, <1>5, <2>3 DEF FindUser, TypeOK
<1>6. ASSUME NEW w \in Workers, Save(w) PROVE TypeOK'
  <2>1. CASE req[w].draft \in Present /\ req[w].user \in users
    BY <1>0, <1>6, <2>1, SaveFacts DEF Save, TypeOK
  <2>2. CASE ~(req[w].draft \in Present /\ req[w].user \in users)
    BY <1>0, <1>6, <1>a, <2>2 DEF Save, TypeOK
  <2>3. QED
    BY <2>1, <2>2
<1>7. ASSUME NEW w \in Workers, SaveClean(w) \/ Abort(w) PROVE TypeOK'
  BY <1>0, <1>7, <1>a DEF SaveClean, Abort, TypeOK
<1>8. ASSUME NEW w \in Workers, NEW d \in DraftIds, FindToDelete(w, d) PROVE TypeOK'
  <2> DEFINE r == [Idle EXCEPT !.step = "delete", !.draft = d]
  <2>1. r \in Request
    BY <1>0, RequestType DEF Request
  <2>2. Set(w, r)
    BY <1>8 DEF FindToDelete
  <2> HIDE DEF r
  <2>3. QED
    BY <1>0, <1>8, <2>1, <2>2, SetFacts DEF FindToDelete, TypeOK
<1>9. ASSUME NEW w \in Workers, DeleteDraft(w) PROVE TypeOK'
  BY <1>0, <1>9, <1>a DEF DeleteDraft, TypeOK
<1>10. ASSUME NEW u \in Users, DeleteUser(u) PROVE TypeOK'
  BY <1>0, <1>10 DEF DeleteUser, TypeOK
<1>11. CASE Tick \/ PutBack
  <2>1. now' \in Times
    BY <1>0, <1>11, DraftsAssumption DEF Tick, PutBack, TypeOK, Times
  <2>2. QED
    BY <1>0, <1>11, <2>1 DEF Tick, PutBack, TypeOK
<1>12. CASE UNCHANGED vars
  BY <1>0, <1>12 DEF vars, TypeOK
<1>13. QED
  BY <1>1, <1>2, <1>3, <1>4, <1>5, <1>6, <1>7, <1>8, <1>9, <1>10, <1>11, <1>12
     DEF Next

-----------------------------------------------------------------------------
(* A user with drafts is not deleted, and no draft goes to one who was.    *)
LEMMA OwnersInductive == IInv /\ [Next]_vars => OwnersExist'
<1> SUFFICES ASSUME IInv, [Next]_vars PROVE OwnersExist'
  OBVIOUS
<1>0. TypeOK /\ OwnersExist
  BY DEF IInv
<1>1. ASSUME UNCHANGED users,
             \A d \in DraftIds : draft'[d] = draft[d] \/ draft'[d] = None
      PROVE  OwnersExist'
  BY <1>0, <1>1 DEF OwnersExist, Present
<1>2. ASSUME NEW w \in Workers, Insert(w) PROVE OwnersExist'
  <2>1. \A d \in DraftIds : draft'[d] = draft[d] \/ draft'[d].user \in users
    BY <1>0, <1>2 DEF Insert, TypeOK
  <2>2. QED
    BY <1>0, <1>2, <2>1 DEF Insert, OwnersExist, Present
<1>3. ASSUME NEW w \in Workers, Save(w) PROVE OwnersExist'
  <2>1. CASE req[w].draft \in Present /\ req[w].user \in users
    <3>1. /\ \A d \in DraftIds : d # req[w].draft => draft'[d] = draft[d]
          /\ draft'[req[w].draft].user = req[w].user
          /\ Present' = Present /\ users' = users
      BY <1>0, <1>3, <2>1, SaveFacts DEF Save
    <3>2. ASSUME NEW d \in Present PROVE draft'[d].user \in users
      <4>1. d \in DraftIds /\ draft[d].user \in users
        BY <1>0 DEF OwnersExist, Present
      <4>2. QED
        BY <2>1, <3>1, <4>1
    <3>3. QED
      BY <3>1, <3>2 DEF OwnersExist
  <2>2. CASE ~(req[w].draft \in Present /\ req[w].user \in users)
    BY <1>1, <1>3, <2>2 DEF Save
  <2>3. QED
    BY <2>1, <2>2
<1>4. ASSUME NEW w \in Workers, DeleteDraft(w) PROVE OwnersExist'
  <2>1. \A d \in DraftIds : draft'[d] = draft[d] \/ draft'[d] = None
    BY <1>0, <1>4 DEF DeleteDraft, TypeOK
  <2>2. QED
    BY <1>1, <1>4, <2>1 DEF DeleteDraft
<1>5. ASSUME NEW u \in Users, DeleteUser(u) PROVE OwnersExist'
  BY <1>0, <1>5 DEF DeleteUser, OwnersExist, Present
<1>6. ASSUME UNCHANGED <<users, draft>> PROVE OwnersExist'
  BY <1>1, <1>6
<1>7. QED
  BY <1>2, <1>3, <1>4, <1>5, <1>6
     DEF Next, FindOwner, Persist, FindDraft, FindUser, SaveClean, FindToDelete,
         Abort, Tick, PutBack, vars

-----------------------------------------------------------------------------
(* The steps that write no row: rows may go, requests keep or get a sound   *)
(* copy.                                                                    *)
LEMMA CallsKeepSound ==
    ASSUME IInv, UNCHANGED idSeq,
           \A d \in DraftIds : draft'[d] = draft[d] \/ draft'[d] = None,
           \A v \in Workers : req'[v] = req[v] \/ RequestSound(v)'
    PROVE  Sound'
<1>1. Sound
  BY DEF IInv
<1>2. \A d \in Present' : d \in Present /\ draft'[d] = draft[d]
  BY DEF Present
<1>3. \A d \in Present' : d <= idSeq'
  BY <1>1, <1>2 DEF Sound
<1>4. ASSUME NEW v \in Workers, req'[v] = req[v] PROVE RequestSound(v)'
  <2>1. RequestSound(v)
    BY <1>1 DEF Sound
  <2>2. CopySound(v) => CopySound(v)'
    BY <1>2, <1>4 DEF CopySound
  <2>3. QED
    BY <1>4, <2>1, <2>2 DEF RequestSound, Loaded, At
<1>5. QED
  BY <1>3, <1>4 DEF Sound

LEMMA FindDraftKeepsSound ==
    ASSUME IInv, NEW w \in Workers, NEW d \in DraftIds, NEW n \in Users \cup {None},
           NEW e \in BOOLEAN, FindDraft(w, d, n, e)
    PROVE  Sound'
<1> DEFINE r == [Idle EXCEPT
         !.step = IF n = None THEN "save" ELSE "findUser",
         !.draft = d, !.name = n, !.user = draft[d].user,
         !.loadedUser = draft[d].user, !.created = draft[d].created,
         !.edits = e]
<1>1. TypeOK /\ Sound /\ d \in Present /\ Set(w, r) /\ UNCHANGED <<draft, idSeq>>
  BY DEF IInv, FindDraft
<1>2. /\ r.draft = d /\ r.user = draft[d].user /\ r.loadedUser = draft[d].user
      /\ r.created = draft[d].created /\ r.step \in {"save", "findUser"}
  BY DEF Idle
<1> HIDE DEF r
<1>3. \A v \in Workers : req'[v] = IF v = w THEN r ELSE req[v]
  BY <1>1, SetFacts
<1>4. d <= idSeq
  BY <1>1 DEF Sound
<1>5. CopySound(w)'
  BY <1>1, <1>2, <1>3, <1>4 DEF CopySound
<1>6. RequestSound(w)'
  BY <1>2, <1>3, <1>5 DEF RequestSound, At
<1>7. QED
  BY <1>1, <1>3, <1>6, CallsKeepSound

LEMMA SaveKeepsSound ==
    ASSUME IInv, NEW w \in Workers, Save(w)
    PROVE  Sound'
<1>1. TypeOK /\ Sound /\ At(w, "save") /\ UNCHANGED idSeq
  BY DEF IInv, Save
<1>2. CASE req[w].draft \in Present /\ req[w].user \in users
  <2>1. /\ \A d \in DraftIds : d # req[w].draft => draft'[d] = draft[d]
        /\ draft'[req[w].draft].created = draft[req[w].draft].created
        /\ Present' = Present /\ req'[w] = Idle
        /\ \A v \in Workers \ {w} :
              /\ req[v].draft # req[w].draft => req'[v] = req[v]
              /\ req[v].draft = req[w].draft =>
                   req'[v] = [req[v] EXCEPT !.overtaken = TRUE]
    BY <1>1, <1>2, SaveFacts DEF Save
  <2>2. ASSUME NEW v \in Workers PROVE RequestSound(v)'
    <3>1. RequestSound(v) /\ req[v] \in Request
      BY <1>1 DEF Sound, TypeOK
    <3>2. CASE v = w
      <4>1. req'[v].step = "idle"
        BY <2>1, <3>2 DEF Idle
      <4>2. QED
        BY <4>1 DEF RequestSound, Loaded, At
    <3>3. CASE v # w /\ req[v].draft = req[w].draft
      <4>1. /\ req'[v].step = req[v].step /\ req'[v].draft = req[v].draft
            /\ req'[v].created = req[v].created /\ req'[v].overtaken
            /\ req'[v].user = req[v].user /\ req'[v].name = req[v].name
            /\ req'[v].loadedUser = req[v].loadedUser
        BY <2>1, <3>1, <3>3 DEF Request
      <4>2. ASSUME CopySound(v) PROVE CopySound(v)'
        <5>1. PICK x \in DraftIds : x = req[v].draft
          BY <4>2 DEF CopySound
        <5>2. x \in Present => draft'[x].created = draft[x].created
          BY <2>1, <3>3, <5>1
        <5>3. QED
          BY <1>1, <2>1, <4>1, <4>2, <5>1, <5>2 DEF CopySound
      <4>3. QED
        BY <3>1, <4>1, <4>2 DEF RequestSound, Loaded, At
    <3>4. CASE v # w /\ req[v].draft # req[w].draft
      <4>1. req'[v] = req[v]
        BY <2>1, <3>4
      <4>2. ASSUME CopySound(v) PROVE CopySound(v)'
        <5>1. PICK x \in DraftIds : x = req[v].draft
          BY <4>2 DEF CopySound
        <5>2. draft'[x] = draft[x]
          BY <2>1, <3>4, <5>1
        <5>3. QED
          BY <1>1, <2>1, <4>1, <4>2, <5>1, <5>2 DEF CopySound
      <4>3. QED
        BY <3>1, <4>1, <4>2 DEF RequestSound, Loaded, At
    <3>5. QED
      BY <3>2, <3>3, <3>4
  <2>3. QED
    BY <1>1, <2>1, <2>2 DEF Sound
<1>3. CASE ~(req[w].draft \in Present /\ req[w].user \in users)
  <2>1. draft' = draft /\ Set(w, Idle)
    BY <1>3 DEF Save, Finish
  <2>2. \A v \in Workers : req'[v] = IF v = w THEN Idle ELSE req[v]
    BY <1>1, <2>1, SetFacts
  <2>3. RequestSound(w)'
    BY <2>2 DEF RequestSound, Loaded, At, Idle
  <2>4. QED
    BY <1>1, <2>1, <2>2, <2>3, CallsKeepSound
<1>4. QED
  BY <1>2, <1>3

LEMMA InsertKeepsSound ==
    ASSUME IInv, NEW w \in Workers, Insert(w)
    PROVE  Sound'
<1>1. /\ TypeOK /\ Sound /\ Set(w, Idle) /\ idSeq' = idSeq + 1 /\ idSeq \in Int
      /\ \A d \in DraftIds : d # idSeq + 1 => draft'[d] = draft[d]
  BY DEF IInv, Insert, Finish, TypeOK
<1>2. \A d \in DraftIds : d \in Int
  BY DEF DraftIds
<1>3. \A d \in Present' : d <= idSeq'
  BY <1>1, <1>2 DEF Sound, Present
<1>4. \A v \in Workers : req'[v] = IF v = w THEN Idle ELSE req[v]
  BY <1>1, SetFacts
<1>5. ASSUME NEW v \in Workers PROVE RequestSound(v)'
  <2>1. CASE v = w
    BY <1>4, <2>1 DEF RequestSound, Loaded, At, Idle
  <2>2. CASE v # w
    <3>1. RequestSound(v) /\ req'[v] = req[v]
      BY <1>1, <1>4, <2>2 DEF Sound
    <3>2. ASSUME CopySound(v) PROVE CopySound(v)'
      <4>1. PICK x \in DraftIds : x = req[v].draft
        BY <3>2 DEF CopySound
      <4>2. x <= idSeq /\ x \in Int
        BY <1>2, <3>2, <4>1 DEF CopySound
      <4>3. draft'[x] = draft[x] /\ x <= idSeq'
        BY <1>1, <4>2
      <4>4. QED
        BY <3>1, <3>2, <4>1, <4>3 DEF CopySound, Present
    <3>3. QED
      BY <3>1, <3>2 DEF RequestSound, Loaded, At
  <2>3. QED
    BY <2>1, <2>2
<1>6. QED
  BY <1>3, <1>5 DEF Sound

LEMMA SoundInductive == IInv /\ [Next]_vars => Sound'
<1> SUFFICES ASSUME IInv, [Next]_vars PROVE Sound'
  OBVIOUS
<1>0. TypeOK /\ Sound
  BY DEF IInv
<1>a. ASSUME NEW w \in Workers, NEW r, Set(w, r), UNCHANGED idSeq,
             \A d \in DraftIds : draft'[d] = draft[d] \/ draft'[d] = None,
             r.step \notin {"findUser", "save"},
             r.step = "delete" => r.draft \in DraftIds
      PROVE  Sound'
  <2>1. \A v \in Workers : req'[v] = IF v = w THEN r ELSE req[v]
    BY <1>0, <1>a, SetFacts
  <2>2. RequestSound(w)'
    BY <1>a, <2>1 DEF RequestSound, Loaded, At
  <2>3. QED
    BY <1>a, <2>1, <2>2, CallsKeepSound
<1>b. ASSUME NEW w \in Workers, Finish(w), UNCHANGED idSeq,
             \A d \in DraftIds : draft'[d] = draft[d] \/ draft'[d] = None
      PROVE  Sound'
  <2>1. Set(w, Idle) /\ Idle.step = "idle"
    BY <1>b DEF Finish, Idle
  <2>2. QED
    BY <1>a, <1>b, <2>1
<1>1. ASSUME NEW w \in Workers, NEW u \in Users, FindOwner(w, u) PROVE Sound'
  <2> DEFINE r == [Idle EXCEPT !.step = "persist", !.name = u, !.user = u]
  <2>1. Set(w, r) /\ r.step = "persist"
    BY <1>1 DEF FindOwner, Idle
  <2> HIDE DEF r
  <2>2. QED
    BY <1>1, <1>a, <2>1 DEF FindOwner
<1>2. ASSUME NEW w \in Workers, Persist(w) PROVE Sound'
  <2> DEFINE r == [req[w] EXCEPT !.step = "insert", !.created = now]
  <2>1. Set(w, r) /\ r.step = "insert"
    BY <1>0, <1>2, RequestType DEF Persist, Request
  <2> HIDE DEF r
  <2>2. QED
    BY <1>2, <1>a, <2>1 DEF Persist
<1>3. ASSUME NEW w \in Workers, Insert(w) PROVE Sound'
  BY <1>3, InsertKeepsSound
<1>4. ASSUME NEW w \in Workers, NEW d \in DraftIds, NEW n \in Users \cup {None},
             NEW e \in BOOLEAN, FindDraft(w, d, n, e)
      PROVE  Sound'
  BY <1>4, FindDraftKeepsSound
<1>5. ASSUME NEW w \in Workers, FindUser(w) PROVE Sound'
  <2>1. CASE req[w].name \in users
    <3> DEFINE r == [req[w] EXCEPT !.step = "save", !.user = req[w].name]
    <3>1. Set(w, r) /\ At(w, "findUser") /\ UNCHANGED <<draft, idSeq>>
      BY <1>5, <2>1 DEF FindUser
    <3>2. /\ r.step = "save" /\ r.user = req[w].name /\ r.name = req[w].name
          /\ r.draft = req[w].draft /\ r.created = req[w].created
          /\ r.overtaken = req[w].overtaken /\ r.loadedUser = req[w].loadedUser
      BY <1>0, RequestType DEF Request
    <3> HIDE DEF r
    <3>3. \A v \in Workers : req'[v] = IF v = w THEN r ELSE req[v]
      BY <1>0, <3>1, SetFacts
    <3>4. CopySound(w)
      BY <1>0, <3>1 DEF Sound, RequestSound, Loaded
    <3>5. CopySound(w)'
      BY <3>1, <3>2, <3>3, <3>4 DEF CopySound, Present
    <3>6. RequestSound(w)'
      BY <3>2, <3>3, <3>5 DEF RequestSound, At
    <3>7. QED
      BY <3>1, <3>3, <3>6, CallsKeepSound
  <2>2. CASE req[w].name \notin users
    BY <1>5, <1>b, <2>2 DEF FindUser
  <2>3. QED
    BY <2>1, <2>2
<1>6. ASSUME NEW w \in Workers, Save(w) PROVE Sound'
  BY <1>6, SaveKeepsSound
<1>7. ASSUME NEW w \in Workers, SaveClean(w) \/ Abort(w) PROVE Sound'
  BY <1>7, <1>b DEF SaveClean, Abort
<1>8. ASSUME NEW w \in Workers, NEW d \in DraftIds, FindToDelete(w, d) PROVE Sound'
  <2> DEFINE r == [Idle EXCEPT !.step = "delete", !.draft = d]
  <2>1. Set(w, r) /\ r.step = "delete" /\ r.draft = d
    BY <1>8 DEF FindToDelete, Idle
  <2> HIDE DEF r
  <2>2. QED
    BY <1>8, <1>a, <2>1 DEF FindToDelete
<1>9. ASSUME NEW w \in Workers, DeleteDraft(w) PROVE Sound'
  <2>1. \A d \in DraftIds : draft'[d] = draft[d] \/ draft'[d] = None
    BY <1>0, <1>9 DEF DeleteDraft, TypeOK
  <2>2. QED
    BY <1>9, <1>b, <2>1 DEF DeleteDraft
<1>10. ASSUME UNCHANGED <<draft, idSeq, req>> PROVE Sound'
  BY <1>10, CallsKeepSound
<1>11. QED
  BY <1>1, <1>2, <1>3, <1>4, <1>5, <1>6, <1>7, <1>8, <1>9, <1>10
     DEF Next, DeleteUser, Tick, PutBack, vars

LEMMA InitSound == Init => IInv
<1> SUFFICES ASSUME Init PROVE IInv
  OBVIOUS
<1>1. 0 \in Times /\ Idle.step = "idle"
  BY DraftsAssumption DEF Times, Idle
<1>2. Idle \in Request
  BY <1>1 DEF Idle, Request
<1>3. TypeOK
  BY <1>1, <1>2, DraftsAssumption DEF Init, TypeOK
<1>4. OwnersExist /\ Sound
  BY <1>1 DEF Init, OwnersExist, Sound, Present, RequestSound, Loaded, At
<1>5. QED
  BY <1>3, <1>4 DEF IInv

LEMMA Invariance == Spec => []IInv
<1>1. IInv /\ [Next]_vars => IInv'
  BY TypeInductive, OwnersInductive, SoundInductive DEF IInv
<1>2. QED
  BY InitSound, <1>1, PTL DEF Spec

-----------------------------------------------------------------------------
(* The rows and the requests keep their types.                             *)
THEOREM TypeCorrect == Spec => []TypeOK
<1>1. IInv => TypeOK
  BY DEF IInv
<1>2. QED
  BY <1>1, Invariance, PTL

(* Each draft has a user that is there.                                    *)
THEOREM DraftsHaveOwners == Spec => []OwnersExist
<1>1. IInv => OwnersExist
  BY DEF IInv
<1>2. QED
  BY <1>1, Invariance, PTL

(* The steps that write rows, seen from the rows.                          *)
LEMMA RowsChange ==
    ASSUME IInv, [Next]_vars
    PROVE  \/ \A d \in DraftIds : draft'[d] = draft[d] \/ draft'[d] = None
           \/ /\ now' = now
              /\ \A d \in DraftIds : d # idSeq + 1 => draft'[d] = draft[d]
              /\ idSeq + 1 \notin Present
           \/ /\ now' = now
              /\ \E w \in Workers :
                   /\ At(w, "save") /\ req[w].draft \in Present
                   /\ draft'[req[w].draft].user = req[w].user
                   /\ draft'[req[w].draft].created = draft[req[w].draft].created
                   /\ \A d \in DraftIds : d # req[w].draft => draft'[d] = draft[d]
<1>0. TypeOK /\ Sound
  BY DEF IInv
<1>1. ASSUME NEW w \in Workers, Insert(w)
      PROVE  /\ now' = now
             /\ \A d \in DraftIds : d # idSeq + 1 => draft'[d] = draft[d]
             /\ idSeq + 1 \notin Present
  <2>1. idSeq \in Int /\ \A d \in Present : d <= idSeq
    BY <1>0 DEF TypeOK, Sound
  <2>2. idSeq + 1 \notin Present
    BY <2>1
  <2>3. QED
    BY <1>0, <1>1, <2>2 DEF Insert, TypeOK
<1>2. ASSUME NEW w \in Workers, Save(w)
      PROVE  \/ draft' = draft
             \/ /\ now' = now
                /\ At(w, "save") /\ req[w].draft \in Present
                /\ draft'[req[w].draft].user = req[w].user
                /\ draft'[req[w].draft].created = draft[req[w].draft].created
                /\ \A d \in DraftIds : d # req[w].draft => draft'[d] = draft[d]
  BY <1>2, SaveFacts DEF Save
<1>3. ASSUME NEW w \in Workers, DeleteDraft(w)
      PROVE  \A d \in DraftIds : draft'[d] = draft[d] \/ draft'[d] = None
  BY <1>0, <1>3 DEF DeleteDraft, TypeOK
<1>4. QED
  BY <1>1, <1>2, <1>3
     DEF Next, FindOwner, Persist, FindDraft, FindUser, SaveClean, FindToDelete,
         Abort, DeleteUser, Tick, PutBack, vars

(* Deleted drafts do not come back.                                        *)
THEOREM DeletionLasts == Spec => DeletedForGood
<1>1. ASSUME IInv, [Next]_vars
      PROVE  \A d \in DraftIds : (d <= idSeq /\ draft[d] = None) => draft'[d] = None
  <2>1. SUFFICES ASSUME NEW d \in DraftIds, d <= idSeq, draft[d] = None
                 PROVE  draft'[d] = None
    OBVIOUS
  <2>2. d \in Int /\ idSeq \in Int /\ d \notin Present
    BY <1>1, <2>1 DEF IInv, TypeOK, DraftIds, Present
  <2>3. d # idSeq + 1
    BY <2>1, <2>2
  <2>4. QED
    BY <1>1, <2>1, <2>2, <2>3, RowsChange
<1>2. QED
  BY <1>1, Invariance, PTL DEF Spec, DeletedForGood

(* A draft that left the listing stays out of it while the clock goes on.  *)
THEOREM AgeingLasts == Spec => AgedForGood
<1>1. ASSUME IInv, [Next]_vars
      PROVE  \A d \in Present :
               (~Listed(d) /\ now <= now') => draft'[d] = None \/ ~(Listed(d)')
  <2>1. SUFFICES ASSUME NEW d \in Present, ~Listed(d), now <= now', draft'[d] # None
                 PROVE  ~(Listed(d)')
    OBVIOUS
  <2>2. d \in DraftIds /\ draft[d].created \in Int /\ now \in Int
    BY <1>1 DEF IInv, TypeOK, Present, Row, Times
  <2>3. draft'[d].created = draft[d].created
    BY <1>1, <2>1, <2>2, RowsChange
  <2>4. now' \in Int
    <3>1. TypeOK'
      BY <1>1, TypeInductive
    <3>2. QED
      BY <3>1 DEF TypeOK, Times
  <2>5. QED
    BY <2>1, <2>2, <2>3, <2>4, DraftsAssumption DEF Listed
<1>2. QED
  BY <1>1, Invariance, PTL DEF Spec, AgedForGood

(* A hand-over is only undone by a PUT that it overtook.                   *)
THEOREM HandOversStand == Spec => HandOverStands
<1>1. ASSUME IInv, [Next]_vars
      PROVE  \A d \in Present :
               (draft'[d] # None /\ draft'[d].user # draft[d].user) =>
                  \E w \in Workers :
                      /\ At(w, "save") /\ req[w].draft = d
                      /\ req[w].name = draft'[d].user \/ req[w].overtaken
  <2>1. SUFFICES ASSUME NEW d \in Present, draft'[d] # None,
                        draft'[d].user # draft[d].user
                 PROVE  \E w \in Workers :
                          /\ At(w, "save") /\ req[w].draft = d
                          /\ req[w].name = draft'[d].user \/ req[w].overtaken
    OBVIOUS
  <2>2. d \in DraftIds
    BY DEF Present
  <2>3. PICK w \in Workers :
           /\ At(w, "save") /\ req[w].draft = d /\ draft'[d].user = req[w].user
    BY <1>1, <2>1, <2>2, RowsChange
  <2>4. RequestSound(w)
    BY <1>1 DEF IInv, Sound
  <2>5. req[w].overtaken \/ draft[d].user = req[w].loadedUser
    BY <2>3, <2>4 DEF RequestSound, Loaded, CopySound
  <2>6. QED
    BY <2>1, <2>3, <2>4, <2>5 DEF RequestSound
<1>2. QED
  BY <1>1, Invariance, PTL DEF Spec, HandOverStands

\* Nobody holds a copy that others have written over.
NoneOvertaken == \A w \in Workers : ~req[w].overtaken

\* A draft changes hands only by a PUT that names its new user.
HandedOver ==
    \A d \in Present :
        (draft'[d] # None /\ draft'[d].user # draft[d].user) =>
           \E w \in Workers :
               At(w, "save") /\ req[w].draft = d /\ req[w].name = draft'[d].user

(* Of requests that are served one after the other none is overtaken, so a *)
(* hand-over is only ever taken back by naming the former user: what        *)
(* HandOverStands leaves open is left open to races alone.                 *)
THEOREM SequentialHandOvers ==
    ASSUME NEW worker, Workers = {worker}
    PROVE  Spec => [][HandedOver]_vars
<1>1. Init => NoneOvertaken
  BY DEF Init, NoneOvertaken, Idle
<1>2. IInv /\ NoneOvertaken /\ [Next]_vars => NoneOvertaken'
  <2> SUFFICES ASSUME IInv, NoneOvertaken, [Next]_vars PROVE NoneOvertaken'
    OBVIOUS
  <2>0. TypeOK
    BY DEF IInv
  <2>a. ASSUME NEW w \in Workers, NEW r, Set(w, r), ~r.overtaken PROVE NoneOvertaken'
    BY <2>0, <2>a, SetFacts DEF NoneOvertaken
  <2>b. ASSUME NEW w \in Workers, Finish(w) PROVE NoneOvertaken'
    BY <2>a, <2>b DEF Finish, Idle
  <2>1. ASSUME NEW w \in Workers, NEW u \in Users, FindOwner(w, u) PROVE NoneOvertaken'
    <3>1. ~[Idle EXCEPT !.step = "persist", !.name = u, !.user = u].overtaken
      BY DEF Idle
    <3>2. QED
      BY <2>a, <2>1, <3>1 DEF FindOwner
  <2>2. ASSUME NEW w \in Workers, Persist(w) \/ FindUser(w) PROVE NoneOvertaken'
    <3>1. req[w] \in Request /\ ~req[w].overtaken
      BY <2>0, RequestType DEF NoneOvertaken
    <3>2. /\ ~[req[w] EXCEPT !.step = "insert", !.created = now].overtaken
          /\ ~[req[w] EXCEPT !.step = "save", !.user = req[w].name].overtaken
      BY <3>1 DEF Request
    <3>3. QED
      BY <2>a, <2>b, <2>2, <3>2 DEF Persist, FindUser
  <2>3. ASSUME NEW w \in Workers, NEW d \in DraftIds, NEW name \in Users \cup {None},
               NEW edits \in BOOLEAN, FindDraft(w, d, name, edits)
        PROVE  NoneOvertaken'
    <3> DEFINE r == [Idle EXCEPT
                       !.step = IF name = None THEN "save" ELSE "findUser",
                       !.draft = d, !.name = name, !.user = draft[d].user,
                       !.loadedUser = draft[d].user, !.created = draft[d].created,
                       !.edits = edits]
    <3>1. ~r.overtaken
      BY DEF Idle
    <3>2. Set(w, r)
      BY <2>3 DEF FindDraft
    <3> HIDE DEF r
    <3>3. QED
      BY <2>a, <3>1, <3>2
  <2>4. ASSUME NEW w \in Workers, NEW d \in DraftIds, FindToDelete(w, d)
        PROVE  NoneOvertaken'
    <3>1. ~[Idle EXCEPT !.step = "delete", !.draft = d].overtaken
      BY DEF Idle
    <3>2. QED
      BY <2>a, <2>4, <3>1 DEF FindToDelete
  <2>5. ASSUME NEW w \in Workers, Save(w) PROVE NoneOvertaken'
    <3>1. CASE EndSave(w)
      BY <3>1 DEF EndSave, NoneOvertaken, Idle
    <3>2. QED
      BY <2>b, <2>5, <3>1 DEF Save
  <2>6. ASSUME NEW w \in Workers,
               Insert(w) \/ SaveClean(w) \/ DeleteDraft(w) \/ Abort(w)
        PROVE  NoneOvertaken'
    BY <2>b, <2>6 DEF Insert, SaveClean, DeleteDraft, Abort
  <2>7. CASE UNCHANGED req
    BY <2>7 DEF NoneOvertaken
  <2>8. QED
    BY <2>1, <2>2, <2>3, <2>4, <2>5, <2>6, <2>7
       DEF Next, DeleteUser, Tick, PutBack, vars
<1>3. ASSUME NoneOvertaken,
             \A d \in Present :
               (draft'[d] # None /\ draft'[d].user # draft[d].user) =>
                  \E w \in Workers :
                      /\ At(w, "save") /\ req[w].draft = d
                      /\ req[w].name = draft'[d].user \/ req[w].overtaken
      PROVE  HandedOver
  BY <1>3 DEF HandedOver, NoneOvertaken
<1>4. QED
  BY <1>1, <1>2, <1>3, Invariance, HandOversStand, PTL DEF Spec, HandOverStands

=============================================================================
