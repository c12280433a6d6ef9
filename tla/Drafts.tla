-------------------------------- MODULE Drafts --------------------------------
(***************************************************************************)
(* The drafts of snapshots: SnapshotDraftServiceImpl.                      *)
(*                                                                         *)
(* A draft is kept for its user, who may hand it over to another one with  *)
(* PUT, and is listed for some days after it was created.  POST looks its  *)
(* user up before it inserts the row; PUT loads the whole row, perhaps     *)
(* looks a user up, and writes the whole row back: three transactions, with*)
(* other requests, the deletion of users and the clock in between.         *)
(*                                                                         *)
(* The name on a draft, its survey and its policies never change and are   *)
(* left out; of state_draft is kept whether a PUT changes it.              *)
(***************************************************************************)
EXTENDS Integers

CONSTANTS
    Workers,     \* server threads, each handles one request at a time
    Users,       \* ids of users
    MaxDrafts,   \* bound: draft ids
    MaxAge,      \* SNAPSHOT_DRAFT_MAX_DAY, in ticks of the clock
    MaxTime,     \* bound: ticks of the clock
    SetBack,     \* ticks the clock is put back when summer time ends
    None         \* no row, no user named

DraftIds == 1 .. MaxDrafts
Times == 0 .. MaxTime

ASSUME DraftsAssumption ==
    /\ MaxDrafts \in Nat /\ MaxTime \in Nat
    /\ MaxAge \in Nat /\ SetBack \in Nat
    /\ None \notin Users

VARIABLES
    now,       \* LocalDateTime.now()
    users,     \* the rows of security.users
    draft,     \* the rows of data_collect.snapshot_draft
    idSeq,     \* snapshot_draft_id_seq
    req        \* the request each worker is serving

vars == <<now, users, draft, idSeq, req>>

Row == [user : Users, created : Times]

ASSUME NoRowAssumption == None \notin Row

\* user and created are the columns of the entity in memory, loadedUser what
\* findOne read; edits tells that state_draft is set to another value.
\* overtaken is history: the row was written by others since findOne.
Request == [step       : {"idle", "persist", "insert", "findUser", "save", "delete"},
            draft      : DraftIds \cup {None},
            name       : Users \cup {None},
            user       : Users \cup {None},
            loadedUser : Users \cup {None},
            created    : Times,
            edits      : BOOLEAN,
            overtaken  : BOOLEAN]

Idle == [step |-> "idle", draft |-> None, name |-> None, user |-> None,
         loadedUser |-> None, created |-> 0, edits |-> FALSE, overtaken |-> FALSE]

Init ==
    /\ now = 0
    /\ users = Users
    /\ draft = [d \in DraftIds |-> None]
    /\ idSeq = 0
    /\ req = [w \in Workers |-> Idle]

Present == {d \in DraftIds : draft[d] # None}

At(w, s) == req[w].step = s
Set(w, r) == req' = [req EXCEPT ![w] = r]
Finish(w) == Set(w, Idle)

-----------------------------------------------------------------------------
(* POST /snapshots/drafts.  With the id of a draft there is, the merge would*)
(* empty created_at, which is NOT NULL; with another id it inserts all the  *)
(* same.  Without a survey or a policy the insert fails.  See Abort.        *)

\* dtoToEntity; without the user, user_id would be NULL and the insert fail.
FindOwner(w, u) ==
    /\ At(w, "idle")
    /\ u \in users
    /\ Set(w, [Idle EXCEPT !.step = "persist", !.name = u, !.user = u])
    /\ UNCHANGED <<now, users, draft, idSeq>>

\* preSave.
Persist(w) ==
    /\ At(w, "persist")
    /\ Set(w, [req[w] EXCEPT !.step = "insert", !.created = now])
    /\ UNCHANGED <<now, users, draft, idSeq>>

\* Mutant: user_id has no foreign key.
InsertUnchecked(w) ==
    /\ At(w, "insert")
    /\ idSeq < MaxDrafts
    /\ idSeq' = idSeq + 1
    /\ draft' = [draft EXCEPT ![idSeq + 1] =
                   [user |-> req[w].user, created |-> req[w].created]]
    /\ Finish(w)
    /\ UNCHANGED <<now, users>>

\* Mutant: dtoToEntity leaves the user out, and user_id may be NULL.
InsertOrphan(w) ==
    /\ At(w, "insert")
    /\ idSeq < MaxDrafts
    /\ idSeq' = idSeq + 1
    /\ draft' = [draft EXCEPT ![idSeq + 1] =
                   [user |-> None, created |-> req[w].created]]
    /\ Finish(w)
    /\ UNCHANGED <<now, users>>

\* The foreign key is checked with the insert; the id shows with it.
Insert(w) ==
    /\ At(w, "insert")
    /\ req[w].user \in users
    /\ idSeq < MaxDrafts
    /\ idSeq' = idSeq + 1
    /\ draft' = [draft EXCEPT ![idSeq + 1] =
                   [user |-> req[w].user, created |-> req[w].created]]
    /\ Finish(w)
    /\ UNCHANGED <<now, users>>

-----------------------------------------------------------------------------
(* PUT /snapshots/drafts/{id}: updateSnapshotDraft.                        *)

FindDraft(w, d, name, edits) ==
    /\ At(w, "idle")
    /\ d \in Present
    /\ Set(w, [Idle EXCEPT
         !.step = IF name = None THEN "save" ELSE "findUser",
         !.draft = d, !.name = name, !.user = draft[d].user,
         !.loadedUser = draft[d].user, !.created = draft[d].created,
         !.edits = edits])
    /\ UNCHANGED <<now, users, draft, idSeq>>

\* Mutant: the user found is not the one that was named.
FindAnyUser(w) ==
    /\ At(w, "findUser")
    /\ \E u \in users : Set(w, [req[w] EXCEPT !.step = "save", !.user = u])
    /\ UNCHANGED <<now, users, draft, idSeq>>

\* Throws when there is no such user.
FindUser(w) ==
    /\ At(w, "findUser")
    /\ IF req[w].name \in users
       THEN Set(w, [req[w] EXCEPT !.step = "save", !.user = req[w].name])
       ELSE Finish(w)
    /\ UNCHANGED <<now, users, draft, idSeq>>

\* Others that loaded the draft hold a stale copy from here on.
EndSave(w) ==
    req' = [v \in Workers |->
              IF v = w THEN Idle
              ELSE IF req[v].draft = req[w].draft
                   THEN [req[v] EXCEPT !.overtaken = TRUE] ELSE req[v]]

Written(w) == [user |-> req[w].user, created |-> req[w].created]

\* Mutant: a row that is gone is inserted again.
SaveAgain(w) ==
    /\ At(w, "save")
    /\ req[w].user \in users
    /\ draft' = [draft EXCEPT ![req[w].draft] = Written(w)]
    /\ EndSave(w)
    /\ UNCHANGED <<now, users, idSeq>>

\* Mutant: the entity is stamped with every save.
SaveStamped(w) ==
    /\ At(w, "save")
    /\ req[w].draft \in Present /\ req[w].user \in users
    /\ draft' = [draft EXCEPT ![req[w].draft] = [Written(w) EXCEPT !.created = now]]
    /\ EndSave(w)
    /\ UNCHANGED <<now, users, idSeq>>

\* The dirty entity is flushed, all its columns; the update fails, and
\* nothing is written, when the row or its user is gone.
Save(w) ==
    /\ At(w, "save")
    /\ req[w].edits \/ req[w].user # req[w].loadedUser
    /\ IF req[w].draft \in Present /\ req[w].user \in users
       THEN draft' = [draft EXCEPT ![req[w].draft] = Written(w)] /\ EndSave(w)
       ELSE draft' = draft /\ Finish(w)
    /\ UNCHANGED <<now, users, idSeq>>

\* An entity that is not dirty is not written; whether its row is still
\* there goes unnoticed.
SaveClean(w) ==
    /\ At(w, "save")
    /\ ~req[w].edits /\ req[w].user = req[w].loadedUser
    /\ Finish(w)
    /\ UNCHANGED <<now, users, draft, idSeq>>

-----------------------------------------------------------------------------
(* DELETE /snapshots/drafts/{id}: deleteSnapshotDraft.                     *)

FindToDelete(w, d) ==
    /\ At(w, "idle")
    /\ d \in Present
    /\ Set(w, [Idle EXCEPT !.step = "delete", !.draft = d])
    /\ UNCHANGED <<now, users, draft, idSeq>>

\* Fails when the row is gone by now.
DeleteDraft(w) ==
    /\ At(w, "delete")
    /\ draft' = [draft EXCEPT ![req[w].draft] = None]
    /\ Finish(w)
    /\ UNCHANGED <<now, users, idSeq>>

-----------------------------------------------------------------------------
(* Around them.                                                            *)

\* DELETE /users/{id}: fk_user_snapshot_draft refuses it while the user has
\* drafts, listed or not.
DeleteUser(u) ==
    /\ u \in users
    /\ \A d \in Present : draft[d].user # u
    /\ users' = users \ {u}
    /\ UNCHANGED <<now, draft, idSeq, req>>

\* Any other failure: nothing is written.
Abort(w) ==
    /\ ~At(w, "idle")
    /\ Finish(w)
    /\ UNCHANGED <<now, users, draft, idSeq>>

Tick ==
    /\ now < MaxTime
    /\ now' = now + 1
    /\ UNCHANGED <<users, draft, idSeq, req>>

PutBack ==
    /\ now >= SetBack
    /\ now' = now - SetBack
    /\ UNCHANGED <<users, draft, idSeq, req>>

Next ==
    \/ \E w \in Workers :
         \/ \E u \in Users : FindOwner(w, u)
         \/ Persist(w) \/ Insert(w)
         \/ \E d \in DraftIds, name \in Users \cup {None}, edits \in BOOLEAN :
              FindDraft(w, d, name, edits)
         \/ FindUser(w) \/ Save(w) \/ SaveClean(w)
         \/ \E d \in DraftIds : FindToDelete(w, d)
         \/ DeleteDraft(w) \/ Abort(w)
    \/ \E u \in Users : DeleteUser(u)
    \/ Tick \/ PutBack

Spec == Init /\ [][Next]_vars

-----------------------------------------------------------------------------
(* Properties                                                              *)

\* createdAtLessDays: what GET /snapshots/drafts lists to the user of d.
Listed(d) == draft[d].created > now - MaxAge

(* The rows and the requests hold what their columns and fields allow.     *)
TypeOK ==
    /\ now \in Times
    /\ users \subseteq Users
    /\ draft \in [DraftIds -> Row \cup {None}]
    /\ idSeq \in 0 .. MaxDrafts
    /\ req \in [Workers -> Request]

(* Whatever user a POST or a PUT had looked up when DELETE /users/{id} took *)
(* the row away, no draft is left with a user there is not: its listing     *)
(* would be out of everyone's reach.                                        *)
OwnersExist == \A d \in Present : draft[d].user \in users

(* A draft that was deleted stays so: neither a PUT that had loaded it      *)
(* before brings it back, nor does a POST get its id.                       *)
DeletedForGood ==
    [][\A d \in DraftIds : (d <= idSeq /\ draft[d] = None) => draft'[d] = None]_vars

(* A draft that has left the listing does not come back to it, whoever      *)
(* edits it or hands it over: no save renews the date.  Only a clock that   *)
(* is put back returns it.                                                  *)
AgedForGood ==
    [][\A d \in Present :
         (~Listed(d) /\ now <= now') => draft'[d] = None \/ ~(Listed(d)')]_vars

(* A draft changes hands only by a PUT that names its new user, unless that *)
(* PUT was overtaken by another save since it loaded the row: then, as it   *)
(* writes every column, it may take a hand-over back.                       *)
HandOverStands ==
    [][\A d \in Present :
         (draft'[d] # None /\ draft'[d].user # draft[d].user) =>
            \E w \in Workers :
                /\ At(w, "save") /\ req[w].draft = d
                /\ req[w].name = draft'[d].user \/ req[w].overtaken]_vars

=============================================================================
