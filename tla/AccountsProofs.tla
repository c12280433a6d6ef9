--------------------------- MODULE AccountsProofs ---------------------------
(***************************************************************************)
(* Proofs about Accounts, for every number of workers, names and ids and   *)
(* every offset of the server's clock.                                     *)
(***************************************************************************)
EXTENDS Accounts, FiniteSetTheorems, TLAPS

(* Rounding an instant down to its day loses less than a day of it.        *)
LEMMA DayOf ==
    ASSUME NEW t \in Int
    PROVE  /\ t \div Day \in Int
           /\ (t \div Day) * Day <= t
           /\ t < (t \div Day) * Day + Day
BY DayAssumption

(* A worker whose request is replaced by a well-typed one leaves req       *)
(* well-typed.                                                             *)
LEMMA SetType ==
    ASSUME req \in [Workers -> Request], NEW w \in Workers,
           NEW r \in Request, Set(w, r)
    PROVE  req' \in [Workers -> Request]
BY DEF Set

(* The ways a request is changed keep it well-typed.                       *)
LEMMA RequestShapes ==
    /\ Idle \in Request
    /\ \A st \in Steps, row \in UserRow :
         [Idle EXCEPT !.step = st, !.row = row] \in Request
    /\ \A st \in Steps, u \in UserIds :
         [Idle EXCEPT !.step = st, !.user = u] \in Request
    /\ \A st \in Steps, u \in UserIds, k \in TokenIds, row \in UserRow :
         [Idle EXCEPT !.step = st, !.user = u, !.token = k, !.row = row]
           \in Request
    /\ \A r \in Request, st \in Steps, k \in TokenIds :
         [r EXCEPT !.step = st, !.token = k] \in Request
    /\ \A r \in Request, st \in Steps : [r EXCEPT !.step = st] \in Request
<1>1. "idle" \in Steps
  BY DEF Steps
<1>2. QED
  BY <1>1 DEF Idle, Request

(* Every operation leaves the tables and the requests within their types.  *)
LEMMA TypeInductive == TypeOK /\ ResetTargetKept /\ [Next]_vars => TypeOK'
<1> SUFFICES ASSUME TypeOK, ResetTargetKept, [Next]_vars PROVE TypeOK'
  OBVIOUS
<1> USE BoundsAssumption DEF TypeOK
<1>a. \A w \in Workers : req[w] \in Request
  OBVIOUS
<1>b. \A w \in Workers : /\ req[w].user \in UserIds \cup {None}
                         /\ req[w].row \in UserRow \cup {None}
  BY <1>a DEF Request
<1>c. \A w \in Workers : Finish(w) => req' \in [Workers -> Request]
  BY RequestShapes, SetType DEF Finish
<1>d. {"insertUser", "saveToken", "sendMail", "findToken", "savePassword"}
        \subseteq Steps
  BY DEF Steps
<1>1. ASSUME NEW w \in Workers, NEW row \in UserRow, CheckName(w, row)
      PROVE  TypeOK'
  <2>1. req' \in [Workers -> Request]
    BY <1>1, <1>d, RequestShapes, SetType DEF CheckName
  <2>2. QED
    BY <1>1, <2>1 DEF CheckName
<1>2. ASSUME NEW w \in Workers, InsertUser(w) PROVE TypeOK'
  <2>1. userSeq + 1 \in UserIds /\ userSeq + 1 \in 0 .. MaxUsers
    BY <1>2 DEF InsertUser, UserIds
  <2>2. req[w].row \in UserRow
    BY <1>2, <1>b DEF InsertUser, ResetTargetKept, Pending
  <2>3. QED
    BY <1>2, <1>c, <2>1, <2>2 DEF InsertUser
<1>3. ASSUME NEW u \in UserIds, DeleteUser(u) PROVE TypeOK'
  BY <1>3 DEF DeleteUser
<1>4. ASSUME NEW w \in Workers, NEW e \in Emails, FindUserByEmail(w, e)
      PROVE  TypeOK'
  <2>1. req' \in [Workers -> Request]
    BY <1>4, <1>d, RequestShapes, SetType DEF FindUserByEmail
  <2>2. QED
    BY <1>4, <2>1 DEF FindUserByEmail
<1>5. ASSUME NEW w \in Workers, SaveToken(w) PROVE TypeOK'
  <2> DEFINE row == [user |-> req[w].user, date |-> ExpiryDate(now),
                     issued |-> now]
  <2>1. tokenSeq + 1 \in TokenIds /\ tokenSeq + 1 \in 0 .. MaxTokens
    BY <1>5 DEF SaveToken, TokenIds
  <2>2. req[w].user \in UserIds
    BY <1>5, <1>b DEF SaveToken, ResetTargetKept, Pending
  <2>3. now \in Nat /\ ExpiryDate(now) \in Int
    BY DayAssumption, OffsetAssumption, DayOf DEF ExpiryDate, Expiration
  <2>4. row \in TokenRow
    BY <2>2, <2>3 DEF TokenRow
  <2>5. req' \in [Workers -> Request]
    BY <1>5, <1>a, <1>c, <1>d, <2>1, RequestShapes, SetType DEF SaveToken
  <2>6. token' \in [TokenIds -> TokenRow \cup {None}]
    BY <1>5, <2>4 DEF SaveToken
  <2>7. QED
    BY <1>5, <2>1, <2>5, <2>6 DEF SaveToken
<1>6. ASSUME NEW w \in Workers, SendMail(w) PROVE TypeOK'
  BY <1>6, <1>c DEF SendMail
<1>7. ASSUME NEW w \in Workers, NEW u \in UserIds, NEW k \in TokenIds,
             NEW pass \in Passes, LoadUser(w, u, k, pass)
      PROVE  TypeOK'
  <2>1. [user[u] EXCEPT !.pass = pass] \in UserRow
    BY <1>7 DEF LoadUser, UserRow
  <2>2. req' \in [Workers -> Request]
    BY <1>7, <1>d, <2>1, RequestShapes, SetType DEF LoadUser
  <2>3. QED
    BY <1>7, <2>2 DEF LoadUser
<1>8. ASSUME NEW w \in Workers, FindToken(w) PROVE TypeOK'
  <2>1. req' \in [Workers -> Request]
    BY <1>8, <1>a, <1>c, <1>d, RequestShapes, SetType DEF FindToken
  <2>2. QED
    BY <1>8, <2>1 DEF FindToken
<1>9. ASSUME NEW w \in Workers, SavePassword(w) PROVE TypeOK'
  <2>1. req[w].row \in UserRow
    BY <1>9, <1>b DEF SavePassword, ResetTargetKept, Pending, Loaded
  <2>2. QED
    BY <1>9, <1>c, <2>1 DEF SavePassword
<1>10. ASSUME NEW w \in Workers, Abort(w) PROVE TypeOK'
  BY <1>10, <1>c DEF Abort
<1>11. CASE Tick
  BY <1>11 DEF Tick
<1>12. CASE UNCHANGED vars
  BY <1>12 DEF vars
<1>13. QED
  BY <1>1, <1>2, <1>3, <1>4, <1>5, <1>6, <1>7, <1>8, <1>9, <1>10, <1>11,
     <1>12 DEF Next

(* A request that goes on or ends leaves the others what they hold, if the  *)
(* tables only gain rows under new ids, lose users without a token, or      *)
(* change a password.                                                       *)
LEMMA OthersKept ==
    ASSUME TypeOK, ResetTargetKept, NEW v \in Workers, req'[v] = req[v],
           userSeq' \in Nat, userSeq <= userSeq',
           \A u \in UserIds : u <= userSeq =>
             /\ user'[u] # None =>
                  /\ user[u] # None
                  /\ \A row \in UserRow :
                       row = [user[u] EXCEPT !.pass = row.pass] =>
                         row = [user'[u] EXCEPT !.pass = row.pass]
             /\ TokensOf(u) # {} /\ user[u] # None => user'[u] # None,
           \A k \in TokenIds : token[k] # None => token'[k] = token[k]
    PROVE  Pending(v)'
<1> DEFINE u == req[v].user  row == req[v].row
<1>1. Pending(v) /\ req[v] \in Request /\ userSeq \in Nat
  BY BoundsAssumption DEF ResetTargetKept, TypeOK
<1>2. \A x \in UserIds : x \in Int
  BY DEF UserIds
<1>3. Loaded(v) => Loaded(v)'
  <2> SUFFICES ASSUME Loaded(v) PROVE Loaded(v)'
    OBVIOUS
  <2>1. u \in UserIds /\ row \in UserRow /\ u <= userSeq
    BY <1>1 DEF Loaded, Request
  <2>2. u <= userSeq'
    BY <1>1, <1>2, <2>1
  <2>3. user'[u] # None => row = [user'[u] EXCEPT !.pass = row.pass]
    BY <2>1 DEF Loaded
  <2>4. QED
    BY <2>2, <2>3 DEF Loaded
<1>4. At(v, "savePassword") => user'[u] # None
  <2> SUFFICES ASSUME At(v, "savePassword") PROVE user'[u] # None
    OBVIOUS
  <2>1. /\ u \in UserIds /\ u <= userSeq /\ user[u] # None
        /\ req[v].token \in TokenIds
        /\ token[req[v].token] # None /\ token[req[v].token].user = u
    BY <1>1 DEF Pending, Loaded, Request
  <2>2. TokensOf(u) # {}
    BY <2>1 DEF TokensOf
  <2>3. QED
    BY <2>1, <2>2
<1>5. At(v, "savePassword") =>
        token'[req[v].token] # None /\ token'[req[v].token].user = u
  BY <1>1 DEF Pending, Loaded, Request
<1>6. QED
  BY <1>1, <1>3, <1>4, <1>5 DEF Pending, At

(* Replacing one request while users and tokens stay as they are.          *)
LEMMA ReplacedRequest ==
    ASSUME TypeOK, ResetTargetKept, NEW w \in Workers, NEW r \in Request,
           Set(w, r), UNCHANGED <<user, userSeq, token, tokenSeq>>, Pending(w)'
    PROVE  ResetTargetKept'
<1>1. \A v \in Workers : v # w => req'[v] = req[v]
  BY DEF Set, TypeOK
<1>2. ASSUME NEW v \in Workers, v # w PROVE Pending(v)'
  BY <1>1, <1>2 DEF ResetTargetKept, Pending, Loaded, At
<1>3. QED
  BY <1>2 DEF ResetTargetKept

(* An idle worker holds nothing that could become untrue.                  *)
LEMMA IdlePending ==
    ASSUME NEW w \in Workers, req'[w] = Idle
    PROVE  Pending(w)'
BY DEF Pending, At, Idle

(* Every operation keeps each token with its user and each reset with the   *)
(* row it will change.                                                      *)
LEMMA TargetInductive == TypeOK /\ ResetTargetKept /\ [Next]_vars => ResetTargetKept'
<1> SUFFICES ASSUME TypeOK, ResetTargetKept, [Next]_vars PROVE ResetTargetKept'
  OBVIOUS
<1>a. \A w \in Workers : req[w] \in Request /\ Pending(w)
  BY DEF TypeOK, ResetTargetKept
<1>b. userSeq \in Nat /\ \A u \in UserIds : u \in Int
  BY BoundsAssumption DEF TypeOK, UserIds
<1>c. \A w \in Workers : Finish(w) =>
        /\ req'[w] = Idle
        /\ \A v \in Workers : v # w => req'[v] = req[v]
  BY DEF Finish, Set, TypeOK
<1>d. {"insertUser", "saveToken", "sendMail", "findToken", "savePassword"}
        \subseteq Steps
  BY DEF Steps
<1>e. ASSUME NEW w \in Workers, Finish(w), UNCHANGED <<user, userSeq, token, tokenSeq>>
      PROVE  ResetTargetKept'
  BY <1>c, <1>e, RequestShapes, IdlePending, ReplacedRequest DEF Finish
<1>1. ASSUME NEW w \in Workers, NEW row \in UserRow, CheckName(w, row)
      PROVE  ResetTargetKept'
  <2> DEFINE r == [Idle EXCEPT !.step = "insertUser", !.row = row]
  <2>1. /\ r \in Request /\ Set(w, r) /\ UNCHANGED <<user, userSeq, token, tokenSeq>>
        /\ req'[w] = r
    BY <1>1, <1>d, RequestShapes DEF CheckName, Set, TypeOK
  <2>2. r.step = "insertUser" /\ r.row = row
    BY DEF Idle
  <2>3. Pending(w)'
    BY <2>1, <2>2, SentinelAssumption DEF Pending, At
  <2>4. QED
    BY <2>1, <2>3, ReplacedRequest
<1>2. ASSUME NEW w \in Workers, InsertUser(w) PROVE ResetTargetKept'
  <2>1. /\ userSeq' = userSeq + 1 /\ UNCHANGED <<token, tokenSeq>>
        /\ \A u \in UserIds : u # userSeq + 1 => user'[u] = user[u]
        /\ req[w].row # None
        /\ user' = [user EXCEPT ![userSeq + 1] = req[w].row]
    BY <1>2, <1>a DEF InsertUser, TypeOK, Pending
  <2>2. ASSUME NEW u \in UserIds, u <= userSeq PROVE user'[u] = user[u]
    BY <1>b, <2>1, <2>2
  <2>3. ASSUME NEW v \in Workers, v # w PROVE Pending(v)'
    <3>1. req'[v] = req[v]
      BY <1>2, <1>c, <2>3 DEF InsertUser
    <3>2. userSeq' \in Nat /\ userSeq <= userSeq'
      BY <1>b, <2>1
    <3>3. QED
      BY <2>1, <2>2, <3>1, <3>2, OthersKept
  <2>4. Pending(w)'
    BY <1>2, <1>c, IdlePending DEF InsertUser
  <2>5. \A u \in UserIds : user'[u] # None => u <= userSeq'
    BY <1>b, <2>1 DEF ResetTargetKept
  <2>6. \A k \in TokenIds : token[k] # None => token[k].user \in UserIds
    BY DEF TypeOK, TokenRow
  <2>7. ASSUME NEW k \in TokenIds, token[k] # None
        PROVE  k <= tokenSeq /\ user'[token[k].user] # None
    <3>1. token[k].user \in UserIds /\ user[token[k].user] # None
      BY <2>6, <2>7 DEF ResetTargetKept
    <3>2. token[k].user <= userSeq
      BY <3>1 DEF ResetTargetKept
    <3>3. QED
      BY <2>2, <2>7, <3>1, <3>2 DEF ResetTargetKept
  <2>8. \A v \in Workers : Pending(v)'
    BY <2>3, <2>4
  <2>9. QED
    BY <2>1, <2>5, <2>7, <2>8 DEF ResetTargetKept
<1>3. ASSUME NEW u \in UserIds, DeleteUser(u) PROVE ResetTargetKept'
  <2>1. /\ UNCHANGED <<userSeq, token, tokenSeq, req>> /\ TokensOf(u) = {}
        /\ \A x \in UserIds : user'[x] = IF x = u THEN None ELSE user[x]
    BY <1>3 DEF DeleteUser, TypeOK
  <2>2. \A k \in TokenIds : token[k] # None =>
          token[k].user \in UserIds /\ token[k].user # u
    BY <2>1 DEF TokensOf, TypeOK, TokenRow
  <2>3. \A v \in Workers : Pending(v)'
    BY <1>b, <2>1, OthersKept
  <2>4. QED
    BY <2>1, <2>2, <2>3 DEF ResetTargetKept
<1>4. ASSUME NEW w \in Workers, NEW e \in Emails, FindUserByEmail(w, e)
      PROVE  ResetTargetKept'
  <2>1. PICK u \in UserIds : Set(w, [Idle EXCEPT !.step = "saveToken", !.user = u])
    BY <1>4 DEF FindUserByEmail
  <2> DEFINE r == [Idle EXCEPT !.step = "saveToken", !.user = u]
  <2>2. /\ r \in Request /\ UNCHANGED <<user, userSeq, token, tokenSeq>> /\ req'[w] = r
    BY <1>4, <1>d, <2>1, RequestShapes DEF FindUserByEmail, Set, TypeOK
  <2>3. r.step = "saveToken" /\ r.user = u /\ u # None
    BY SentinelAssumption, <1>b DEF Idle
  <2>4. Pending(w)'
    BY <2>2, <2>3 DEF Pending, At
  <2>5. QED
    BY <2>1, <2>2, <2>4, ReplacedRequest
<1>5. ASSUME NEW w \in Workers, SaveToken(w) PROVE ResetTargetKept'
  <2> DEFINE k == tokenSeq + 1
  <2>1. /\ tokenSeq \in Nat /\ tokenSeq' = k
        /\ UNCHANGED <<user, userSeq>> /\ At(w, "saveToken")
        /\ \A j \in TokenIds : j \in Int
    BY <1>5, BoundsAssumption DEF SaveToken, TypeOK, TokenIds
  <2>2. \A j \in TokenIds : token[j] # None => j # k /\ j <= tokenSeq'
    BY <2>1 DEF ResetTargetKept
  <2>3. \A j \in TokenIds : token[j] # None => token'[j] = token[j]
    BY <1>5, <2>2 DEF SaveToken, TypeOK
  <2>4. \A v \in Workers : v # w => req'[v] = req[v]
    BY <1>5 DEF SaveToken, Finish, Set, TypeOK
  <2>5. ASSUME NEW v \in Workers, v # w PROVE Pending(v)'
    BY <1>b, <2>1, <2>3, <2>4, <2>5, OthersKept
  <2>6. Pending(w)'
    <3>1. req'[w] = Idle \/ req'[w].step = "sendMail"
      <4>1. [req[w] EXCEPT !.step = "sendMail", !.token = k].step = "sendMail"
        BY <1>a DEF Request
      <4>2. QED
        BY <1>5, <1>c, <4>1 DEF SaveToken, Set, TypeOK
    <3>2. QED
      BY <3>1, IdlePending DEF Pending, At
  <2>7. ASSUME NEW j \in TokenIds, token'[j] # None
        PROVE  j <= tokenSeq' /\ user'[token'[j].user] # None
    <3>1. CASE token[j] # None
      BY <2>1, <2>2, <2>3, <3>1 DEF ResetTargetKept
    <3>2. CASE token[j] = None
      <4>1. /\ j = k /\ token'[j].user = req[w].user
            /\ user[req[w].user] # None
        BY <1>5, <2>7, <3>2 DEF SaveToken, TypeOK
      <4>2. QED
        BY <2>1, <4>1
    <3>3. QED
      BY <3>1, <3>2
  <2>8. QED
    BY <2>1, <2>5, <2>6, <2>7 DEF ResetTargetKept
<1>6. ASSUME NEW w \in Workers, SendMail(w) \/ Abort(w) PROVE ResetTargetKept'
  BY <1>6, <1>e DEF SendMail, Abort
<1>7. ASSUME NEW w \in Workers, NEW u \in UserIds, NEW k \in TokenIds,
             NEW pass \in Passes, LoadUser(w, u, k, pass)
      PROVE  ResetTargetKept'
  <2> DEFINE row == [user[u] EXCEPT !.pass = pass]
             r == [Idle EXCEPT !.step = "findToken", !.user = u, !.token = k,
                               !.row = row]
  <2>1. user[u] \in UserRow /\ user[u] # None /\ u <= userSeq
    BY <1>7 DEF LoadUser, TypeOK, ResetTargetKept
  <2>2. /\ row \in UserRow /\ row # None
        /\ row = [user[u] EXCEPT !.pass = row.pass]
    BY <2>1, SentinelAssumption DEF UserRow
  <2>3. /\ r \in Request /\ Set(w, r) /\ UNCHANGED <<user, userSeq, token, tokenSeq>>
        /\ req'[w] = r
    BY <1>7, <1>d, <2>2, RequestShapes DEF LoadUser, Set, TypeOK
  <2>4. r.step = "findToken" /\ r.user = u /\ r.token = k /\ r.row = row
    BY DEF Idle
  <2>5. u # None /\ k # None
    BY SentinelAssumption DEF UserIds, TokenIds
  <2> HIDE DEF row, r
  <2>6. Loaded(w)'
    BY <2>1, <2>2, <2>3, <2>4, <2>5 DEF Loaded
  <2>7. Pending(w)'
    BY <2>3, <2>4, <2>6 DEF Pending, At
  <2>8. QED
    BY <2>3, <2>7, ReplacedRequest
<1>8. ASSUME NEW w \in Workers, FindToken(w) PROVE ResetTargetKept'
  <2>1. UNCHANGED <<user, userSeq, token, tokenSeq>> /\ At(w, "findToken")
    BY <1>8 DEF FindToken
  <2>2. CASE Finish(w)
    BY <1>e, <2>1, <2>2
  <2>3. CASE /\ Valid(req[w].token, req[w].user)
             /\ Set(w, [req[w] EXCEPT !.step = "savePassword"])
    <3> DEFINE r == [req[w] EXCEPT !.step = "savePassword"]
    <3>1. r \in Request /\ req'[w] = r
      BY <1>a, <1>d, <2>3, RequestShapes DEF Set, TypeOK
    <3>2. /\ r.step = "savePassword" /\ r.user = req[w].user
          /\ r.row = req[w].row /\ r.token = req[w].token
      BY <1>a DEF Request
    <3>3. Loaded(w) /\ Loaded(w)'
      BY <1>a, <2>1, <3>1, <3>2 DEF Pending, Loaded
    <3>4. /\ token[req[w].token] # None
          /\ token[req[w].token].user = req[w].user
          /\ req[w].token \in TokenIds
      BY <1>a, <2>3, <3>3 DEF Valid, Loaded, Request
    <3>5. user[req[w].user] # None
      BY <3>4 DEF ResetTargetKept
    <3> HIDE DEF r
    <3>6. Pending(w)'
      BY <2>1, <3>1, <3>2, <3>3, <3>4, <3>5 DEF Pending, At
    <3>7. QED
      BY <2>1, <2>3, <3>1, <3>6, ReplacedRequest DEF r
  <2>4. QED
    BY <1>8, <2>2, <2>3 DEF FindToken
<1>9. ASSUME NEW w \in Workers, SavePassword(w) PROVE ResetTargetKept'
  <2> DEFINE u == req[w].user  row == req[w].row
  <2>1. /\ Loaded(w) /\ user[u] # None /\ u \in UserIds /\ row \in UserRow
        /\ user[u] \in UserRow
        /\ UNCHANGED <<userSeq, token, tokenSeq>>
    BY <1>9, <1>a DEF SavePassword, Pending, Loaded, Request, TypeOK
  <2>2. \A x \in UserIds : user'[x] = IF x = u THEN row ELSE user[x]
    BY <1>9, <2>1 DEF SavePassword, TypeOK
  <2>3. row = [user[u] EXCEPT !.pass = row.pass] /\ row # None
    BY <2>1 DEF Loaded
  <2>4. \A q \in UserRow : q = [user[u] EXCEPT !.pass = q.pass] =>
                             q = [row EXCEPT !.pass = q.pass]
    BY <2>1, <2>3 DEF UserRow
  <2> HIDE DEF u, row
  <2>5. ASSUME NEW v \in Workers, v # w PROVE Pending(v)'
    <3>1. req'[v] = req[v]
      BY <1>9, <1>c, <2>5 DEF SavePassword
    <3>2. \A x \in UserIds : user[x] # None => user'[x] # None
      BY <2>2, <2>3
    <3>3. \A x \in UserIds : user'[x] # None =>
            /\ user[x] # None
            /\ \A q \in UserRow : q = [user[x] EXCEPT !.pass = q.pass] =>
                                    q = [user'[x] EXCEPT !.pass = q.pass]
      BY <2>1, <2>2, <2>4
    <3>4. QED
      BY <1>b, <2>1, <3>1, <3>2, <3>3, OthersKept
  <2>6. Pending(w)'
    BY <1>9, <1>c, IdlePending DEF SavePassword
  <2>7. \A k \in TokenIds : token[k] # None => token[k].user \in UserIds
    BY DEF TypeOK, TokenRow
  <2>8. QED
    BY <2>1, <2>2, <2>3, <2>5, <2>6, <2>7 DEF ResetTargetKept
<1>10. CASE UNCHANGED <<user, userSeq, token, tokenSeq, req>>
  BY <1>10 DEF ResetTargetKept, Pending, Loaded, At
<1>11. QED
  BY <1>1, <1>2, <1>3, <1>4, <1>5, <1>6, <1>7, <1>8, <1>9, <1>10
     DEF Next, Tick, vars

-----------------------------------------------------------------------------
IInv == TypeOK /\ ResetTargetKept

(* Types and the targets of the resets hold in every reachable state: each  *)
(* needs the other, a write of a loaded row is only typed if there is one.  *)
LEMMA Invariance == Spec => []IInv
<1>1. Init => IInv
  <2> SUFFICES ASSUME Init PROVE IInv
    OBVIOUS
  <2>1. TypeOK
    <3>1. req \in [Workers -> Request]
      BY RequestShapes DEF Init
    <3>2. 0 \in 0 .. MaxUsers /\ 0 \in 0 .. MaxTokens /\ 0 \in 0 .. MaxTime
      BY BoundsAssumption
    <3>3. QED
      BY <3>1, <3>2 DEF Init, TypeOK
  <2>2. \A w \in Workers : Pending(w)
    BY DEF Init, Pending, At, Idle
  <2>3. QED
    BY <2>1, <2>2 DEF Init, IInv, ResetTargetKept
<1>2. IInv /\ [Next]_vars => IInv'
  BY TypeInductive, TargetInductive DEF IInv
<1>3. QED
  BY <1>1, <1>2, PTL DEF Spec

(* The tables and the requests never leave their types.                    *)
THEOREM TypeCorrect == Spec => []TypeOK
<1>1. IInv => TypeOK
  BY DEF IInv
<1>2. QED
  BY Invariance, <1>1, PTL

(* A token is never without its user, and a password is only ever written   *)
(* with a row that agrees, the password apart, with the one in the table.   *)
THEOREM TargetsStayKept == Spec => []ResetTargetKept
<1>1. IInv => ResetTargetKept
  BY DEF IInv
<1>2. QED
  BY Invariance, <1>1, PTL

-----------------------------------------------------------------------------
(* Expiry of the tokens *)

\* The date of a token is the one computed when it was issued.
DatesComputed ==
    \A k \in TokenIds : token[k] # None => token[k].date = ExpiryDate(token[k].issued)

(* A token is stored once and never changed.                               *)
LEMMA DatesInductive ==
    TypeOK /\ DatesComputed /\ [Next]_vars => DatesComputed'
<1> SUFFICES ASSUME TypeOK, DatesComputed, [Next]_vars PROVE DatesComputed'
  OBVIOUS
<1>1. CASE UNCHANGED token
  BY <1>1 DEF DatesComputed
<1>2. ASSUME NEW w \in Workers, SaveToken(w) PROVE DatesComputed'
  <2>1. \A k \in TokenIds : \/ token'[k] = token[k]
                            \/ token'[k].date = ExpiryDate(token'[k].issued)
    BY <1>2 DEF SaveToken, TypeOK
  <2>2. QED
    BY <2>1 DEF DatesComputed
<1>3. QED
  BY <1>1, <1>2 DEF Next, CheckName, InsertUser, DeleteUser,
     FindUserByEmail, SendMail, LoadUser, FindToken, SavePassword, Abort, Tick,
     vars

(* From a day after its issue on, shifted by the clock's offset, a token is *)
(* refused, whenever in the day it was issued.                              *)
THEOREM TokensExpire == Spec => []TokenNeverOutlivesTerm
<1>1. Init => DatesComputed
  BY DEF Init, DatesComputed
<1>2. TypeOK /\ DatesComputed => TokenNeverOutlivesTerm
  <2> SUFFICES ASSUME TypeOK, DatesComputed, NEW k \in TokenIds,
                      token[k] # None,
                      now >= token[k].issued + Expiration + Offset
               PROVE  Expired(token[k].date, now)
    BY DEF TokenNeverOutlivesTerm
  <2> DEFINE t == token[k].issued + Expiration + Offset
  <2>1. t \in Int /\ now \in Int
    BY DayAssumption, OffsetAssumption, BoundsAssumption
       DEF TypeOK, TokenRow, Expiration
  <2>2. token[k].date = t \div Day
    BY DEF DatesComputed, ExpiryDate
  <2>3. t \div Day \in Int /\ (t \div Day) * Day <= t
    BY <2>1, DayOf
  <2>4. (t \div Day) * Day \in Int
    BY <2>3, DayAssumption
  <2> HIDE DEF t
  <2>5. QED
    <3> DEFINE x == (t \div Day) * Day
    <3>1. x \in Int /\ x <= t /\ t <= now
      BY <2>3, <2>4 DEF t
    <3> HIDE DEF x
    <3>2. x - now <= 0
      BY <2>1, <3>1
    <3>3. QED
      BY <2>2, <3>2 DEF Expired, x
<1>3. QED
  BY TypeCorrect, DatesInductive, <1>1, <1>2, PTL DEF Spec

(* Days are told apart by where they begin.                                *)
LEMMA DaysApart ==
    ASSUME NEW p \in Int, NEW q \in Int, p * Day < q * Day + Day
    PROVE  p <= q
<1>1. SUFFICES ASSUME p >= q + 1 PROVE FALSE
  OBVIOUS
<1>2. p * Day >= (q + 1) * Day
  BY <1>1, DayAssumption
<1>3. (q + 1) * Day = q * Day + Day
  BY DayAssumption
<1>4. QED
  BY <1>2, <1>3, DayAssumption

(* An instant and its hour: what is left after rounding down to the day.   *)
LEMMA HourOf ==
    ASSUME NEW t \in Int
    PROVE  t % Day \in 0 .. Day - 1 /\ t = (t \div Day) * Day + (t % Day)
BY DayAssumption

(* A token issued before the hour that local time is behind UTC expires     *)
(* with the midnight before it, any other with a later one.                *)
LEMMA DateOfIssue ==
    ASSUME NEW t \in Int
    PROVE  ExpiryDate(t) <= t \div Day <=> (t % Day) + Offset < 0
<1> DEFINE q == t \div Day
           h == t % Day
           d == ExpiryDate(t)
           x == d * Day
           y == q * Day
<1>1. q \in Int /\ h \in 0 .. Day - 1 /\ t = y + h
  BY HourOf, DayOf
<1>2. t + Expiration + Offset \in Int /\ t + Expiration + Offset = y + h + Day + Offset
  <2> y \in Int
    BY <1>1, DayAssumption
  <2> QED
    BY <1>1, DayAssumption, OffsetAssumption DEF Expiration
<1>3. d \in Int /\ x <= y + h + Day + Offset /\ y + h + Day + Offset < x + Day
  BY <1>2, DayOf DEF ExpiryDate
<1>4. x \in Int /\ y \in Int
  BY <1>1, <1>3, DayAssumption
<1> HIDE DEF q, h, d
<1>5. ASSUME h + Offset < 0 PROVE d <= q
  <2>1. x < y + Day
    BY <1>1, <1>3, <1>4, <1>5, DayAssumption, OffsetAssumption
  <2>2. QED
    BY <1>1, <1>3, <2>1, DaysApart
<1>6. ASSUME h + Offset >= 0 PROVE ~(d <= q)
  <2>1. y < x
    BY <1>1, <1>3, <1>4, <1>6, DayAssumption, OffsetAssumption
  <2>2. SUFFICES ASSUME d <= q PROVE FALSE
    OBVIOUS
  <2>3. x <= y
    BY <1>1, <1>3, <2>2, DayAssumption
  <2>4. QED
    BY <1>4, <2>1, <2>3
<1>7. QED
  BY <1>1, <1>5, <1>6, OffsetAssumption DEF q, h, d

(* Whether a token can be used on the day of its issue is settled by the   *)
(* hour of its issue and the clock's offset alone.                         *)
THEOREM TokensGoodForTheirDay == Spec => []TokenGoodForItsDay
<1>1. Init => DatesComputed
  BY DEF Init, DatesComputed
<1>2. TypeOK /\ DatesComputed => TokenGoodForItsDay
  <2> SUFFICES ASSUME TypeOK, DatesComputed, NEW k \in TokenIds,
                      token[k] # None, now \div Day = token[k].issued \div Day
               PROVE  Expired(token[k].date, now)
                        <=> (token[k].issued % Day) + Offset < 0
    BY DEF TokenGoodForItsDay
  <2> DEFINE d == token[k].date
             q == now \div Day
             x == d * Day
             y == q * Day
  <2>1. now \in Int /\ token[k].issued \in Int /\ d \in Int
    BY BoundsAssumption DEF TypeOK, TokenRow
  <2>2. d <= q <=> (token[k].issued % Day) + Offset < 0
    BY <2>1, DateOfIssue DEF DatesComputed
  <2>3. q \in Int /\ y <= now /\ now < y + Day
    BY <2>1, DayOf
  <2>4. x \in Int /\ y \in Int
    BY <2>1, <2>3, DayAssumption
  <2>5. Expired(d, now) <=> x <= now
    BY <2>1, <2>4 DEF Expired
  <2> HIDE DEF d, q
  <2>6. x <= now => d <= q
    <3>1. x <= now => x < y + Day
      BY <2>1, <2>3, <2>4, DayAssumption
    <3>2. QED
      BY <2>1, <2>3, <3>1, DaysApart
  <2>7. d <= q => x <= now
    <3>1. d <= q => x <= y
      BY <2>1, <2>3, DayAssumption
    <3>2. QED
      BY <2>1, <2>3, <2>4, <3>1
  <2>8. QED
    BY <2>2, <2>5, <2>6, <2>7 DEF d
<1>3. QED
  BY TypeCorrect, DatesInductive, <1>1, <1>2, PTL DEF Spec

-----------------------------------------------------------------------------
(* What the owner of an account can rely on *)

DeskStep == Desk!Next \/ UNCHANGED <<user, Issued, Permits, 1 .. userSeq,
                                     1 .. tokenSeq, now>>

(* A request that does not stand before the write of a password holds no    *)
(* permit.                                                                  *)
LEMMA PermitEnds ==
    ASSUME TypeOK, NEW w \in Workers, NEW r, Set(w, r), r.step # "savePassword"
    PROVE  Permits' = [Permits EXCEPT ![w] = None]
<1>1. \A v \in Workers : req'[v] = IF v = w THEN r ELSE req[v]
  BY DEF Set, TypeOK
<1>2. \A v \in Workers : Permits'[v] = IF v = w THEN None ELSE Permits[v]
  BY <1>1 DEF Permits, At
<1>3. QED
  BY <1>2 DEF Permits

LEMMA PermitsKept ==
    ASSUME TypeOK, NEW w \in Workers, NEW r, Set(w, r), ~At(w, "savePassword"),
           r.step # "savePassword"
    PROVE  UNCHANGED Permits
<1>1. \A v \in Workers : req'[v] = IF v = w THEN r ELSE req[v]
  BY DEF Set, TypeOK
<1>2. QED
  BY <1>1 DEF Permits, At

(* A user is made under an id of its own.                                   *)
LEMMA SignUpStep ==
    ASSUME IInv, NEW w \in Workers, InsertUser(w)
    PROVE  DeskStep
<1> DEFINE u == userSeq + 1
           used == 1 .. userSeq
<1>1. u \in UserIds /\ u \notin used /\ (1 .. userSeq') = used \cup {u}
  BY BoundsAssumption DEF IInv, TypeOK, InsertUser, UserIds
<1>2. req[w].row \in UserRow
  BY DEF IInv, TypeOK, Request, ResetTargetKept, Pending, InsertUser
<1>3. UNCHANGED <<Issued, Permits, 1 .. tokenSeq, now>>
  BY PermitsKept DEF IInv, InsertUser, Finish, Idle, At, Issued
<1>4. Desk!SignUp(u, req[w].row)
  BY <1>1, <1>3 DEF InsertUser, Desk!SignUp
<1>5. QED
  BY <1>1, <1>2, <1>4 DEF DeskStep, Desk!Next

(* The foreign key of the tokens holds whoever has one, and with it whoever *)
(* has passed the check of one.                                             *)
LEMMA LeaveStep ==
    ASSUME IInv, NEW u \in UserIds, DeleteUser(u)
    PROVE  DeskStep
<1>1. UNCHANGED <<Issued, Permits, 1 .. userSeq, 1 .. tokenSeq, now>>
  BY DEF DeleteUser, Issued, Permits, At
<1>2. \A k \in TokenIds : token[k] # None => token[k].user # u
  BY DEF DeleteUser, TokensOf
<1>3. \A k \in TokenIds : Issued[k] # None => Issued[k].user # u
  BY <1>2 DEF Issued
<1>4. \A w \in Workers : Permits[w] # u
  <2> SUFFICES ASSUME NEW w \in Workers, Permits[w] = u PROVE FALSE
    OBVIOUS
  <2>1. u # None
    BY SentinelAssumption DEF UserIds
  <2>2. At(w, "savePassword") /\ req[w].user = u
    BY <2>1 DEF Permits
  <2>3. /\ req[w].token \in TokenIds /\ token[req[w].token] # None
        /\ token[req[w].token].user = u
    BY <2>2 DEF IInv, TypeOK, Request, ResetTargetKept, Pending, Loaded
  <2>4. QED
    BY <1>2, <2>3
<1>5. Desk!Leave(u)
  BY <1>1, <1>3, <1>4 DEF DeleteUser, Desk!Leave
<1>6. QED
  BY <1>5 DEF DeskStep, Desk!Next

(* A token is issued to a user who is there at that instant.                *)
LEMMA IssueStep ==
    ASSUME IInv, NEW w \in Workers, SaveToken(w)
    PROVE  DeskStep
<1> DEFINE k == tokenSeq + 1
           used == 1 .. tokenSeq
           u == req[w].user
<1>1. k \in TokenIds /\ k \notin used /\ (1 .. tokenSeq') = used \cup {k}
  BY BoundsAssumption DEF IInv, TypeOK, SaveToken, TokenIds
<1>2. u \in UserIds
  BY DEF IInv, TypeOK, Request, ResetTargetKept, Pending, SaveToken
<1>3. UNCHANGED Permits
  <2>1. [req[w] EXCEPT !.step = "sendMail", !.token = k].step # "savePassword"
    BY DEF IInv, TypeOK, Request
  <2>2. QED
    BY <2>1, PermitsKept DEF IInv, SaveToken, Finish, Idle, At
<1>4. Desk!Draw(k)
  BY <1>1, <1>3 DEF SaveToken, Desk!Draw
<1>5. CASE user[u] # None
  <2> DEFINE row == [user |-> u, date |-> ExpiryDate(now), issued |-> now]
  <2>1. token' = [token EXCEPT ![k] = row]
    BY <1>5 DEF SaveToken
  <2>2. row \in TokenRow
    BY <1>2, DayAssumption, OffsetAssumption, BoundsAssumption, DayOf
       DEF IInv, TypeOK, TokenRow, ExpiryDate, Expiration
  <2>3. row # None
    BY <2>2, SentinelAssumption
  <2>4. row.user = u /\ row.issued = now
    OBVIOUS
  <2> HIDE DEF row
  <2>5. \A j \in TokenIds :
          Issued'[j] = IF j = k THEN [user |-> u, issued |-> now] ELSE Issued[j]
    BY <2>1, <2>3, <2>4 DEF Issued, IInv, TypeOK
  <2>6. Issued' = [Issued EXCEPT ![k] = [user |-> u, issued |-> now]]
    BY <2>5 DEF Issued
  <2>7. Desk!Issue(k, u)
    BY <1>4, <1>5, <2>6 DEF Desk!Issue
  <2>8. QED
    BY <1>1, <1>2, <2>7 DEF DeskStep, Desk!Next
<1>6. CASE user[u] = None
  <2>1. Desk!Waste(k)
    BY <1>4, <1>6 DEF SaveToken, Issued, Desk!Waste
  <2>2. QED
    BY <1>1, <2>1 DEF DeskStep, Desk!Next
<1>7. QED
  BY <1>5, <1>6

(* The check gives a permit against a token within its term.                *)
LEMMA PermitStep ==
    ASSUME IInv, TokenNeverOutlivesTerm, NEW w \in Workers, FindToken(w)
    PROVE  DeskStep
<1> DEFINE k == req[w].token
           u == req[w].user
<1>1. UNCHANGED <<user, Issued, 1 .. userSeq, 1 .. tokenSeq, now>>
  BY DEF FindToken, Issued
<1>2. CASE Valid(k, u) /\ Set(w, [req[w] EXCEPT !.step = "savePassword"])
  <2>1. k \in TokenIds /\ token[k] # None /\ token[k].user = u /\ u \in UserIds
    BY <1>2 DEF IInv, TypeOK, Request, TokenRow, ResetTargetKept, Pending, Loaded,
       FindToken, Valid
  <2>2. now < token[k].issued + (Expiration + Offset)
    <3>1. ~(now >= token[k].issued + Expiration + Offset)
      BY <1>2, <2>1 DEF TokenNeverOutlivesTerm, Valid
    <3>2. now \in Int /\ token[k].issued \in Int /\ Expiration \in Int /\ Offset \in Int
      BY <2>1, DayAssumption, OffsetAssumption, BoundsAssumption
         DEF IInv, TypeOK, TokenRow, Expiration
    <3>3. QED
      BY <3>1, <3>2
  <2>3. Issued[k] = [user |-> u, issued |-> token[k].issued]
    BY <2>1 DEF Issued
  <2>4. Permits' = [Permits EXCEPT ![w] = u]
    <3>1. \A v \in Workers : v # w => req'[v] = req[v]
      BY <1>2 DEF Set, IInv, TypeOK
    <3>2. req'[w].step = "savePassword" /\ req'[w].user = u
      BY <1>2 DEF Set, IInv, TypeOK, Request
    <3>3. \A v \in Workers : Permits'[v] = IF v = w THEN u ELSE Permits[v]
      BY <3>1, <3>2 DEF Permits, At
    <3>4. QED
      BY <3>3 DEF Permits
  <2>5. Issued[k] # None
    <3>1. token[k].issued \in Nat
      BY <2>1 DEF IInv, TypeOK, TokenRow
    <3>2. QED
      BY <2>1, <2>3, <3>1, SentinelAssumption
  <2>6. Desk!Permit(w, k)
    BY <1>1, <2>2, <2>3, <2>4, <2>5 DEF Desk!Permit
  <2>7. QED
    BY <2>1, <2>6 DEF DeskStep, Desk!Next
<1>3. CASE Finish(w)
  <2>1. UNCHANGED Permits
    BY <1>3, PermitsKept DEF IInv, FindToken, Finish, Idle, At
  <2>2. QED
    BY <1>1, <2>1 DEF DeskStep
<1>4. QED
  BY <1>2, <1>3 DEF FindToken

(* The write of the whole row changes the password alone, of the user whose *)
(* token was looked at.                                                     *)
LEMMA ChangeStep ==
    ASSUME IInv, NEW w \in Workers, SavePassword(w)
    PROVE  DeskStep
<1> DEFINE u == req[w].user
           row == req[w].row
<1>1. /\ u \in UserIds /\ u # None /\ user[u] # None /\ Permits[w] = u
      /\ row \in UserRow /\ row = [user[u] EXCEPT !.pass = row.pass]
  BY DEF IInv, TypeOK, Request, ResetTargetKept, Pending, Loaded, SavePassword, Permits
<1>2. user' = [user EXCEPT ![u] = row]
  BY <1>1 DEF SavePassword
<1>3. user' = [user EXCEPT ![Permits[w]].pass = row.pass]
  <2>1. user \in [UserIds -> UserRow \cup {None}]
    BY DEF IInv, TypeOK
  <2>2. [user EXCEPT ![u].pass = row.pass]
          = [user EXCEPT ![u] = [user[u] EXCEPT !.pass = row.pass]]
    BY <1>1, <2>1
  <2>3. QED
    BY <1>1, <1>2, <2>2
<1>4. Permits' = [Permits EXCEPT ![w] = None]
  BY PermitEnds DEF IInv, SavePassword, Finish, Idle
<1>5. UNCHANGED <<Issued, 1 .. userSeq, 1 .. tokenSeq, now>>
  BY DEF SavePassword, Issued
<1>6. Desk!Change(w, row.pass)
  BY <1>1, <1>3, <1>4, <1>5 DEF Desk!Change
<1>7. row.pass \in Passes
  BY <1>1 DEF UserRow
<1>8. QED
  BY <1>6, <1>7 DEF DeskStep, Desk!Next

(* Every call is a step at the desk or none.                                *)
LEMMA StepAtDesk == IInv /\ TokenNeverOutlivesTerm /\ [Next]_vars => DeskStep
<1> SUFFICES ASSUME IInv, TokenNeverOutlivesTerm, [Next]_vars PROVE DeskStep
  OBVIOUS
<1>1. ASSUME NEW w \in Workers, NEW r, Set(w, r), ~At(w, "savePassword"),
             r.step # "savePassword", UNCHANGED <<user, userSeq, token, tokenSeq, now>>
      PROVE  DeskStep
  <2>1. UNCHANGED Permits
    BY <1>1, PermitsKept DEF IInv
  <2>2. QED
    BY <1>1, <2>1 DEF DeskStep, Issued
<1>2. ASSUME NEW w \in Workers, NEW row \in UserRow, CheckName(w, row) PROVE DeskStep
  BY <1>1, <1>2 DEF CheckName, At, Idle
<1>3. ASSUME NEW w \in Workers, NEW e \in Emails, FindUserByEmail(w, e) PROVE DeskStep
  BY <1>1, <1>3 DEF FindUserByEmail, At, Idle
<1>4. ASSUME NEW w \in Workers, SendMail(w) PROVE DeskStep
  BY <1>1, <1>4 DEF SendMail, Finish, At, Idle
<1>5. ASSUME NEW w \in Workers, NEW u \in UserIds, NEW k \in TokenIds,
             NEW pass \in Passes, LoadUser(w, u, k, pass)
      PROVE  DeskStep
  BY <1>1, <1>5 DEF LoadUser, At, Idle
<1>6. ASSUME NEW w \in Workers, Abort(w) PROVE DeskStep
  <2>1. Permits' = [Permits EXCEPT ![w] = None]
    BY <1>6, PermitEnds DEF IInv, Abort, Finish, Idle
  <2>2. Desk!Drop(w)
    BY <1>6, <2>1 DEF Desk!Drop, Abort, Issued
  <2>3. QED
    BY <2>2 DEF DeskStep, Desk!Next
<1>7. CASE Tick
  <2>1. UNCHANGED <<user, Issued, Permits, 1 .. userSeq, 1 .. tokenSeq>>
    BY <1>7 DEF Tick, Issued, Permits, At
  <2>2. now' = now + 1 \/ now' = now
    BY <1>7 DEF Tick
  <2>3. QED
    BY <2>1, <2>2 DEF DeskStep, Desk!Next, Desk!PassTime
<1>8. CASE UNCHANGED vars
  BY <1>8 DEF vars, DeskStep, Issued, Permits, At
<1>9. QED
  BY <1>2, <1>3, <1>4, <1>5, <1>6, <1>7, <1>8,
     SignUpStep, LeaveStep, IssueStep, PermitStep, ChangeStep DEF Next

(* Accounts implements PasswordDesk: whatever happens between the look at a *)
(* token and the write, a password changes only by a permit for its user,   *)
(* given against a token of that user within its term.                      *)
THEOREM ResetsArePermitted == Spec => ResetsPermitted
<1>1. Init => Desk!Init
  BY DEF Init, Desk!Init, Issued, Permits, At, Idle
<1>2. IInv /\ TokenNeverOutlivesTerm /\ [Next]_vars
        => [Desk!Next]_<<user, Issued, Permits, 1 .. userSeq, 1 .. tokenSeq, now>>
  BY StepAtDesk DEF DeskStep
<1>3. QED
  BY <1>1, <1>2, Invariance, TokensExpire, PTL
     DEF Spec, ResetsPermitted, Desk!Spec, Desk!vars

-----------------------------------------------------------------------------
(* How many users can share a name *)

Bounded(n) ==
    Cardinality(FindByName(n)) + Cardinality(Inserting(n)) <= Cardinality(Workers)

(* The users of a name and the requests that insert it are finitely many.   *)
LEMMA FiniteParts ==
    \A n \in Names :
        /\ IsFiniteSet(FindByName(n)) /\ IsFiniteSet(Inserting(n))
        /\ Cardinality(FindByName(n)) \in Nat /\ Cardinality(Inserting(n)) \in Nat
        /\ Cardinality(Workers) \in Nat
<1> TAKE n \in Names
<1>1. IsFiniteSet(UserIds)
  BY BoundsAssumption, FS_Interval DEF UserIds
<1>2. FindByName(n) \in SUBSET UserIds /\ Inserting(n) \in SUBSET Workers
  BY DEF FindByName, Inserting
<1>3. IsFiniteSet(FindByName(n)) /\ IsFiniteSet(Inserting(n))
  BY <1>1, <1>2, WorkersAssumption, FS_Subset
<1>4. QED
  BY <1>3, WorkersAssumption, FS_CardinalityType

(* A step that adds to neither set keeps the bound.                        *)
LEMMA ShrinkingKeepsBound ==
    ASSUME NEW n \in Names, Bounded(n),
           FindByName(n)' \subseteq FindByName(n), Inserting(n)' \subseteq Inserting(n)
    PROVE  Bounded(n)'
<1> DEFINE F == FindByName(n)'  I == Inserting(n)'
<1>1. /\ IsFiniteSet(FindByName(n)) /\ IsFiniteSet(Inserting(n))
      /\ Cardinality(FindByName(n)) \in Nat /\ Cardinality(Inserting(n)) \in Nat
      /\ Cardinality(Workers) \in Nat
  BY FiniteParts
<1>2. IsFiniteSet(F) /\ Cardinality(F) <= Cardinality(FindByName(n))
  BY <1>1, FS_Subset
<1>3. IsFiniteSet(I) /\ Cardinality(I) <= Cardinality(Inserting(n))
  BY <1>1, FS_Subset
<1>4. Cardinality(F) \in Nat /\ Cardinality(I) \in Nat
  BY <1>2, <1>3, FS_CardinalityType
<1>5. Cardinality(F) + Cardinality(I) <= Cardinality(Workers)
  <2> HIDE DEF F, I
  <2> QED
    BY <1>1, <1>2, <1>3, <1>4 DEF Bounded
<1>6. QED
  BY <1>5 DEF Bounded

(* The check passes only while no user has the name: every worker may then  *)
(* be about to insert it, and no user counts.                               *)
LEMMA CheckKeepsBound ==
    ASSUME NEW n \in Names, FindByName(n) = {}, UNCHANGED user
    PROVE  Bounded(n)'
<1> DEFINE I == Inserting(n)'
<1>1. FindByName(n)' = {} /\ I \in SUBSET Workers
  BY DEF FindByName, Inserting
<1>2. Cardinality(I) \in Nat /\ Cardinality(I) <= Cardinality(Workers)
  BY <1>1, WorkersAssumption, FS_Subset, FS_CardinalityType
<1>3. Cardinality(FindByName(n)') = 0
  BY <1>1, FS_EmptySet
<1>4. QED
  BY <1>2, <1>3 DEF Bounded

(* An insert turns one request that inserts the name into one more user.    *)
LEMMA InsertKeepsBound ==
    ASSUME TypeOK, NEW n \in Names, Bounded(n), NEW w \in Workers, InsertUser(w)
    PROVE  Bounded(n)'
<1>1. Inserting(n)' = Inserting(n) \ {w}
  BY DEF InsertUser, Inserting, TypeOK, Finish, Set, Idle, At
<1>2. CASE req[w].row.name = n
  <2> DEFINE q == userSeq + 1  F == FindByName(n)'  I == Inserting(n)'
             T == FindByName(n) \cup {q}
  <2>1. F \subseteq T
    BY DEF InsertUser, FindByName, TypeOK
  <2>2. w \in Inserting(n)
    BY <1>2 DEF InsertUser, Inserting
  <2>3. /\ IsFiniteSet(FindByName(n)) /\ IsFiniteSet(Inserting(n))
        /\ Cardinality(FindByName(n)) \in Nat /\ Cardinality(Inserting(n)) \in Nat
        /\ Cardinality(Workers) \in Nat
    BY FiniteParts
  <2>4. IsFiniteSet(T) /\ Cardinality(T) <= Cardinality(FindByName(n)) + 1
    <3>1. /\ IsFiniteSet(T)
          /\ Cardinality(T) = IF q \in FindByName(n)
                              THEN Cardinality(FindByName(n))
                              ELSE Cardinality(FindByName(n)) + 1
      BY <2>3, FS_AddElement
    <3>2. QED
      BY <2>3, <3>1
  <2>5. Cardinality(I) = Cardinality(Inserting(n)) - 1
    BY <1>1, <2>2, <2>3, FS_RemoveElement
  <2>6. IsFiniteSet(F) /\ Cardinality(F) <= Cardinality(T)
    BY <2>1, <2>4, FS_Subset
  <2>7. Cardinality(F) \in Nat /\ Cardinality(T) \in Nat
    BY <2>4, <2>6, FS_CardinalityType
  <2>8. Cardinality(F) + Cardinality(I) <= Cardinality(Workers)
    <3> HIDE DEF F, I, T
    <3> QED
      BY <2>3, <2>4, <2>5, <2>6, <2>7 DEF Bounded
  <2>9. QED
    BY <2>8 DEF Bounded
<1>3. CASE req[w].row.name # n
  <2>1. FindByName(n)' \subseteq FindByName(n)
    BY <1>3 DEF InsertUser, FindByName, TypeOK
  <2>2. QED
    BY <1>1, <2>1, ShrinkingKeepsBound
<1>4. QED
  BY <1>2, <1>3

(* Only the check lets a request insert; a password change leaves names as  *)
(* they are, because it writes back the row it has loaded.                  *)
LEMMA BoundInductive ==
    ASSUME TypeOK, ResetTargetKept, SharedNamesBounded, [Next]_vars
    PROVE  SharedNamesBounded'
<1> SUFFICES ASSUME NEW n \in Names PROVE Bounded(n)'
  BY DEF SharedNamesBounded, Bounded
<1>0. Bounded(n)
  BY DEF SharedNamesBounded, Bounded
<1>a. \A w \in Workers : req[w] \in Request
  BY DEF TypeOK
<1>b. ASSUME FindByName(n)' \subseteq FindByName(n), NEW w \in Workers,
             NEW r, Set(w, r), r.step # "insertUser"
      PROVE  Bounded(n)'
  <2>1. Inserting(n)' \subseteq Inserting(n)
    BY <1>b DEF Inserting, At, Set, TypeOK
  <2>2. QED
    BY <1>0, <1>b, <2>1, ShrinkingKeepsBound
<1>c. UNCHANGED user => FindByName(n)' \subseteq FindByName(n)
  BY DEF FindByName
<1>d. Idle.step # "insertUser"
  BY DEF Idle
<1>e. \A w \in Workers : UNCHANGED user /\ Finish(w) => Bounded(n)'
  BY <1>b, <1>c, <1>d DEF Finish
<1>1. ASSUME NEW w \in Workers, NEW row \in UserRow, CheckName(w, row)
      PROVE  Bounded(n)'
  <2>1. UNCHANGED user
    BY <1>1 DEF CheckName
  <2>2. CASE row.name = n
    BY <1>1, <2>1, <2>2, CheckKeepsBound DEF CheckName
  <2>3. CASE row.name # n
    <3> DEFINE r == [Idle EXCEPT !.step = "insertUser", !.row = row]
    <3>1. Set(w, r)
      BY <1>1 DEF CheckName
    <3>2. r.row = row
      BY DEF Idle
    <3>3. Inserting(n)' \subseteq Inserting(n)
      BY <2>3, <3>1, <3>2 DEF Inserting, At, Set, TypeOK
    <3>4. QED
      BY <1>0, <1>c, <2>1, <3>3, ShrinkingKeepsBound
  <2>4. QED
    BY <2>2, <2>3
<1>2. ASSUME NEW w \in Workers, InsertUser(w) PROVE Bounded(n)'
  BY <1>0, <1>2, InsertKeepsBound
<1>3. ASSUME NEW u \in UserIds, DeleteUser(u) PROVE Bounded(n)'
  <2>1. FindByName(n)' \subseteq FindByName(n)
    BY <1>3 DEF DeleteUser, FindByName, TypeOK
  <2>2. Inserting(n)' \subseteq Inserting(n)
    BY <1>3 DEF DeleteUser, Inserting, At
  <2>3. QED
    BY <1>0, <2>1, <2>2, ShrinkingKeepsBound
<1>4. ASSUME NEW w \in Workers, NEW e \in Emails, FindUserByEmail(w, e)
      PROVE  Bounded(n)'
  <2>1. PICK u \in UserIds : Set(w, [Idle EXCEPT !.step = "saveToken", !.user = u])
    BY <1>4 DEF FindUserByEmail
  <2>2. [Idle EXCEPT !.step = "saveToken", !.user = u].step # "insertUser"
    BY DEF Idle
  <2>3. QED
    BY <1>4, <1>b, <1>c, <2>1, <2>2 DEF FindUserByEmail
<1>5. ASSUME NEW w \in Workers, SaveToken(w) PROVE Bounded(n)'
  <2> DEFINE r == [req[w] EXCEPT !.step = "sendMail", !.token = tokenSeq + 1]
  <2>1. UNCHANGED user /\ (Set(w, r) \/ Finish(w))
    BY <1>5 DEF SaveToken
  <2>2. r.step # "insertUser"
    BY <1>a DEF Request
  <2>3. QED
    BY <1>b, <1>c, <1>e, <2>1, <2>2
<1>6. ASSUME NEW w \in Workers, SendMail(w) \/ Abort(w) PROVE Bounded(n)'
  BY <1>6, <1>e DEF SendMail, Abort
<1>7. ASSUME NEW w \in Workers, NEW u \in UserIds, NEW k \in TokenIds,
             NEW pass \in Passes, LoadUser(w, u, k, pass)
      PROVE  Bounded(n)'
  <2> DEFINE r == [Idle EXCEPT !.step = "findToken", !.user = u, !.token = k,
                               !.row = [user[u] EXCEPT !.pass = pass]]
  <2>1. Set(w, r) /\ UNCHANGED user
    BY <1>7 DEF LoadUser
  <2>2. r.step # "insertUser"
    BY DEF Idle
  <2>3. QED
    BY <1>b, <1>c, <2>1, <2>2
<1>8. ASSUME NEW w \in Workers, FindToken(w) PROVE Bounded(n)'
  <2> DEFINE r == [req[w] EXCEPT !.step = "savePassword"]
  <2>1. UNCHANGED user /\ (Set(w, r) \/ Finish(w))
    BY <1>8 DEF FindToken
  <2>2. r.step # "insertUser"
    BY <1>a DEF Request
  <2>3. QED
    BY <1>b, <1>c, <1>e, <2>1, <2>2
<1>9. ASSUME NEW w \in Workers, SavePassword(w) PROVE Bounded(n)'
  <2> DEFINE u == req[w].user  row == req[w].row
  <2>1. Pending(w) /\ At(w, "savePassword")
    BY <1>9 DEF SavePassword, ResetTargetKept
  <2>2. /\ u \in UserIds /\ user[u] # None /\ user[u] \in UserRow
        /\ row = [user[u] EXCEPT !.pass = row.pass]
    BY <1>a, <2>1 DEF Pending, Loaded, Request, TypeOK
  <2>3. row.name = user[u].name
    BY <2>2 DEF UserRow
  <2>4. \A x \in UserIds : user'[x] = IF x = u THEN row ELSE user[x]
    BY <1>9, <2>2 DEF SavePassword, TypeOK
  <2> HIDE DEF u, row
  <2>5. FindByName(n)' \subseteq FindByName(n)
    BY <2>2, <2>3, <2>4 DEF FindByName
  <2>6. QED
    BY <1>9, <1>b, <1>d, <2>5 DEF SavePassword, Finish
<1>10. CASE UNCHANGED <<user, req>>
  <2>1. Inserting(n)' \subseteq Inserting(n)
    BY <1>10 DEF Inserting, At
  <2>2. QED
    BY <1>0, <1>10, <1>c, <2>1, ShrinkingKeepsBound
<1>11. QED
  BY <1>1, <1>2, <1>3, <1>4, <1>5, <1>6, <1>7, <1>8, <1>9, <1>10
     DEF Next, Tick, vars

(* Names are kept apart only by a check before the insert: as many users as *)
(* there are workers can come to share one, and never more.                 *)
THEOREM SharingStaysBounded == Spec => []SharedNamesBounded
<1>1. Init => SharedNamesBounded
  <2> SUFFICES ASSUME Init, NEW n \in Names PROVE Bounded(n)
    BY DEF SharedNamesBounded, Bounded
  <2>1. FindByName(n) = {} /\ Inserting(n) = {}
    BY DEF Init, FindByName, Inserting, At, Idle
  <2>2. Cardinality(FindByName(n)) = 0 /\ Cardinality(Inserting(n)) = 0
    BY <2>1, FS_EmptySet
  <2>3. QED
    BY <2>2, FiniteParts DEF Bounded
<1>2. IInv /\ SharedNamesBounded /\ [Next]_vars => SharedNamesBounded'
  BY BoundInductive DEF IInv
<1>3. QED
  BY Invariance, <1>1, <1>2, PTL DEF Spec

\* Each name is one user's.
NamesUnique ==
    \A u, v \in UserIds :
        user[u] # None /\ user[v] # None /\ user[u].name = user[v].name => u = v

(* Requests that are served one after the other keep the names apart, also *)
(* when users are deleted and made again: names are shared only by races.  *)
THEOREM SequentialKeepsNames ==
    ASSUME Cardinality(Workers) = 1
    PROVE  Spec => []NamesUnique
<1>1. TypeOK /\ SharedNamesBounded => NamesUnique
  <2> SUFFICES ASSUME TypeOK, SharedNamesBounded,
                      NEW u \in UserIds, NEW v \in UserIds,
                      user[u] # None, user[v] # None, user[u].name = user[v].name
               PROVE  u = v
    BY DEF NamesUnique
  <2> DEFINE n == user[u].name
  <2>1. n \in Names
    BY DEF TypeOK, UserRow
  <2>2. u \in FindByName(n) /\ v \in FindByName(n)
    BY DEF FindByName
  <2> HIDE DEF n
  <2>3. /\ IsFiniteSet(FindByName(n)) /\ Cardinality(FindByName(n)) \in Nat
        /\ Cardinality(FindByName(n)) <= 1
    BY <2>1, FiniteParts DEF SharedNamesBounded
  <2>4. Cardinality(FindByName(n)) # 0
    BY <2>2, <2>3, FS_EmptySet
  <2>5. Cardinality(FindByName(n)) = 1
    BY <2>3, <2>4
  <2>6. \E x : FindByName(n) = {x}
    <3>1. IsFiniteSet(FindByName(n))
      BY <2>3
    <3>2. QED
      BY <2>5, <3>1, FS_Singleton, Zenon
  <2>7. QED
    BY <2>2, <2>6
<1>2. QED
  BY <1>1, TypeCorrect, SharingStaysBounded, PTL

=============================================================================
