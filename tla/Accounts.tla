------------------------------ MODULE Accounts ------------------------------
(***************************************************************************)
(* User accounts and the reset of their passwords: UserServiceImpl and     *)
(* PasswordResetTokenServiceImpl.                                          *)
(*                                                                         *)
(* No operation is a transaction; one action is one repository call (or    *)
(* the sending of one mail) with the Java code up to the next one.  Time   *)
(* passes between any two.  A PUT /users/{id} changes an entity that is     *)
(* never saved and so has no action.                                       *)
(***************************************************************************)
EXTENDS TokenExpiry, FiniteSets

CONSTANTS
    Workers,    \* server threads
    Names,      \* user names
    Emails,     \* mail addresses
    Passes,     \* passwords, as BCryptPasswordEncoder stores them
    MaxUsers,   \* bound: user ids the sequence may hand out
    MaxTokens,  \* bound: token ids
    MaxTime,    \* bound: how long the clock runs
    None        \* no row under this id; in a request, no value

UserIds  == 1 .. MaxUsers
TokenIds == 1 .. MaxTokens

\* Table security.users and table security.password_reset_token; issued is
\* history, the table has only the date.
UserRow  == [name : Names, email : Emails, pass : Passes]
TokenRow == [user : UserIds, date : Int, issued : Nat]

Steps == {"idle", "insertUser", "saveToken", "sendMail", "findToken",
          "savePassword"}

\* row is the row the next write puts into security.users; pass the password
\* a client has sent, token the token it has sent with it.
Request == [step  : Steps,
            user  : UserIds \cup {None},
            row   : UserRow \cup {None},
            token : TokenIds \cup {None}]

Idle == [step |-> "idle", user |-> None, row |-> None, token |-> None]

ASSUME BoundsAssumption ==
    MaxUsers \in Nat /\ MaxTokens \in Nat /\ MaxTime \in Nat

ASSUME SentinelAssumption ==
    /\ None \notin Int
    /\ None \notin UserRow \cup TokenRow \cup [user : UserIds, issued : Nat]

ASSUME WorkersAssumption == IsFiniteSet(Workers) /\ Workers # {}

VARIABLES
    user,      \* table security.users
    userSeq,   \* its id sequence: the last id handed out
    token,     \* table security.password_reset_token
    tokenSeq,  \* its id sequence
    req,       \* the request each worker is serving
    now        \* the server's local clock

vars == <<user, userSeq, token, tokenSeq, req, now>>

Init ==
    /\ user = [u \in UserIds |-> None]
    /\ userSeq = 0
    /\ token = [k \in TokenIds |-> None]
    /\ tokenSeq = 0
    /\ req = [w \in Workers |-> Idle]
    /\ now = 0

-----------------------------------------------------------------------------
FindByName(n) == {u \in UserIds : user[u] # None /\ user[u].name = n}
FindByEmail(e) == {u \in UserIds : user[u] # None /\ user[u].email = e}
TokensOf(u) == {k \in TokenIds : token[k] # None /\ token[k].user = u}

At(w, s) == req[w].step = s
Set(w, r) == req' = [req EXCEPT ![w] = r]
\* The request ends, with its answer or with the exception of a failed call.
Finish(w) == Set(w, Idle)

-----------------------------------------------------------------------------
\* Mutant: only a name that two users have is refused.
CheckNameAmbiguous(w, row) ==
    /\ At(w, "idle")
    /\ Cardinality(FindByName(row.name)) <= 1
    /\ Set(w, [Idle EXCEPT !.step = "insertUser", !.row = row])
    /\ UNCHANGED <<user, userSeq, token, tokenSeq, now>>

(* POST /users: addUser.  A name that is taken is refused, and so is one    *)
(* two users have, with which findOneByUsername throws.                     *)
CheckName(w, row) ==
    /\ At(w, "idle")
    /\ FindByName(row.name) = {}
    /\ Set(w, [Idle EXCEPT !.step = "insertUser", !.row = row])
    /\ UNCHANGED <<user, userSeq, token, tokenSeq, now>>

\* The id of the DTO has another name and is not copied: always an INSERT.
InsertUser(w) ==
    /\ At(w, "insertUser")
    /\ userSeq < MaxUsers
    /\ userSeq' = userSeq + 1
    /\ user' = [user EXCEPT ![userSeq + 1] = req[w].row]
    /\ Finish(w)
    /\ UNCHANGED <<token, tokenSeq, now>>

\* Mutant: no foreign key.
DeleteUserUnchecked(u) ==
    /\ user[u] # None
    /\ user' = [user EXCEPT ![u] = None]
    /\ UNCHANGED <<userSeq, token, tokenSeq, req, now>>

(* DELETE /users/{id}: deleteUser.  The foreign key of the tokens refuses   *)
(* it; a row that vanishes after findOne only makes the delete fail.        *)
DeleteUser(u) ==
    /\ user[u] # None
    /\ TokensOf(u) = {}
    /\ user' = [user EXCEPT ![u] = None]
    /\ UNCHANGED <<userSeq, token, tokenSeq, req, now>>

-----------------------------------------------------------------------------
(* POST /password/resetPassword: resetPassword                              *)

\* Mutant: remembers the address in place of the user's id.
FindWrongColumn(w, e) ==
    /\ At(w, "idle")
    /\ \E u \in UserIds :
         /\ FindByEmail(e) = {u}
         /\ Set(w, [Idle EXCEPT !.step = "saveToken", !.user = user[u].email])
    /\ UNCHANGED <<user, userSeq, token, tokenSeq, now>>

\* No user has the address, or two have: the request fails.
FindUserByEmail(w, e) ==
    /\ At(w, "idle")
    /\ \E u \in UserIds :
         /\ FindByEmail(e) = {u}
         /\ Set(w, [Idle EXCEPT !.step = "saveToken", !.user = u])
    /\ UNCHANGED <<user, userSeq, token, tokenSeq, now>>

\* Fails when the user has been deleted; the id is taken all the same.
SaveToken(w) ==
    /\ At(w, "saveToken")
    /\ tokenSeq < MaxTokens
    /\ tokenSeq' = tokenSeq + 1
    /\ IF user[req[w].user] # None
       THEN /\ token' = [token EXCEPT ![tokenSeq + 1] =
                           [user |-> req[w].user, date |-> ExpiryDate(now),
                            issued |-> now]]
            /\ Set(w, [req[w] EXCEPT !.step = "sendMail",
                                     !.token = tokenSeq + 1])
       ELSE UNCHANGED token /\ Finish(w)
    /\ UNCHANGED <<user, userSeq, now>>

\* Sent or not, the token stays.
SendMail(w) ==
    /\ At(w, "sendMail")
    /\ Finish(w)
    /\ UNCHANGED <<user, userSeq, token, tokenSeq, now>>

-----------------------------------------------------------------------------
(* POST /password/changePassword: validatePasswordResetToken                *)
LoadUser(w, u, k, pass) ==
    /\ At(w, "idle")
    /\ user[u] # None
    /\ Set(w, [Idle EXCEPT !.step = "findToken", !.user = u, !.token = k,
                           !.row = [user[u] EXCEPT !.pass = pass]])
    /\ UNCHANGED <<user, userSeq, token, tokenSeq, now>>

\* Mutant: whose token it is goes unchecked.
ValidForAnyone(k, u) ==
    token[k] # None /\ u \in UserIds /\ ~Expired(token[k].date, now)

\* The token is there, belongs to the user and has not expired.
Valid(k, u) == /\ token[k] # None /\ token[k].user = u
               /\ ~Expired(token[k].date, now)

FindToken(w) ==
    /\ At(w, "findToken")
    /\ IF Valid(req[w].token, req[w].user)
       THEN Set(w, [req[w] EXCEPT !.step = "savePassword"])
       ELSE Finish(w)
    /\ UNCHANGED <<user, userSeq, token, tokenSeq, now>>

\* An UPDATE of every column from the loaded copy; fails when the row is gone.
SavePassword(w) ==
    LET u == req[w].user IN
    /\ At(w, "savePassword")
    /\ user' = IF user[u] = None THEN user ELSE [user EXCEPT ![u] = req[w].row]
    /\ Finish(w)
    /\ UNCHANGED <<userSeq, token, tokenSeq, now>>

-----------------------------------------------------------------------------
\* The connection or the server goes away between two calls.
Abort(w) ==
    /\ ~At(w, "idle")
    /\ Finish(w)
    /\ UNCHANGED <<user, userSeq, token, tokenSeq, now>>

\* The clock never stops; MaxTime only bounds the instance, past it time
\* stands still.
Tick ==
    /\ now' = IF now < MaxTime THEN now + 1 ELSE now
    /\ UNCHANGED <<user, userSeq, token, tokenSeq, req>>

Next ==
    \/ \E w \in Workers :
         \/ \E row \in UserRow : CheckName(w, row)
         \/ \E e \in Emails : FindUserByEmail(w, e)
         \/ \E u \in UserIds, k \in TokenIds, pass \in Passes :
              LoadUser(w, u, k, pass)
         \/ InsertUser(w) \/ SaveToken(w) \/ SendMail(w)
         \/ FindToken(w) \/ SavePassword(w) \/ Abort(w)
    \/ \E u \in UserIds : DeleteUser(u)
    \/ Tick

Spec == Init /\ [][Next]_vars

-----------------------------------------------------------------------------
(* Properties                                                              *)

(* Every table and every request holds what its columns allow.             *)
TypeOK ==
    /\ user \in [UserIds -> UserRow \cup {None}]
    /\ userSeq \in 0 .. MaxUsers
    /\ token \in [TokenIds -> TokenRow \cup {None}]
    /\ tokenSeq \in 0 .. MaxTokens
    /\ req \in [Workers -> Request]
    /\ now \in 0 .. MaxTime

\* The requests that have found the name free and not inserted yet.
Inserting(n) == {w \in Workers : At(w, "insertUser") /\ req[w].row.name = n}

(* Nothing but addUser's check keeps names apart, and the check and the     *)
(* insert are separate transactions: names can be shared, which locks their *)
(* users out, but never by more users than there are workers.               *)
SharedNamesBounded ==
    \A n \in Names :
        Cardinality(FindByName(n)) + Cardinality(Inserting(n))
            <= Cardinality(Workers)

\* The copy a reset has loaded is its user's row but for the password, unless
\* the user has gone; past the check of its token the user is there.
Loaded(w) ==
    LET u == req[w].user  row == req[w].row
    IN  /\ u # None /\ row # None /\ req[w].token # None
        /\ u <= userSeq
        /\ user[u] # None => row = [user[u] EXCEPT !.pass = row.pass]

Pending(w) ==
    /\ At(w, "insertUser") => req[w].row # None
    /\ At(w, "saveToken") => req[w].user # None
    /\ At(w, "findToken") => Loaded(w)
    /\ At(w, "savePassword") =>
         /\ Loaded(w) /\ user[req[w].user] # None
         /\ token[req[w].token] # None /\ token[req[w].token].user = req[w].user

(* A token is never without its user, and a reset that has passed the check *)
(* of its token finds the user still there and, its password apart, as it   *)
(* was loaded: the write of the whole row brings nothing outdated back.     *)
ResetTargetKept ==
    /\ \A u \in UserIds : user[u] # None => u <= userSeq
    /\ \A k \in TokenIds : token[k] # None =>
         k <= tokenSeq /\ user[token[k].user] # None
    /\ \A w \in Workers : Pending(w)

(* A token is refused from a day after its issue on, shifted by the offset  *)
(* the conversion loses: west of Greenwich it never outlives its term.      *)
TokenNeverOutlivesTerm ==
    \A k \in TokenIds : token[k] # None =>
        (now >= token[k].issued + Expiration + Offset =>
            Expired(token[k].date, now))

(* On the day of its issue a token is good or dead from the start, whoever  *)
(* does what in between: it is dead if what the local clock is behind UTC   *)
(* takes the hour of its issue back to the day before, and good otherwise,  *)
(* until midnight at least.                                                 *)
TokenGoodForItsDay ==
    \A k \in TokenIds :
        (token[k] # None /\ now \div Day = token[k].issued \div Day) =>
            (Expired(token[k].date, now) <=> (token[k].issued % Day) + Offset < 0)

(* EXPIRATION is 60 * 24 minutes: a token is good for a day.                *)
TokenLivesItsTerm ==
    \A k \in TokenIds : token[k] # None =>
        (now < token[k].issued + Expiration => ~Expired(token[k].date, now))

\* What the owner of an account can tell of the tables and the requests.
Issued == [k \in TokenIds |->
             IF token[k] = None THEN None
             ELSE [user |-> token[k].user, issued |-> token[k].issued]]
Permits == [w \in Workers |-> IF At(w, "savePassword") THEN req[w].user ELSE None]

(* A reset writes a whole row it loaded two calls earlier, and the token it *)
(* was checked against may expire before it does.  Still every change of a  *)
(* password is one that PasswordDesk allows: with a token of that user that *)
(* was good when it was looked at, of the password alone, once per check.   *)
Desk == INSTANCE PasswordDesk WITH
    Clerks <- Workers, Rows <- UserRow, Term <- Expiration + Offset,
    account <- user, token <- Issued, permit <- Permits,
    usedUsers <- 1 .. userSeq, usedTokens <- 1 .. tokenSeq
ResetsPermitted == Desk!Spec

=============================================================================
