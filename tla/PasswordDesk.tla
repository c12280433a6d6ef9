---------------------------- MODULE PasswordDesk ----------------------------
(***************************************************************************)
(* What the server promises to the owner of an account: a password is only *)
(* changed with a permit for that very account, a permit is only given     *)
(* against a token of the account that has not outlived its term, a change *)
(* touches nothing but the password, and an account that has tokens is not *)
(* deleted.  Module Accounts, in which a reset loads the account, looks at *)
(* the token and writes the whole row in calls of their own, implements    *)
(* this specification.                                                     *)
(***************************************************************************)
EXTENDS Integers

CONSTANTS Clerks,        \* whoever serves the requests
          UserIds, TokenIds,
          Rows, Passes,  \* what an account holds, its password among it
          Term,          \* how long a token may be good at most
          None           \* nothing under this id, no permit

VARIABLES account,
          token,         \* whose it is and when it was issued
          permit,        \* the account whose password a clerk may change
          usedUsers, usedTokens,   \* ids handed out
          now

vars == <<account, token, permit, usedUsers, usedTokens, now>>

Init ==
    /\ account = [u \in UserIds |-> None]
    /\ token = [k \in TokenIds |-> None]
    /\ permit = [c \in Clerks |-> None]
    /\ usedUsers = {}
    /\ usedTokens = {}
    /\ now = 0

SignUp(u, row) ==
    /\ u \notin usedUsers
    /\ account' = [account EXCEPT ![u] = row]
    /\ usedUsers' = usedUsers \cup {u}
    /\ UNCHANGED <<token, permit, usedTokens, now>>

Leave(u) ==
    /\ \A k \in TokenIds : token[k] # None => token[k].user # u
    /\ \A c \in Clerks : permit[c] # u
    /\ account' = [account EXCEPT ![u] = None]
    /\ UNCHANGED <<token, permit, usedUsers, usedTokens, now>>

Draw(k) ==
    /\ k \notin usedTokens
    /\ usedTokens' = usedTokens \cup {k}
    /\ UNCHANGED <<account, permit, usedUsers, now>>

Issue(k, u) ==
    /\ account[u] # None
    /\ token' = [token EXCEPT ![k] = [user |-> u, issued |-> now]]
    /\ Draw(k)

Waste(k) == Draw(k) /\ UNCHANGED token

Permit(c, k) ==
    /\ token[k] # None
    /\ now < token[k].issued + Term
    /\ permit' = [permit EXCEPT ![c] = token[k].user]
    /\ UNCHANGED <<account, token, usedUsers, usedTokens, now>>

Change(c, pass) ==
    /\ permit[c] # None
    /\ account[permit[c]] # None
    /\ account' = [account EXCEPT ![permit[c]].pass = pass]
    /\ permit' = [permit EXCEPT ![c] = None]
    /\ UNCHANGED <<token, usedUsers, usedTokens, now>>

\* A permit that is not used.
Drop(c) ==
    /\ permit' = [permit EXCEPT ![c] = None]
    /\ UNCHANGED <<account, token, usedUsers, usedTokens, now>>

PassTime ==
    /\ now' = now + 1
    /\ UNCHANGED <<account, token, permit, usedUsers, usedTokens>>

Next ==
    \/ \E u \in UserIds : Leave(u) \/ \E row \in Rows : SignUp(u, row)
    \/ \E k \in TokenIds :
         \/ Waste(k)
         \/ \E u \in UserIds : Issue(k, u)
         \/ \E c \in Clerks : Permit(c, k)
    \/ \E c \in Clerks : Drop(c) \/ \E pass \in Passes : Change(c, pass)
    \/ PassTime

Spec == Init /\ [][Next]_vars
=============================================================================
