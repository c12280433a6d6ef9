---------------------------- MODULE SurveyLedger ----------------------------
(***************************************************************************)
(* What the server promises to whoever defines surveys and fills them in:  *)
(* a snapshot is checked against its survey and stored in one instant, in  *)
(* which the survey is there; a survey is withdrawn only when no stored    *)
(* snapshot was filled in against it; ids are never used again.  Module    *)
(* Surveys, in which a submission reads the survey, checks and inserts     *)
(* while other requests go on, implements this specification.              *)
(***************************************************************************)
CONSTANTS SurveyIds, SnapshotIds,
          Accepted,   \* definition |-> the submissions it accepts
          None        \* nothing under this id

VARIABLES survey,          \* the definition under each id
          filled,          \* what was submitted, and against which survey
          usedSurveys,     \* ids handed out
          usedSnapshots

Init ==
    /\ survey = [s \in SurveyIds |-> None]
    /\ filled = [n \in SnapshotIds |-> None]
    /\ usedSurveys = {}
    /\ usedSnapshots = {}

Define(s, c) ==
    /\ s \notin usedSurveys
    /\ survey' = [survey EXCEPT ![s] = c]
    /\ usedSurveys' = usedSurveys \cup {s}
    /\ UNCHANGED <<filled, usedSnapshots>>

Withdraw(s) ==
    /\ \A n \in SnapshotIds : filled[n] # None => filled[n].survey # s
    /\ survey' = [survey EXCEPT ![s] = None]
    /\ UNCHANGED <<filled, usedSurveys, usedSnapshots>>

Draw(n) ==
    /\ n \notin usedSnapshots
    /\ usedSnapshots' = usedSnapshots \cup {n}
    /\ UNCHANGED <<survey, usedSurveys>>

Submit(n, s, d) ==
    /\ survey[s] # None
    /\ d \in Accepted[survey[s]]
    /\ filled' = [filled EXCEPT ![n] = [survey |-> s, data |-> d]]
    /\ Draw(n)

\* The snapshot is refused after its id was drawn.
Refuse(n) == Draw(n) /\ UNCHANGED filled

Remove(n) ==
    /\ filled' = [filled EXCEPT ![n] = None]
    /\ UNCHANGED <<survey, usedSurveys, usedSnapshots>>

Next ==
    \/ \E s \in SurveyIds : Withdraw(s) \/ \E c \in DOMAIN Accepted : Define(s, c)
    \/ \E n \in SnapshotIds :
         \/ Refuse(n) \/ Remove(n)
         \/ \E s \in SurveyIds : \E d \in UNION {Accepted[c] : c \in DOMAIN Accepted} :
              Submit(n, s, d)

Spec == Init /\ [][Next]_<<survey, filled, usedSurveys, usedSnapshots>>
=============================================================================
