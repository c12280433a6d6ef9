------------------------------- MODULE Reading -------------------------------
(***************************************************************************)
(* Which snapshot of a family is the newest, and what is read off it.      *)
(*                                                                         *)
(* DELETE /families/{id} takes the snapshot with the greatest id, and only *)
(* deletes it when it is recent by the server's local clock; the family    *)
(* map takes the one with the latest createdAt.  The id is drawn and the   *)
(* date is stamped when the snapshot is persisted, in the transaction that *)
(* commits it, while other requests do the same; the local clock jumps     *)
(* ahead and, when summer time ends, is put back.                          *)
(*                                                                         *)
(* This is module Snapshots seen from one family, with the dates and the   *)
(* indicators left out there: the priorities, and what becomes of the row  *)
(* of the family, are left out here.                                       *)
(***************************************************************************)
EXTENDS Calendar, FiniteSets, Sequences

CONSTANTS
    Workers,      \* server threads, each handles one request at a time
    PerDay,       \* ticks of the clock in a day
    Window,       \* FamilySnapshotsManagerImpl.MAX_DAYS_DELETE_SNAPSHOT
    Names,        \* keys of indicators
    Lights,       \* RED, YELLOW and GREEN of SurveyStoplightEnum
    Surveyed,     \* what getAllProperties returns of a snapshot
    Forms,        \* the UI schemas of surveys: uiOrder and groupIndicators
    SetBack,      \* ticks the clock is put back
    MaxSetBacks,  \* bound: how often
    MaxSnapshots, \* bound: snapshot ids
    None          \* no row under this id, no such key, no light

SnapshotIds == 1 .. MaxSnapshots

ASSUME ClockAssumption ==
    /\ PerDay \in Nat \ {0} /\ Window \in Nat \ {0}
    /\ SetBack \in Nat /\ MaxSetBacks \in Nat
    /\ 0 \in Days

\* A value that is no light is as good as none; a key is there once.
ASSUME InputsAssumption ==
    /\ IsFiniteSet(Names) /\ None \notin Lights
    /\ Surveyed \subseteq [Names -> Lights \cup {None}]
    /\ \A u \in Forms : /\ u.order \in Seq(Names)
                        /\ u.group \in SUBSET Names

ASSUME SentinelAssumption == MaxSnapshots \in Nat /\ None \notin Int

VARIABLES
    now,       \* LocalDateTime.now(), in ticks
    setBacks,  \* how often the clock was put back
    form,      \* the UI schema of the survey the family is asked
    row,       \* the rows of snapshots_economics of the family
    idSeq,     \* the id sequence of the table
    req        \* the request each worker is serving

vars == <<now, setBacks, form, row, idSeq, req>>

DateOf(t) == t \div PerDay
Ticks == {t \in Int : DateOf(t) \in Days}

\* seen and season are history: the snapshots there were, and how often the
\* clock had been put back, when createdAt was stamped.
Row == [created : Ticks, data : Surveyed, seen : SUBSET SnapshotIds,
        season : 0 .. MaxSetBacks]

\* created is createdAt of the snapshot to insert, dateOfSnapshot of the one
\* to delete; today is the now deleteSnapshotByFamily took.
Request == [step     : {"idle", "stamped", "drawn", "pickNewest", "deleting",
                        "sparing"},
            snapshot : SnapshotIds \cup {None},
            created  : Ticks, today : Ticks,
            seen     : SUBSET SnapshotIds, season : 0 .. MaxSetBacks]

Idle == [step |-> "idle", snapshot |-> None, created |-> 0, today |-> 0,
         seen |-> {}, season |-> 0]

Init ==
    /\ now = 0
    /\ setBacks = 0
    /\ form \in Forms
    /\ row = [s \in SnapshotIds |-> None]
    /\ idSeq = 0
    /\ req = [w \in Workers |-> Idle]

Present == {s \in SnapshotIds : row[s] # None}

At(w, s) == req[w].step = s
Set(w, r) == req' = [req EXCEPT ![w] = r]
Finish(w) == Set(w, Idle)

-----------------------------------------------------------------------------
(* POST /snapshots for the family: persist() calls preSave, then draws the  *)
(* id; the commit makes the row visible.                                    *)

Stamp(w) ==
    /\ At(w, "idle")
    /\ Set(w, [Idle EXCEPT !.step = "stamped", !.created = now,
                           !.seen = Present, !.season = setBacks])
    /\ UNCHANGED <<now, setBacks, form, row, idSeq>>

\* Mutant: the sequence starts from 0.
DrawFromZero(w) ==
    /\ At(w, "stamped")
    /\ idSeq < MaxSnapshots
    /\ idSeq' = idSeq + 1
    /\ Set(w, [req[w] EXCEPT !.step = "drawn", !.snapshot = idSeq])
    /\ UNCHANGED <<now, setBacks, form, row>>

\* Mutant: the id is computed from the rows that are left.
DrawCounting(w) ==
    /\ At(w, "stamped")
    /\ idSeq < MaxSnapshots
    /\ idSeq' = idSeq + 1
    /\ Set(w, [req[w] EXCEPT !.step = "drawn",
                             !.snapshot = Cardinality(Present) + 1])
    /\ UNCHANGED <<now, setBacks, form, row>>

Draw(w) ==
    /\ At(w, "stamped")
    /\ idSeq < MaxSnapshots
    /\ idSeq' = idSeq + 1
    /\ Set(w, [req[w] EXCEPT !.step = "drawn", !.snapshot = idSeq + 1])
    /\ UNCHANGED <<now, setBacks, form, row>>

Commit(w, d) ==
    /\ At(w, "drawn")
    /\ row' = [row EXCEPT ![req[w].snapshot] =
                 [created |-> req[w].created, data |-> d,
                  seen |-> req[w].seen, season |-> req[w].season]]
    /\ Finish(w)
    /\ UNCHANGED <<now, setBacks, form, idSeq>>

-----------------------------------------------------------------------------
(* DELETE /families/{id}: FamilySnapshotsManagerImpl.deleteSnapshotByFamily.*)

FindFamily(w) ==
    /\ At(w, "idle")
    /\ Set(w, [Idle EXCEPT !.step = "pickNewest"])
    /\ UNCHANGED <<now, setBacks, form, row, idSeq>>

WithinWindow(created, today) ==
    PeriodDays(DateOf(created), DateOf(today)) < Window

\* findTopByFamilyFamilyIdOrderByIdDesc, and what becomes of the snapshot.
\* Without one the family is only deactivated.
PickNewest(w) ==
    /\ At(w, "pickNewest")
    /\ \/ Present = {} /\ Finish(w)
       \/ \E s \in Present :
            /\ \A t \in Present : t <= s
            /\ Set(w, [req[w] EXCEPT
                 !.step = IF WithinWindow(row[s].created, now)
                          THEN "deleting" ELSE "sparing",
                 !.snapshot = s, !.created = row[s].created, !.today = now])
    /\ UNCHANGED <<now, setBacks, form, row, idSeq>>

\* Fails when the row is gone.
DeleteEconomic(w) ==
    /\ At(w, "deleting")
    /\ row' = [row EXCEPT ![req[w].snapshot] = None]
    /\ Finish(w)
    /\ UNCHANGED <<now, setBacks, form, idSeq>>

\* Only family.setActive(false) and save are left.
Spare(w) ==
    /\ At(w, "sparing")
    /\ Finish(w)
    /\ UNCHANGED <<now, setBacks, form, row, idSeq>>

-----------------------------------------------------------------------------
(* Around them.                                                            *)

\* DELETE /snapshots/{id}.
DeleteSnapshotById(s) ==
    /\ row[s] # None
    /\ row' = [row EXCEPT ![s] = None]
    /\ UNCHANGED <<now, setBacks, form, idSeq, req>>

\* A rollback gives no id back; other families draw from the sequence too.
Abort(w) ==
    /\ ~At(w, "idle")
    /\ Finish(w)
    /\ UNCHANGED <<now, setBacks, form, row, idSeq>>

Tick ==
    /\ now' = now + 1 /\ now' \in Ticks
    /\ UNCHANGED <<setBacks, form, row, idSeq, req>>

PutBack ==
    /\ setBacks < MaxSetBacks
    /\ setBacks' = setBacks + 1
    /\ now' = now - SetBack /\ now' \in Ticks
    /\ UNCHANGED <<form, row, idSeq, req>>

Next ==
    \/ \E w \in Workers :
         \/ Stamp(w) \/ Draw(w)
         \/ \E d \in Surveyed : Commit(w, d)
         \/ FindFamily(w) \/ PickNewest(w) \/ DeleteEconomic(w) \/ Spare(w)
         \/ Abort(w)
    \/ \E s \in SnapshotIds : DeleteSnapshotById(s)
    \/ Tick \/ PutBack

Spec == Init /\ [][Next]_vars

-----------------------------------------------------------------------------
(* The two ways the indicators of a snapshot are counted.                  *)

\* getIndicatorsValue, for the family map and for one snapshot: the names
\* of uiOrder that are in the group and have been answered, one by one.
Shown(u, d) ==
    {i \in 1 .. Len(u.order) : u.order[i] \in u.group /\ d[u.order[i]] # None}

\* Mutant: notes a light and does not count it.
NoteShown(u, d, light) ==
    IF \E i \in Shown(u, d) : d[u.order[i]] = light THEN 1 ELSE 0

CountShown(u, d, light) ==
    Cardinality({i \in Shown(u, d) : d[u.order[i]] = light})

\* countSnapshotIndicators, for the snapshots of a family: every value.
CountAll(d, light) == Cardinality({n \in Names : d[n] = light})

-----------------------------------------------------------------------------
(* Properties                                                              *)

(* The clock, the rows and the requests hold what their columns and fields  *)
(* allow.                                                                   *)
TypeOK ==
    /\ now \in Ticks
    /\ setBacks \in 0 .. MaxSetBacks
    /\ form \in Forms
    /\ row \in [SnapshotIds -> Row \cup {None}]
    /\ idSeq \in 0 .. MaxSnapshots
    /\ req \in [Workers -> Request]

(* The newest by id, which DELETE /families/{id} deletes, and the newest by *)
(* date, which the family map shows, differ only where requests overlapped  *)
(* or the clock was put back in between: a snapshot that was committed      *)
(* before another was stamped has the smaller id, and no later a date       *)
(* within one season of the clock.                                          *)
OrdersAgree ==
    \A s, t \in Present :
        s \in row[t].seen =>
            /\ s < t
            /\ row[s].season = row[t].season => row[s].created <= row[t].created

(* The days of a Period are not the days of the interval, but the test      *)
(* errs on one side only: a snapshot that DELETE /families/{id} leaves in   *)
(* place is at least Window days old, also across months of any length and  *)
(* when the clock was put back.                                             *)
RecentNeverSpared ==
    \A w \in Workers : At(w, "sparing") =>
        DateOf(req[w].today) - DateOf(req[w].created) >= Window

(* On the other side: only a snapshot of less than MAX_DAYS_DELETE_SNAPSHOT *)
(* days is deleted with its family.  The code does not keep this.           *)
OnlyRecentDeleted ==
    \A w \in Workers : At(w, "deleting") =>
        DateOf(req[w].today) - DateOf(req[w].created) < Window

\* Each answer that is a light is on the screen, and no name twice.
ShowsEachOnce(u, d) ==
    /\ \A n \in Names : d[n] # None => \E i \in Shown(u, d) : u.order[i] = n
    /\ \A i, j \in Shown(u, d) : u.order[i] = u.order[j] => i = j

(* The list of a family's snapshots and its map count the same snapshot by  *)
(* different rules; they agree on every light whenever the UI order of the  *)
(* survey, which no check of SurveyServiceImpl looks at, shows each answer  *)
(* once.                                                                    *)
CountsAgree ==
    \A s \in Present : ShowsEachOnce(form, row[s].data) =>
        \A light \in Lights :
            CountShown(form, row[s].data, light) = CountAll(row[s].data, light)

=============================================================================
