---------------------------- MODULE ReadingProofs ----------------------------
(***************************************************************************)
(* Proofs about Calendar and Reading, for months of any lengths, any window *)
(* and any number of threads, snapshots and changes of the clock.          *)
(***************************************************************************)
EXTENDS Reading, FiniteSetTheorems, TLAPS

(* Every day is in one month, and a later day in no earlier one.           *)
LEMMA MonthFacts ==
    ASSUME NEW d \in Days
    PROVE  /\ d \in Int /\ MonthOf(d) \in 1 .. Months
           /\ First[MonthOf(d)] <= d /\ d < First[MonthOf(d) + 1]
           /\ DayOf(d) \in Int /\ d = First[MonthOf(d)] + DayOf(d)
           /\ 0 <= DayOf(d) /\ DayOf(d) < Length(MonthOf(d))
<1>1. \E m \in 1 .. Months : First[m] <= d /\ d < First[m + 1]
  BY DEF Days
<1>2. /\ d \in Int /\ MonthOf(d) \in 1 .. Months
      /\ First[MonthOf(d)] <= d /\ d < First[MonthOf(d) + 1]
  BY <1>1 DEF MonthOf, Days
<1>3. First[MonthOf(d)] \in Int /\ First[MonthOf(d) + 1] \in Int
  BY <1>2, MonthsAssumption
<1>4. QED
  BY <1>2, <1>3 DEF DayOf, Length

(* The first days of the months, in order.                                 *)
LEMMA FirstFacts ==
    ASSUME NEW m \in 1 .. Months, NEW n \in 1 .. Months
    PROVE  /\ First[m] \in Int /\ First[n] \in Int /\ First[m + 1] \in Int
           /\ m < n => First[m] < First[n] /\ First[m + 1] <= First[n]
           /\ First[m] < First[m + 1]
<1>1. m \in 1 .. Months + 1 /\ n \in 1 .. Months + 1 /\ m + 1 \in 1 .. Months + 1
  BY MonthsAssumption
<1>2. CASE m + 1 < n
  BY <1>1, <1>2, MonthsAssumption
<1>3. CASE m + 1 = n
  BY <1>1, <1>3, MonthsAssumption
<1>4. CASE n < m + 1
  BY <1>1, <1>4, MonthsAssumption
<1>5. QED
  BY <1>1, <1>2, <1>3, <1>4, MonthsAssumption

LEMMA MonthOrder ==
    ASSUME NEW s \in Days, NEW e \in Days
    PROVE  /\ MonthOf(e) < MonthOf(s) => e < s
           /\ MonthOf(e) = MonthOf(s) => e - s = DayOf(e) - DayOf(s)
<1>1. /\ MonthOf(s) \in 1 .. Months /\ MonthOf(e) \in 1 .. Months
      /\ s \in Int /\ e \in Int
      /\ First[MonthOf(s)] <= s /\ e < First[MonthOf(e) + 1]
      /\ s = First[MonthOf(s)] + DayOf(s) /\ e = First[MonthOf(e)] + DayOf(e)
      /\ DayOf(s) \in Int /\ DayOf(e) \in Int
  BY MonthFacts
<1>2. ASSUME MonthOf(e) < MonthOf(s) PROVE e < s
  <2>1. First[MonthOf(e) + 1] <= First[MonthOf(s)]
    BY <1>1, <1>2, FirstFacts
  <2>2. /\ First[MonthOf(e) + 1] \in Int /\ First[MonthOf(s)] \in Int
    BY <1>1, FirstFacts
  <2>3. QED
    BY <1>1, <2>1, <2>2
<1>3. ASSUME MonthOf(e) = MonthOf(s) PROVE e - s = DayOf(e) - DayOf(s)
  <2>1. First[MonthOf(s)] \in Int
    BY <1>1, FirstFacts
  <2>2. QED
    BY <1>1, <1>3, <2>1
<1>4. QED
  BY <1>2, <1>3

(* Months ahead of a day are not before it.                                *)
LEMMA PlusMonthsAhead ==
    ASSUME NEW s \in Days, NEW n \in Nat, MonthOf(s) + n \in 1 .. Months
    PROVE  PlusMonths(s, n) \in Int /\ s <= PlusMonths(s, n)
<1> DEFINE a == MonthOf(s)  b == MonthOf(s) + n
<1>1. /\ s \in Int /\ a \in 1 .. Months /\ s = First[a] + DayOf(s)
      /\ s < First[a + 1] /\ DayOf(s) \in Int /\ 0 <= DayOf(s) /\ DayOf(s) < Length(a)
  BY MonthFacts
<1>2. /\ First[a] \in Int /\ First[b] \in Int /\ First[a + 1] \in Int
      /\ First[b + 1] \in Int /\ First[b] < First[b + 1]
      /\ a < b => First[a + 1] <= First[b]
  BY <1>1, FirstFacts
<1>3. Length(b) = First[b + 1] - First[b]
  BY DEF Length
<1>4. PlusMonths(s, n) = First[b] + IF DayOf(s) < Length(b) THEN DayOf(s)
                                                           ELSE Length(b) - 1
  BY DEF PlusMonths
<1>5. CASE n = 0
  <2>1. b = a
    BY <1>1, <1>5
  <2>2. QED
    BY <1>1, <1>2, <1>4, <2>1
<1>6. CASE n > 0
  <2>1. a < b
    BY <1>1, <1>6
  <2> HIDE DEF a, b
  <2>2. QED
    BY <1>1, <1>2, <1>3, <1>4, <2>1
<1>7. QED
  BY <1>5, <1>6

(* The days of a period are at most those of the interval, and an interval  *)
(* that runs backwards has none.                                            *)
THEOREM PeriodInInterval ==
    ASSUME NEW s \in Days, NEW e \in Days
    PROVE  /\ PeriodDays(s, e) \in Int
           /\ PeriodDays(s, e) <= 0 \/ PeriodDays(s, e) <= e - s
<1> DEFINE a == MonthOf(s)  b == MonthOf(e)  p == DayOf(s)  q == DayOf(e)
<1>1. /\ s \in Int /\ a \in 1 .. Months /\ s = First[a] + p
      /\ p \in Int /\ 0 <= p /\ p < Length(a)
      /\ e \in Int /\ b \in 1 .. Months /\ e = First[b] + q
      /\ q \in Int /\ 0 <= q /\ q < Length(b)
  BY MonthFacts
<1>2. /\ First[a] \in Int /\ First[b] \in Int /\ First[b + 1] \in Int
      /\ a < b => First[a] < First[b]
  BY <1>1, FirstFacts
<1>3. Length(b) = First[b + 1] - First[b]
  BY DEF Length
<1>4. PeriodDays(s, e) = IF b - a > 0 /\ q - p < 0 THEN e - PlusMonths(s, b - a - 1)
                         ELSE IF b - a < 0 /\ q - p > 0 THEN q - p - Length(b)
                         ELSE q - p
  BY DEF PeriodDays
<1>5. CASE b - a > 0 /\ q - p < 0
  <2>1. b - a - 1 \in Nat /\ a + (b - a - 1) \in 1 .. Months
    <3> HIDE DEF a, b, p, q
    <3>1. a \in Int /\ b \in Int /\ b - a > 0
      BY <1>1, <1>5
    <3>2. a + (b - a - 1) = b - 1 /\ b - 1 >= a
      BY <3>1
    <3>3. QED
      BY <1>1, <3>1, <3>2, MonthsAssumption
  <2>2. PlusMonths(s, b - a - 1) \in Int /\ s <= PlusMonths(s, b - a - 1)
    BY <2>1, PlusMonthsAhead
  <2>3. PeriodDays(s, e) = e - PlusMonths(s, b - a - 1)
    BY <1>4, <1>5
  <2> HIDE DEF a, b, p, q
  <2>4. QED
    BY <1>1, <2>2, <2>3
<1>6. CASE b - a < 0 /\ q - p > 0
  <2>1. PeriodDays(s, e) = q - p - Length(b)
    BY <1>1, <1>4, <1>6
  <2> HIDE DEF a, b, p, q
  <2>2. QED
    BY <1>1, <1>2, <1>3, <2>1
<1>7. CASE ~(b - a > 0 /\ q - p < 0) /\ ~(b - a < 0 /\ q - p > 0)
  <2>1. PeriodDays(s, e) = q - p
    BY <1>4, <1>7
  <2> HIDE DEF p, q
  <2>2. CASE b > a
    <3> HIDE DEF a, b
    <3>1. QED
      BY <1>1, <1>2, <2>1, <2>2
  <2>3. CASE b < a
    <3> HIDE DEF a, b
    <3>1. QED
      BY <1>1, <1>7, <2>1, <2>3
  <2>4. CASE b = a
    <3> HIDE DEF a, b
    <3>1. QED
      BY <1>1, <1>2, <2>1, <2>4
  <2>5. QED
    BY <1>1, <2>2, <2>3, <2>4
<1>8. QED
  BY <1>5, <1>6, <1>7

(* Until the same day of the next month the days of the period are those of *)
(* the interval: only there does the test of DELETE /families/{id} compare   *)
(* what MAX_DAYS_DELETE_SNAPSHOT says it does.                              *)
THEOREM PeriodExactWithinMonth ==
    ASSUME NEW s \in Days, NEW e \in Days, s <= e,
           MonthOf(s) < Months => e < PlusMonths(s, 1)
    PROVE  PeriodDays(s, e) = e - s
<1> DEFINE a == MonthOf(s)  b == MonthOf(e)  p == DayOf(s)  q == DayOf(e)
<1>1. /\ s \in Int /\ a \in 1 .. Months /\ s = First[a] + p
      /\ p \in Int /\ 0 <= p /\ p < Length(a)
      /\ e \in Int /\ b \in 1 .. Months /\ e = First[b] + q
      /\ q \in Int /\ 0 <= q
  BY MonthFacts
<1>2. /\ First[a] \in Int /\ First[b] \in Int
      /\ a \in Int /\ b \in Int /\ a <= Months /\ b <= Months /\ Months \in Int
  BY <1>1, FirstFacts, MonthsAssumption
<1>3. a <= b
  <2>1. b < a => e < s
    BY MonthOrder
  <2> HIDE DEF a, b
  <2>2. QED
    BY <1>1, <1>2, <2>1
<1>4. PeriodDays(s, e) = IF b - a > 0 /\ q - p < 0 THEN e - PlusMonths(s, b - a - 1)
                         ELSE IF b - a < 0 /\ q - p > 0 THEN q - p - Length(b)
                         ELSE q - p
  BY DEF PeriodDays
<1>5. CASE a = b
  <2>1. e - s = q - p
    BY <1>5, MonthOrder
  <2> HIDE DEF a, b, p, q
  <2>2. QED
    BY <1>2, <1>4, <1>5, <2>1
<1>6. CASE a < b
  <2>1. a + 1 \in 1 .. Months /\ MonthOf(s) < Months
    <3> HIDE DEF b
    <3>1. QED
      BY <1>1, <1>2, <1>6
  <2>2. /\ First[a + 1] \in Int /\ First[a + 1 + 1] \in Int
        /\ First[a + 1] < First[a + 1 + 1]
        /\ a + 1 < b => First[a + 1 + 1] <= First[b]
    BY <1>1, <2>1, FirstFacts
  <2>3. PlusMonths(s, 1) = First[a + 1] + IF p < Length(a + 1) THEN p
                                          ELSE Length(a + 1) - 1
    BY DEF PlusMonths
  <2>4. Length(a + 1) = First[a + 1 + 1] - First[a + 1]
    BY DEF Length
  <2>5. e < PlusMonths(s, 1)
    BY <2>1
  <2>6. PlusMonths(s, 1) < First[a + 1 + 1] /\ PlusMonths(s, 1) <= First[a + 1] + p
    <3> HIDE DEF a, p
    <3>1. QED
      BY <1>1, <2>2, <2>3, <2>4
  <2>7. PlusMonths(s, 1) \in Int
    <3> HIDE DEF a, p
    <3>1. QED
      BY <1>1, <2>2, <2>3, <2>4
  <2>8. b = a + 1
    <3> HIDE DEF a, b, p, q
    <3>1. QED
      BY <1>1, <1>2, <1>6, <2>2, <2>5, <2>6, <2>7
  <2>9. q < p
    <3> HIDE DEF a, b, p, q
    <3>1. QED
      BY <1>1, <2>2, <2>5, <2>6, <2>7, <2>8
  <2>10. PlusMonths(s, 0) = s
    <3>1. MonthOf(s) + 0 = a
      BY <1>2
    <3>2. PlusMonths(s, 0) = First[a] + p
      BY <1>1, <3>1 DEF PlusMonths
    <3>3. QED
      BY <1>1, <3>2
  <2>11. PeriodDays(s, e) = e - PlusMonths(s, 0)
    <3>1. b - a - 1 = 0 /\ b - a > 0
      BY <1>2, <2>8
    <3>2. q - p < 0
      BY <1>1, <2>9
    <3>3. QED
      BY <1>4, <3>1, <3>2
  <2>12. QED
    BY <2>10, <2>11
<1>7. QED
  BY <1>2, <1>3, <1>5, <1>6

(* The test on the days of the period never takes a recent date for an old  *)
(* one.                                                                     *)
LEMMA RecentInWindow ==
    ASSUME NEW t \in Ticks, NEW u \in Ticks, ~WithinWindow(t, u)
    PROVE  DateOf(u) - DateOf(t) >= Window
<1>1. DateOf(t) \in Days /\ DateOf(u) \in Days
  BY DEF Ticks
<1>2. DateOf(t) \in Int /\ DateOf(u) \in Int
  BY <1>1, MonthFacts
<1>3. ~(PeriodDays(DateOf(t), DateOf(u)) < Window)
  BY DEF WithinWindow
<1> HIDE DEF DateOf
<1>4. QED
  BY <1>1, <1>2, <1>3, PeriodInInterval, ClockAssumption

-----------------------------------------------------------------------------
\* An insertion under way: the date is stamped, perhaps the id is drawn.
Inserting(w) == At(w, "stamped") \/ At(w, "drawn")

\* The snapshots seen by an insertion have smaller ids and no later dates.
SeenSound(created, season, seen) ==
    /\ season <= setBacks
    /\ season = setBacks => created <= now
    /\ \A s \in seen :
         /\ s <= idSeq
         /\ (row[s] # None /\ row[s].season = season) => row[s].created <= created

RowSound(s) ==
    /\ s <= idSeq
    /\ SeenSound(row[s].created, row[s].season, row[s].seen)
    /\ \A t \in row[s].seen : t < s

\* A drawn id is known to nobody else.
DrawnSound(w) ==
    /\ req[w].snapshot \in SnapshotIds /\ req[w].snapshot <= idSeq
    /\ row[req[w].snapshot] = None
    /\ \A s \in req[w].seen : s < req[w].snapshot
    /\ \A v \in Workers \ {w} : At(v, "drawn") => req[v].snapshot # req[w].snapshot
    /\ \A v \in Workers : Inserting(v) => req[w].snapshot \notin req[v].seen
    /\ \A s \in Present : req[w].snapshot \notin row[s].seen

RequestSound(w) ==
    /\ Inserting(w) => SeenSound(req[w].created, req[w].season, req[w].seen)
    /\ At(w, "drawn") => DrawnSound(w)
    /\ At(w, "sparing") =>
         DateOf(req[w].today) - DateOf(req[w].created) >= Window

Sound == /\ \A s \in Present : RowSound(s)
         /\ \A w \in Workers : RequestSound(w)

IInv == TypeOK /\ Sound

(* A request that is replaced by a well-typed one keeps req well-typed.    *)
LEMMA SetFacts ==
    ASSUME TypeOK, NEW w \in Workers, NEW r, Set(w, r)
    PROVE  /\ \A v \in Workers : req'[v] = IF v = w THEN r ELSE req[v]
           /\ r \in Request => req' \in [Workers -> Request]
BY DEF Set, TypeOK

LEMMA RequestType ==
    ASSUME TypeOK, NEW w \in Workers
    PROVE  /\ req[w] \in Request /\ Idle \in Request /\ Idle.step = "idle"
           /\ req[w].created \in Ticks /\ req[w].season \in 0 .. MaxSetBacks
           /\ req[w].seen \in SUBSET SnapshotIds
           /\ [Idle EXCEPT !.step = "pickNewest"] \in Request
<1>1. req[w] \in Request
  BY DEF TypeOK
<1>2. 0 \in Ticks
  <2>1. 0 \div PerDay = 0
    BY ClockAssumption
  <2>2. QED
    BY <2>1, ClockAssumption DEF Ticks, DateOf
<1>3. 0 \in 0 .. MaxSetBacks
  BY ClockAssumption
<1> HIDE DEF Ticks
<1>4. QED
  BY <1>1, <1>2, <1>3 DEF Idle, Request

LEMMA TypeInductive == IInv /\ [Next]_vars => TypeOK'
<1> SUFFICES ASSUME IInv, [Next]_vars PROVE TypeOK'
  OBVIOUS
<1>0. TypeOK
  BY DEF IInv
<1>a. ASSUME NEW w \in Workers, Finish(w) PROVE req' \in [Workers -> Request]
  BY <1>0, <1>a, SetFacts, RequestType DEF Finish
<1>1. ASSUME NEW w \in Workers, Stamp(w) PROVE TypeOK'
  <2> DEFINE r == [Idle EXCEPT !.step = "stamped", !.created = now,
                               !.seen = Present, !.season = setBacks]
  <2>1. Idle \in Request /\ now \in Ticks /\ setBacks \in 0 .. MaxSetBacks
    BY <1>0, RequestType DEF TypeOK
  <2>2. r \in Request
    BY <2>1 DEF Request, Present
  <2>3. Set(w, r)
    BY <1>1 DEF Stamp
  <2> HIDE DEF r
  <2>4. QED
    BY <1>0, <1>1, <2>2, <2>3, SetFacts DEF Stamp, TypeOK
<1>2. ASSUME NEW w \in Workers, Draw(w) PROVE TypeOK'
  <2> DEFINE r == [req[w] EXCEPT !.step = "drawn", !.snapshot = idSeq + 1]
  <2>1. idSeq + 1 \in SnapshotIds
    BY <1>0, <1>2, SentinelAssumption DEF Draw, TypeOK, SnapshotIds
  <2>2. r \in Request
    BY <1>0, <2>1, RequestType DEF Request
  <2>3. Set(w, r)
    BY <1>2 DEF Draw
  <2> HIDE DEF r
  <2>4. idSeq' \in 0 .. MaxSnapshots
    BY <1>0, <1>2, SentinelAssumption DEF Draw, TypeOK
  <2>5. QED
    BY <1>0, <1>2, <2>2, <2>3, <2>4, SetFacts DEF Draw, TypeOK
<1>3. ASSUME NEW w \in Workers, NEW d \in Surveyed, Commit(w, d) PROVE TypeOK'
  <2> DEFINE new == [created |-> req[w].created, data |-> d,
                     seen |-> req[w].seen, season |-> req[w].season]
  <2>1. new \in Row
    BY <1>0, RequestType DEF Row
  <2>2. Finish(w) /\ row' = [row EXCEPT ![req[w].snapshot] = new]
    BY <1>3 DEF Commit
  <2> HIDE DEF new
  <2>3. row' \in [SnapshotIds -> Row \cup {None}]
    BY <1>0, <2>1, <2>2 DEF TypeOK
  <2>4. QED
    BY <1>0, <1>3, <1>a, <2>2, <2>3 DEF Commit, TypeOK
<1>4. ASSUME NEW w \in Workers, FindFamily(w) PROVE TypeOK'
  BY <1>0, <1>4, SetFacts, RequestType DEF FindFamily, TypeOK
<1>5. ASSUME NEW w \in Workers, PickNewest(w) PROVE TypeOK'
  <2>1. ASSUME NEW s \in Present, NEW st \in {"deleting", "sparing"},
               Set(w, [req[w] EXCEPT !.step = st, !.snapshot = s,
                         !.created = row[s].created, !.today = now])
        PROVE  TypeOK'
    <3> DEFINE r == [req[w] EXCEPT !.step = st, !.snapshot = s,
                       !.created = row[s].created, !.today = now]
    <3>1. row[s] \in Row /\ s \in SnapshotIds /\ now \in Ticks
      BY <1>0 DEF TypeOK, Present
    <3>2. r \in Request
      BY <1>0, <3>1, RequestType DEF Request, Row
    <3>3. Set(w, r)
      BY <2>1
    <3> HIDE DEF r
    <3>4. QED
      BY <1>0, <1>5, <3>2, <3>3, SetFacts DEF PickNewest, TypeOK
  <2>2. ASSUME Finish(w) PROVE TypeOK'
    BY <1>0, <1>5, <1>a, <2>2 DEF PickNewest, TypeOK
  <2>3. QED
    BY <1>5, <2>1, <2>2 DEF PickNewest
<1>6. ASSUME NEW w \in Workers, DeleteEconomic(w) PROVE TypeOK'
  BY <1>0, <1>6, <1>a DEF DeleteEconomic, TypeOK
<1>7. ASSUME NEW w \in Workers, Spare(w) \/ Abort(w) PROVE TypeOK'
  BY <1>0, <1>7, <1>a DEF Spare, Abort, TypeOK
<1>8. ASSUME NEW s \in SnapshotIds, DeleteSnapshotById(s) PROVE TypeOK'
  BY <1>0, <1>8 DEF DeleteSnapshotById, TypeOK
<1>9. CASE Tick
  BY <1>0, <1>9 DEF Tick, TypeOK
<1>10. CASE PutBack
  BY <1>0, <1>10, ClockAssumption DEF PutBack, TypeOK
<1>11. CASE UNCHANGED vars
  BY <1>0, <1>11 DEF vars, TypeOK
<1>12. QED
  BY <1>1, <1>2, <1>3, <1>4, <1>5, <1>6, <1>7, <1>8, <1>9, <1>10, <1>11 DEF Next

(* The steps that insert nothing and leave clock and sequence alone: rows   *)
(* may go, requests may end or take up a deletion.                          *)
LEMMA CallsKeepSound ==
    ASSUME IInv, UNCHANGED <<now, setBacks, idSeq>>,
           \A s \in SnapshotIds : row'[s] = row[s] \/ row'[s] = None,
           \A w \in Workers :
              \/ req'[w] = req[w]
              \/ /\ req'[w].step \notin {"stamped", "drawn"}
                 /\ req'[w].step = "sparing" =>
                      DateOf(req'[w].today) - DateOf(req'[w].created) >= Window
    PROVE  Sound'
<1>1. TypeOK /\ Sound
  BY DEF IInv
<1>2. ASSUME NEW c, NEW z, NEW S \in SUBSET SnapshotIds, SeenSound(c, z, S)
      PROVE  SeenSound(c, z, S)'
  BY <1>2 DEF SeenSound
<1>3. ASSUME NEW s \in Present' PROVE RowSound(s)'
  <2>1. s \in Present /\ row'[s] = row[s]
    BY <1>3 DEF Present
  <2>2. RowSound(s) /\ row[s].seen \in SUBSET SnapshotIds
    BY <1>1, <2>1 DEF Sound, TypeOK, Row, Present
  <2>3. SeenSound(row[s].created, row[s].season, row[s].seen)'
    <3>1. SeenSound(row[s].created, row[s].season, row[s].seen)
      BY <2>2 DEF RowSound
    <3>2. /\ row'[s].created = row[s].created /\ row'[s].season = row[s].season
          /\ row'[s].seen = row[s].seen
      BY <2>1
    <3>3. QED
      BY <2>2, <3>1, <3>2 DEF SeenSound
  <2>4. QED
    BY <2>1, <2>2, <2>3 DEF RowSound
<1>4. ASSUME NEW w \in Workers PROVE RequestSound(w)'
  <2>1. RequestSound(w) /\ req[w] \in Request
    BY <1>1 DEF Sound, TypeOK
  <2>2. CASE req'[w] # req[w]
    BY <2>2 DEF RequestSound, Inserting, At
  <2>3. CASE req'[w] = req[w]
    <3>1. Inserting(w)' => SeenSound(req[w].created, req[w].season, req[w].seen)'
      <4>1. Inserting(w)' => SeenSound(req[w].created, req[w].season, req[w].seen)
        BY <2>1, <2>3 DEF RequestSound, Inserting, At
      <4>2. req[w].seen \in SUBSET SnapshotIds
        BY <2>1 DEF Request
      <4>3. QED
        BY <2>3, <4>1, <4>2 DEF SeenSound
    <3>2. At(w, "drawn")' => DrawnSound(w)'
      <4>1. SUFFICES ASSUME At(w, "drawn") PROVE DrawnSound(w)'
        BY <2>3 DEF At
      <4>2. DrawnSound(w)
        BY <2>1, <4>1 DEF RequestSound
      <4>3. \A v \in Workers : /\ At(v, "drawn")' => At(v, "drawn") /\ req'[v] = req[v]
                               /\ Inserting(v)' => Inserting(v) /\ req'[v] = req[v]
        BY DEF At, Inserting
      <4>4. \A s \in Present' : s \in Present /\ row'[s] = row[s]
        BY DEF Present
      <4>5. QED
        BY <2>3, <4>2, <4>3, <4>4 DEF DrawnSound
    <3>3. QED
      BY <2>1, <2>3, <3>1, <3>2 DEF RequestSound, At
  <2>4. QED
    BY <2>2, <2>3
<1>5. QED
  BY <1>3, <1>4 DEF Sound

(* Time goes by: what was stamped in an earlier season, or earlier in this  *)
(* one, stays so.                                                           *)
LEMMA ClockKeepsSound ==
    ASSUME IInv, Tick \/ PutBack
    PROVE  Sound'
<1>1. /\ TypeOK /\ Sound /\ UNCHANGED <<row, idSeq, req>>
      /\ setBacks' \in Int /\ now' \in Int
      /\ \/ setBacks' = setBacks /\ now' = now + 1
         \/ setBacks' = setBacks + 1
  BY DEF IInv, TypeOK, Tick, PutBack, Ticks
<1>2. setBacks \in Int /\ now \in Int
  BY <1>1 DEF TypeOK, Ticks
<1>3. ASSUME NEW c \in Int, NEW z \in Int, NEW S \in SUBSET SnapshotIds,
             SeenSound(c, z, S)
      PROVE  SeenSound(c, z, S)'
  BY <1>1, <1>2, <1>3 DEF SeenSound
<1>4. ASSUME NEW s \in Present PROVE RowSound(s)'
  <2>1. /\ row[s].created \in Int /\ row[s].season \in Int
        /\ row[s].seen \in SUBSET SnapshotIds
    BY <1>1 DEF TypeOK, Row, Present, Ticks
  <2>2. RowSound(s)
    BY <1>1 DEF Sound
  <2>3. SeenSound(row[s].created, row[s].season, row[s].seen)
    BY <2>2 DEF RowSound
  <2>4. SeenSound(row[s].created, row[s].season, row[s].seen)'
    BY <1>1, <1>2, <2>1, <2>3 DEF SeenSound
  <2>5. QED
    BY <1>1, <2>2, <2>4 DEF RowSound
<1>5. ASSUME NEW w \in Workers PROVE RequestSound(w)'
  <2>1. /\ req[w].created \in Int /\ req[w].season \in Int
        /\ req[w].seen \in SUBSET SnapshotIds
    BY <1>1, RequestType DEF Ticks
  <2>2. RequestSound(w)
    BY <1>1 DEF Sound
  <2>3. Inserting(w) => SeenSound(req[w].created, req[w].season, req[w].seen)'
    BY <1>1, <1>2, <2>1, <2>2 DEF SeenSound, RequestSound
  <2>4. (DrawnSound(w)' <=> DrawnSound(w)) /\ (Inserting(w)' <=> Inserting(w))
    BY <1>1 DEF DrawnSound, Inserting, At, Present
  <2>5. QED
    BY <1>1, <2>2, <2>3, <2>4 DEF RequestSound, At
<1>6. Present' = Present
  BY <1>1 DEF Present
<1>7. QED
  BY <1>4, <1>5, <1>6 DEF Sound

(* What is stamped is not before anything there is, in this season.        *)
LEMMA StampKeepsSound ==
    ASSUME IInv, NEW w \in Workers, Stamp(w)
    PROVE  Sound'
<1> DEFINE r == [Idle EXCEPT !.step = "stamped", !.created = now,
                             !.seen = Present, !.season = setBacks]
<1>1. /\ TypeOK /\ Sound /\ Set(w, r)
      /\ UNCHANGED <<now, setBacks, form, row, idSeq>>
  BY DEF IInv, Stamp
<1>2. r.step = "stamped" /\ r.created = now /\ r.seen = Present /\ r.season = setBacks
  BY DEF Idle
<1> HIDE DEF r
<1>3. \A v \in Workers : req'[v] = IF v = w THEN r ELSE req[v]
  BY <1>1, SetFacts
<1>4. now \in Int /\ setBacks \in Int
  BY <1>1 DEF TypeOK, Ticks
<1>5. SeenSound(now, setBacks, Present)
  BY <1>1, <1>4 DEF SeenSound, Sound, RowSound, Present
<1>6. ASSUME NEW s \in Present PROVE RowSound(s)'
  <2>1. RowSound(s)
    BY <1>1 DEF Sound
  <2>2. QED
    BY <1>1, <2>1 DEF RowSound, SeenSound
<1>7. ASSUME NEW v \in Workers PROVE RequestSound(v)'
  <2>1. CASE v = w
    <3>1. SeenSound(req[v].created, req[v].season, req[v].seen)'
      BY <1>1, <1>2, <1>3, <1>5, <2>1 DEF SeenSound
    <3>2. ~At(v, "drawn")' /\ ~At(v, "sparing")'
      BY <1>2, <1>3, <2>1 DEF At
    <3>3. QED
      BY <3>1, <3>2 DEF RequestSound
  <2>2. CASE v # w
    <3>1. RequestSound(v) /\ req'[v] = req[v]
      BY <1>1, <1>3, <2>2 DEF Sound
    <3>2. Inserting(v)' => SeenSound(req[v].created, req[v].season, req[v].seen)'
      BY <1>1, <3>1 DEF RequestSound, SeenSound, Inserting, At
    <3>3. At(v, "drawn")' => DrawnSound(v)'
      <4>1. SUFFICES ASSUME At(v, "drawn") PROVE DrawnSound(v)'
        BY <3>1 DEF At
      <4>2. DrawnSound(v)
        BY <3>1, <4>1 DEF RequestSound
      <4>3. ~At(w, "drawn")' /\ req'[w].seen = Present
        BY <1>2, <1>3 DEF At
      <4>4. \A u \in Workers \ {w} : req'[u] = req[u]
        BY <1>3
      <4>5. req[v].snapshot \notin Present
        BY <4>2 DEF DrawnSound, Present
      <4>6. Present' = Present
        BY <1>1 DEF Present
      <4>7. \A u \in Workers : Inserting(u)' => req[v].snapshot \notin req'[u].seen
        BY <4>2, <4>3, <4>4, <4>5 DEF DrawnSound, Inserting, At
      <4>8. \A u \in Workers \ {v} : At(u, "drawn")' => req'[u].snapshot # req[v].snapshot
        BY <4>2, <4>3, <4>4 DEF DrawnSound, At
      <4>9. QED
        BY <1>1, <3>1, <4>2, <4>6, <4>7, <4>8 DEF DrawnSound
    <3>4. QED
      BY <3>1, <3>2, <3>3 DEF RequestSound, At
  <2>3. QED
    BY <2>1, <2>2
<1>8. Present' = Present
  BY <1>1 DEF Present
<1>9. QED
  BY <1>6, <1>7, <1>8 DEF Sound

(* A drawn id is greater than all that are seen, and new.                  *)
LEMMA DrawKeepsSound ==
    ASSUME IInv, NEW w \in Workers, Draw(w)
    PROVE  Sound'
<1> DEFINE r == [req[w] EXCEPT !.step = "drawn", !.snapshot = idSeq + 1]
<1>1. /\ TypeOK /\ Sound /\ Set(w, r) /\ At(w, "stamped") /\ idSeq \in Nat
      /\ idSeq' = idSeq + 1 /\ idSeq + 1 \in SnapshotIds
      /\ UNCHANGED <<now, setBacks, form, row>>
  BY SentinelAssumption DEF IInv, Draw, TypeOK, SnapshotIds
<1>2. /\ r.step = "drawn" /\ r.snapshot = idSeq + 1 /\ r.created = req[w].created
      /\ r.seen = req[w].seen /\ r.season = req[w].season
  BY <1>1, RequestType DEF Request
<1> HIDE DEF r
<1>3. \A v \in Workers : req'[v] = IF v = w THEN r ELSE req[v]
  BY <1>1, SetFacts
<1>4. Present' = Present /\ \A s \in SnapshotIds : s \in Int
  BY <1>1 DEF Present, SnapshotIds
<1>5. ASSUME NEW s \in Present
      PROVE  RowSound(s)' /\ idSeq + 1 \notin row[s].seen /\ s <= idSeq
  <2>1. RowSound(s) /\ row[s].seen \in SUBSET SnapshotIds /\ s \in SnapshotIds
    BY <1>1 DEF Sound, TypeOK, Row, Present
  <2>2. QED
    BY <1>1, <1>4, <2>1 DEF RowSound, SeenSound
<1>6. row[idSeq + 1] = None
  BY <1>1, <1>5 DEF Present
<1>7. \A v \in Workers : Inserting(v) =>
         /\ SeenSound(req[v].created, req[v].season, req[v].seen)
         /\ \A s \in req[v].seen : s \in SnapshotIds /\ s <= idSeq
  <2>1. ASSUME NEW v \in Workers, Inserting(v)
        PROVE  SeenSound(req[v].created, req[v].season, req[v].seen)
    BY <1>1, <2>1 DEF Sound, RequestSound
  <2>2. \A v \in Workers : req[v].seen \in SUBSET SnapshotIds
    BY <1>1, RequestType
  <2>3. ASSUME NEW v \in Workers, Inserting(v), NEW s \in req[v].seen
        PROVE  s \in SnapshotIds /\ s <= idSeq
    BY <2>1, <2>2, <2>3 DEF SeenSound
  <2>4. QED
    BY <2>1, <2>3
<1>8. \A v \in Workers : At(v, "drawn") => req[v].snapshot <= idSeq /\ DrawnSound(v)
  BY <1>1 DEF Sound, RequestSound, DrawnSound
<1>9. \A v \in Workers : /\ Inserting(v)' => Inserting(v) /\ req'[v].seen = req[v].seen
                         /\ v # w => (At(v, "drawn")' <=> At(v, "drawn"))
  BY <1>1, <1>2, <1>3 DEF Inserting, At
<1>10. ASSUME NEW v \in Workers PROVE RequestSound(v)'
  <2>1. Inserting(v)' => SeenSound(req[v].created, req[v].season, req[v].seen)'
    <3>1. SUFFICES ASSUME Inserting(v)'
                   PROVE  SeenSound(req[v].created, req[v].season, req[v].seen)'
      OBVIOUS
    <3>2. /\ req'[v].created = req[v].created /\ req'[v].season = req[v].season
          /\ req'[v].seen = req[v].seen
      BY <1>2, <1>3
    <3>3. \A s \in req[v].seen : s <= idSeq /\ s \in Int /\ s <= idSeq'
      BY <1>1, <1>4, <1>7, <1>9, <3>1
    <3>4. QED
      BY <1>1, <1>7, <1>9, <3>1, <3>2, <3>3 DEF SeenSound
  <2>2. CASE v = w
    <3>1. DrawnSound(v)'
      <4>1. req'[v].snapshot = idSeq + 1 /\ Inserting(v)
        BY <1>1, <1>2, <1>3, <2>2 DEF Inserting
      <4>2. \A s \in req'[v].seen : s < idSeq + 1
        BY <1>1, <1>2, <1>3, <1>4, <1>7, <2>2, <4>1
      <4>3. \A u \in Workers \ {v} : At(u, "drawn")' => req'[u].snapshot # idSeq + 1
        BY <1>1, <1>3, <1>4, <1>8, <1>9, <2>2 DEF DrawnSound
      <4>4. \A u \in Workers : Inserting(u)' => idSeq + 1 \notin req'[u].seen
        BY <1>1, <1>4, <1>7, <1>9
      <4>5. \A s \in Present : idSeq + 1 \notin row'[s].seen
        BY <1>1, <1>5
      <4>6. idSeq + 1 <= idSeq'
        BY <1>1
      <4>7. QED
        BY <1>1, <1>4, <1>6, <4>1, <4>2, <4>3, <4>4, <4>5, <4>6 DEF DrawnSound
    <3>2. ~At(v, "sparing")'
      BY <1>2, <1>3, <2>2 DEF At
    <3>3. QED
      BY <2>1, <3>1, <3>2 DEF RequestSound
  <2>3. CASE v # w
    <3>1. RequestSound(v) /\ req'[v] = req[v]
      BY <1>1, <1>3, <2>3 DEF Sound
    <3>2. At(v, "drawn")' => DrawnSound(v)'
      <4>1. SUFFICES ASSUME At(v, "drawn") PROVE DrawnSound(v)'
        BY <1>9, <2>3
      <4>2. DrawnSound(v) /\ req[v].snapshot \in Int
        BY <1>4, <1>8, <4>1 DEF DrawnSound
      <4>3. \A u \in Workers \ {v} : At(u, "drawn")' => req'[u].snapshot # req[v].snapshot
        <5>1. ASSUME NEW u \in Workers \ {v}, At(u, "drawn")'
              PROVE  req'[u].snapshot # req[v].snapshot
          <6>1. CASE u = w
            BY <1>1, <1>2, <1>3, <1>8, <4>1, <4>2, <6>1
          <6>2. CASE u # w
            BY <1>3, <1>9, <4>2, <5>1, <6>2 DEF DrawnSound
          <6>3. QED
            BY <6>1, <6>2
        <5>2. QED
          BY <5>1
      <4>4. \A u \in Workers : Inserting(u)' => req[v].snapshot \notin req'[u].seen
        BY <1>9, <4>2 DEF DrawnSound
      <4>5. req[v].snapshot <= idSeq'
        BY <1>1, <4>2 DEF DrawnSound
      <4>6. QED
        BY <1>1, <1>4, <3>1, <4>2, <4>3, <4>4, <4>5 DEF DrawnSound
    <3>3. QED
      BY <2>1, <3>1, <3>2 DEF RequestSound, At
  <2>4. QED
    BY <2>2, <2>3
<1>11. QED
  BY <1>4, <1>5, <1>10 DEF Sound

(* The row that a commit adds is the one its request stamped and drew.     *)
LEMMA CommitKeepsSound ==
    ASSUME IInv, NEW w \in Workers, NEW d \in Surveyed, Commit(w, d)
    PROVE  Sound'
<1> DEFINE new == [created |-> req[w].created, data |-> d,
                   seen |-> req[w].seen, season |-> req[w].season]
<1>1. /\ TypeOK /\ Sound /\ At(w, "drawn") /\ Set(w, Idle)
      /\ row' = [row EXCEPT ![req[w].snapshot] = new]
      /\ UNCHANGED <<now, setBacks, form, idSeq>>
  BY DEF IInv, Commit, Finish
<1>2. new.created = req[w].created /\ new.seen = req[w].seen /\ new.season = req[w].season
  OBVIOUS
<1> HIDE DEF new
<1>3. \A v \in Workers : req'[v] = IF v = w THEN Idle ELSE req[v]
  BY <1>1, SetFacts
<1>4. SeenSound(req[w].created, req[w].season, req[w].seen) /\ DrawnSound(w) /\ Inserting(w)
  BY <1>1 DEF Sound, RequestSound, Inserting
<1>5. PICK id \in SnapshotIds : id = req[w].snapshot
  BY <1>4 DEF DrawnSound
<1>6. /\ id <= idSeq /\ row[id] = None
      /\ \A s \in req[w].seen : s < id
      /\ \A v \in Workers \ {w} : At(v, "drawn") => req[v].snapshot # id
      /\ \A v \in Workers : Inserting(v) => id \notin req[v].seen
      /\ \A s \in Present : id \notin row[s].seen
  BY <1>4, <1>5 DEF DrawnSound
<1>7. /\ row'[id] = new
      /\ \A s \in SnapshotIds \ {id} : row'[s] = row[s]
  BY <1>1, <1>5 DEF TypeOK
<1>8. \A s \in Present' : s = id \/ (s \in Present /\ s # id)
  BY <1>7 DEF Present
<1>9. ASSUME NEW c, NEW z, NEW S \in SUBSET SnapshotIds, SeenSound(c, z, S), id \notin S
      PROVE  SeenSound(c, z, S)'
  BY <1>1, <1>7, <1>9 DEF SeenSound
<1>10. ASSUME NEW s \in Present' PROVE RowSound(s)'
  <2>1. CASE s = id
    <3>1. req[w].seen \in SUBSET SnapshotIds /\ id \notin req[w].seen
      BY <1>1, <1>4, <1>6, RequestType
    <3>2. SeenSound(row[s].created, row[s].season, row[s].seen)'
      <4>1. /\ row'[s].created = req[w].created /\ row'[s].season = req[w].season
            /\ row'[s].seen = req[w].seen
        BY <1>2, <1>7, <2>1
      <4>2. ASSUME NEW c, NEW z, NEW S, c = req[w].created, z = req[w].season,
                   S = req[w].seen
            PROVE  SeenSound(c, z, S)'
        BY <1>4, <1>9, <3>1, <4>2
      <4>3. QED
        BY <4>1, <4>2 DEF SeenSound
    <3>3. QED
      BY <1>1, <1>2, <1>6, <1>7, <2>1, <3>2 DEF RowSound
  <2>2. CASE s \in Present /\ s # id
    <3>1. RowSound(s) /\ row[s].seen \in SUBSET SnapshotIds /\ row'[s] = row[s]
      BY <1>1, <1>7, <2>2 DEF Sound, TypeOK, Row, Present
    <3>2. PICK c, z, S : c = row[s].created /\ z = row[s].season /\ S = row[s].seen
      OBVIOUS
    <3>3. SeenSound(c, z, S)'
      BY <1>6, <1>9, <2>2, <3>1, <3>2 DEF RowSound
    <3>4. QED
      BY <1>1, <3>1, <3>2, <3>3 DEF RowSound, SeenSound
  <2>3. QED
    BY <1>8, <2>1, <2>2
<1>11. ASSUME NEW v \in Workers PROVE RequestSound(v)'
  <2>1. CASE v = w
    <3>1. req'[v].step = "idle"
      BY <1>3, <2>1 DEF Idle
    <3>2. QED
      BY <3>1 DEF RequestSound, Inserting, At
  <2>2. CASE v # w
    <3>1. RequestSound(v) /\ req'[v] = req[v]
      BY <1>1, <1>3, <2>2 DEF Sound
    <3>2. Inserting(v)' => SeenSound(req[v].created, req[v].season, req[v].seen)'
      <4>1. SUFFICES ASSUME Inserting(v)
                     PROVE  SeenSound(req[v].created, req[v].season, req[v].seen)'
        BY <3>1 DEF Inserting, At
      <4>2. PICK c, z, S : c = req[v].created /\ z = req[v].season /\ S = req[v].seen
        OBVIOUS
      <4>3. S \in SUBSET SnapshotIds
        BY <1>1, <4>2, RequestType
      <4>4. SeenSound(c, z, S)'
        BY <1>6, <1>9, <3>1, <4>1, <4>2, <4>3 DEF RequestSound
      <4>5. QED
        BY <3>1, <4>2, <4>4 DEF SeenSound
    <3>3. At(v, "drawn")' => DrawnSound(v)'
      <4>1. SUFFICES ASSUME At(v, "drawn") PROVE DrawnSound(v)'
        BY <3>1 DEF At
      <4>2. DrawnSound(v)
        BY <3>1, <4>1 DEF RequestSound
      <4>3. PICK x \in SnapshotIds : x = req[v].snapshot
        BY <4>2 DEF DrawnSound
      <4>4. x # id /\ x \notin req[w].seen
        BY <1>4, <1>6, <2>2, <4>1, <4>2, <4>3 DEF DrawnSound
      <4>5. row'[x] = None
        BY <1>7, <4>2, <4>3, <4>4 DEF DrawnSound
      <4>6. \A s \in Present' : x \notin row'[s].seen
        BY <1>2, <1>7, <1>8, <4>2, <4>3, <4>4 DEF DrawnSound, Present
      <4>7. \A u \in Workers : Inserting(u)' => Inserting(u) /\ req'[u] = req[u]
        BY <1>3 DEF Inserting, At, Idle
      <4>8. \A u \in Workers : At(u, "drawn")' => At(u, "drawn") /\ req'[u] = req[u]
        BY <1>3 DEF At, Idle
      <4>9. QED
        BY <1>1, <3>1, <4>2, <4>3, <4>5, <4>6, <4>7, <4>8 DEF DrawnSound
    <3>4. QED
      BY <3>1, <3>2, <3>3 DEF RequestSound, At
  <2>3. QED
    BY <2>1, <2>2
<1>12. QED
  BY <1>10, <1>11 DEF Sound

LEMMA SoundInductive == IInv /\ [Next]_vars => Sound'
<1> SUFFICES ASSUME IInv, [Next]_vars PROVE Sound'
  OBVIOUS
<1>0. TypeOK
  BY DEF IInv
<1>a. ASSUME NEW w \in Workers, NEW r, Set(w, r),
             r.step \notin {"stamped", "drawn"},
             r.step = "sparing" => DateOf(r.today) - DateOf(r.created) >= Window,
             UNCHANGED <<now, setBacks, idSeq>>,
             \A s \in SnapshotIds : row'[s] = row[s] \/ row'[s] = None
      PROVE  Sound'
  <2>1. \A v \in Workers : req'[v] = IF v = w THEN r ELSE req[v]
    BY <1>0, <1>a, SetFacts
  <2>2. QED
    BY <1>a, <2>1, CallsKeepSound
<1>b. Idle.step = "idle"
  BY DEF Idle
<1>1. ASSUME NEW w \in Workers, Stamp(w) PROVE Sound'
  BY <1>1, StampKeepsSound
<1>2. ASSUME NEW w \in Workers, Draw(w) PROVE Sound'
  BY <1>2, DrawKeepsSound
<1>3. ASSUME NEW w \in Workers, NEW d \in Surveyed, Commit(w, d) PROVE Sound'
  BY <1>3, CommitKeepsSound
<1>4. ASSUME NEW w \in Workers, FindFamily(w) PROVE Sound'
  <2> DEFINE r == [Idle EXCEPT !.step = "pickNewest"]
  <2>1. r.step = "pickNewest" /\ Set(w, r)
    BY <1>4 DEF FindFamily, Idle
  <2> HIDE DEF r
  <2>2. QED
    BY <1>4, <1>a, <2>1 DEF FindFamily
<1>5. ASSUME NEW w \in Workers, PickNewest(w) PROVE Sound'
  <2>1. ASSUME NEW s \in Present,
               Set(w, [req[w] EXCEPT
                 !.step = IF WithinWindow(row[s].created, now)
                          THEN "deleting" ELSE "sparing",
                 !.snapshot = s, !.created = row[s].created, !.today = now])
        PROVE  Sound'
    <3>1. PICK c \in Ticks : c = row[s].created
      BY <1>0 DEF TypeOK, Present, Row
    <3> DEFINE r == [req[w] EXCEPT
                       !.step = IF WithinWindow(c, now)
                                THEN "deleting" ELSE "sparing",
                       !.snapshot = s, !.created = c, !.today = now]
    <3>2. Set(w, r)
      BY <2>1, <3>1
    <3>3. /\ r.step = IF WithinWindow(c, now) THEN "deleting" ELSE "sparing"
          /\ r.created = c /\ r.today = now
      BY <1>0, RequestType DEF Request
    <3> HIDE DEF r
    <3>4. now \in Ticks
      BY <1>0 DEF TypeOK
    <3>5. r.step = "sparing" => DateOf(r.today) - DateOf(r.created) >= Window
      BY <3>3, <3>4, RecentInWindow
    <3>6. QED
      BY <1>5, <1>a, <3>2, <3>3, <3>5 DEF PickNewest
  <2>2. ASSUME Finish(w) PROVE Sound'
    BY <1>5, <1>a, <1>b, <2>2 DEF PickNewest, Finish
  <2>3. QED
    BY <1>5, <2>1, <2>2 DEF PickNewest
<1>6. ASSUME NEW w \in Workers, DeleteEconomic(w) PROVE Sound'
  <2>1. \A s \in SnapshotIds : row'[s] = row[s] \/ row'[s] = None
    BY <1>0, <1>6 DEF DeleteEconomic, TypeOK
  <2>2. QED
    BY <1>6, <1>a, <1>b, <2>1 DEF DeleteEconomic, Finish
<1>7. ASSUME NEW w \in Workers, Spare(w) \/ Abort(w) PROVE Sound'
  BY <1>7, <1>a, <1>b DEF Spare, Abort, Finish
<1>8. ASSUME NEW s \in SnapshotIds, DeleteSnapshotById(s) PROVE Sound'
  <2>1. \A t \in SnapshotIds : row'[t] = row[t] \/ row'[t] = None
    BY <1>0, <1>8 DEF DeleteSnapshotById, TypeOK
  <2>2. QED
    BY <1>8, <2>1, CallsKeepSound DEF DeleteSnapshotById
<1>9. CASE Tick \/ PutBack
  BY <1>9, ClockKeepsSound
<1>10. CASE UNCHANGED vars
  BY <1>10, CallsKeepSound DEF vars
<1>11. QED
  BY <1>1, <1>2, <1>3, <1>4, <1>5, <1>6, <1>7, <1>8, <1>9, <1>10 DEF Next

LEMMA InitSound == Init => IInv
<1> SUFFICES ASSUME Init PROVE IInv
  OBVIOUS
<1>1. 0 \in Ticks
  <2>1. 0 \div PerDay = 0
    BY ClockAssumption
  <2>2. QED
    BY <2>1, ClockAssumption DEF Ticks, DateOf
<1>2. Idle \in Request /\ Idle.step = "idle"
  BY <1>1, ClockAssumption DEF Idle, Request
<1>3. TypeOK
  BY <1>1, <1>2, ClockAssumption, SentinelAssumption DEF Init, TypeOK
<1>4. Sound
  BY <1>2 DEF Init, Sound, Present, RequestSound, Inserting, At
<1>5. QED
  BY <1>3, <1>4 DEF IInv

LEMMA Invariance == Spec => []IInv
<1>1. IInv /\ [Next]_vars => IInv'
  BY TypeInductive, SoundInductive DEF IInv
<1>2. QED
  BY InitSound, <1>1, PTL DEF Spec

-----------------------------------------------------------------------------
(* The clock, the rows and the requests keep their types.                  *)
THEOREM TypeCorrect == Spec => []TypeOK
<1>1. IInv => TypeOK
  BY DEF IInv
<1>2. QED
  BY <1>1, Invariance, PTL

(* The two notions of the newest snapshot agree on those that one request   *)
(* committed before the other stamped its own, within a season of the clock.*)
THEOREM NewestAgree == Spec => []OrdersAgree
<1>1. IInv => OrdersAgree
  <2> SUFFICES ASSUME IInv, NEW s \in Present, NEW t \in Present, s \in row[t].seen
               PROVE  /\ s < t
                      /\ row[s].season = row[t].season => row[s].created <= row[t].created
    BY DEF OrdersAgree
  <2>1. RowSound(t) /\ row[s] # None
    BY DEF IInv, Sound, Present
  <2>2. QED
    BY <2>1 DEF RowSound, SeenSound
<1>2. QED
  BY <1>1, Invariance, PTL

(* A snapshot that goes with its family is left in place only when it is    *)
(* old enough.                                                              *)
THEOREM SparesNoRecent == Spec => []RecentNeverSpared
<1>1. IInv => RecentNeverSpared
  BY DEF IInv, Sound, RequestSound, RecentNeverSpared
<1>2. QED
  BY <1>1, Invariance, PTL

(* Where the UI order shows each answer once, walking the order and        *)
(* counting every value see the same lights.                               *)
LEMMA CountsMatch ==
    ASSUME NEW u \in Forms, NEW d \in Surveyed, NEW light \in Lights,
           ShowsEachOnce(u, d)
    PROVE  CountShown(u, d, light) = CountAll(d, light)
<1> DEFINE S == {i \in Shown(u, d) : d[u.order[i]] = light}
           T == {n \in Names : d[n] = light}
           f == [i \in S |-> u.order[i]]
<1>1. u.order \in Seq(Names) /\ light # None /\ Len(u.order) \in Nat
  BY InputsAssumption
<1>2. S \in SUBSET (1 .. Len(u.order)) /\ \A i \in S : u.order[i] \in Names
  BY <1>1 DEF Shown
<1>3. IsFiniteSet(S)
  <2>1. IsFiniteSet(1 .. Len(u.order))
    BY <1>1, FS_Interval
  <2> HIDE DEF S
  <2>2. QED
    BY <1>2, <2>1, FS_Subset
<1>4. f \in [S -> T]
  BY <1>2
<1>5. ASSUME NEW i \in S, NEW j \in S, f[i] = f[j] PROVE i = j
  <2>1. i \in Shown(u, d) /\ j \in Shown(u, d) /\ u.order[i] = u.order[j]
    BY <1>5
  <2>2. QED
    BY <2>1 DEF ShowsEachOnce
<1>6. \A n \in T : \E i \in S : f[i] = n
  BY <1>1 DEF ShowsEachOnce
<1> HIDE DEF S, T, f
<1>7. f \in Bijection(S, T)
  BY <1>4, <1>5, <1>6 DEF Bijection, Injection, Surjection, IsInjective
<1>8. ExistsBijection(S, T)
  BY <1>7 DEF ExistsBijection
<1>9. Cardinality(T) = Cardinality(S)
  BY <1>3, <1>8, FS_Bijection
<1>10. QED
  BY <1>9 DEF CountShown, CountAll, S, T

(* The list of a family's snapshots and its map show the same counts, for   *)
(* every form, answers and lights.                                         *)
THEOREM CountsAlwaysAgree == Spec => []CountsAgree
<1>1. TypeOK => CountsAgree
  <2> SUFFICES ASSUME TypeOK, NEW s \in Present, ShowsEachOnce(form, row[s].data),
                      NEW light \in Lights
               PROVE  CountShown(form, row[s].data, light)
                        = CountAll(row[s].data, light)
    BY DEF CountsAgree
  <2>1. form \in Forms /\ row[s].data \in Surveyed
    BY DEF TypeOK, Present, Row
  <2>2. QED
    BY <2>1, CountsMatch
<1>2. QED
  BY <1>1, TypeCorrect, PTL

=============================================================================
