------------------------------- MODULE Surveys -------------------------------
(***************************************************************************)
(* Survey definitions, and the snapshots filled out against them.          *)
(*                                                                         *)
(* SurveyServiceImpl checks a definition once, when it is stored, and a    *)
(* snapshot once, when it is submitted; SnapshotEconomicMapper then deals  *)
(* the answers out to columns and to JSON documents of additional          *)
(* properties, and puts them together again when a snapshot is read.  The  *)
(* survey may be deleted between the check and the insert of a snapshot:   *)
(* the transaction of addSurveySnapshot sees the survey when it reads it,  *)
(* and the foreign key looks at it when the insert is flushed.             *)
(*                                                                         *)
(* A snapshot as submitted is a set of answers [section, name, value]: the *)
(* map of the NewSnapshot the answer comes in, its key, and the kind of    *)
(* its value, which is all that validators and columns look at.            *)
(***************************************************************************)
EXTENDS Integers, FiniteSets

CONSTANTS
    Workers,      \* server threads, each handles one request at a time
    Names,        \* keys a schema or a snapshot may use
    Attributes,   \* rows of snapshots_properties_attributes, read at start-up
    CodeParts,    \* the attributes FamilyServiceImpl.generateFamilyCode reads
    Schemas,      \* the survey schemas clients post
    Submissions,  \* the snapshots clients submit
    MaxSurveys,   \* bound: survey ids
    MaxSnapshots, \* bound: snapshot ids
    Null,         \* a key that is there with the value null
    None          \* no row under this id, no such key

\* The maps of NewSnapshot, in the order getAllSurveyData copies them: an
\* answer is overridden by one of the same name in a later map.
Rank == [PERSONAL |-> 1, INDICATOR |-> 2, ECONOMIC |-> 3]
Sections == DOMAIN Rank

\* What Jackson makes of a JSON value; a number is an Integer, a Double, or a
\* Long when it does not fit an int.
Kinds == {"text", "int", "long", "fraction", "flag", "list", "object"}

\* Property.TypeEnum, with the kinds each constant accepts.  A value that is
\* no list passes for an array when it is one of its items ("choice").
Admits == [string  |-> {"text"},
           number  |-> {"int", "fraction"},
           integer |-> {"int"},
           boolean |-> {"flag"},
           object  |-> Kinds,
           array   |-> {"list"},
           choice  |-> {"list", "text"}]

Schema == [properties : [Names -> DOMAIN Admits \cup {None}],
           required   : SUBSET Names]

\* system is the name of a column, schema its key in surveys and snapshots.
Attribute == [system : Names, schema : Names, group : Sections,
              column : {"text", "number"}, mandatory : BOOLEAN]

Answer == [section : Sections, name : Names, value : Kinds \cup {Null}]

SurveyIds   == 1 .. MaxSurveys
SnapshotIds == 1 .. MaxSnapshots

\* The rows of one snapshot: the economic and the indicator columns, the two
\* documents of additional properties, and the personal map as it came.
Row == [survey   : SurveyIds,
        columns  : [{a \in Attributes : a.group # "PERSONAL"} -> Kinds \cup {Null}],
        extras   : SUBSET Answer,
        personal : SUBSET Answer]

ASSUME BoundsAssumption == MaxSurveys \in Nat /\ MaxSnapshots \in Nat

ASSUME SentinelAssumption ==
    /\ None \notin Int /\ None \notin Schema /\ None \notin Row
    /\ None \notin DOMAIN Admits
    /\ Null \notin Kinds

\* property_system_name is the primary key; in the seed data the two names
\* of an attribute agree, so no name is the system name of one attribute and
\* the schema name of another.
ASSUME AttributesAssumption ==
    /\ Attributes \subseteq Attribute
    /\ \A a, b \in Attributes :
         a.system = b.system \/ a.schema = b.schema \/ a.schema = b.system
            => a = b
    /\ CodeParts \subseteq
         {a \in Attributes : a.group = "PERSONAL" /\ a.column = "text"}

\* A map has one value for a key.
ASSUME InputsAssumption ==
    /\ Schemas \subseteq Schema
    /\ Submissions \subseteq SUBSET Answer
    /\ \A d \in Submissions : \A e, f \in d :
         e.section = f.section /\ e.name = f.name => e = f

VARIABLES
    survey,    \* table data_collect.surveys
    survSeq,   \* its id sequence: the last id handed out
    snapshot,  \* table snapshots_economics with its indicator rows
    snapSeq,   \* its id sequence
    req,       \* the request each worker is serving
    sent       \* history: what was submitted as the snapshot of this id

vars == <<survey, survSeq, snapshot, snapSeq, req, sent>>

Idle == [step |-> "idle", survey |-> None, data |-> {}]

Request == [step   : {"idle", "insert", "delete"},
            survey : SurveyIds \cup {None},
            data   : SUBSET Answer]

Init ==
    /\ survey = [s \in SurveyIds |-> None]
    /\ survSeq = 0
    /\ snapshot = [s \in SnapshotIds |-> None]
    /\ snapSeq = 0
    /\ req = [w \in Workers |-> Idle]
    /\ sent = [s \in SnapshotIds |-> {}]

-----------------------------------------------------------------------------
(* SurveyServiceImpl.validateSchemas and checkSchemaCompliance.            *)

PresentInSchema(c, n) == c.properties[n] # None
MarkedAsRequired(c, n) == n \in c.required

\* Only MANDATORY attributes are looked for, and the schema may require names
\* it does not define.
ValidSchema(c) ==
    \A a \in Attributes : a.mandatory =>
        PresentInSchema(c, a.schema) /\ MarkedAsRequired(c, a.schema)

\* getAllSurveyData: the answers no later map overrides.
AllSurveyData(d) ==
    {e \in d : ~\E f \in d : f.name = e.name /\ Rank[f.section] > Rank[e.section]}

ValidType(c, e) == e.value # Null => e.value \in Admits[c.properties[e.name]]

\* A name the schema does not define is not looked for.
RequiredValue(c, all, n) ==
    MarkedAsRequired(c, n) => \E e \in all : e.name = n /\ e.value # Null

Complies(c, d) ==
    LET all == AllSurveyData(d) IN
    /\ \A e \in all : PresentInSchema(c, e.name) /\ ValidType(c, e)
    /\ \A n \in Names : PresentInSchema(c, n) => RequiredValue(c, all, n)

-----------------------------------------------------------------------------
(* SnapshotEconomicMapper and PropertyAttributeSupport.                    *)

\* staticPersonal, staticIndicator, staticEconomic and additional test the
\* key of the answer against the system names.
Static(e) == \E a \in Attributes : a.system = e.name /\ a.group = e.section
Additional(e) == \A a \in Attributes : a.system # e.name

\* propertySchemaToSystemName: the column the key stands for.
Renamed(e) == {a \in Attributes : a.schema = e.name}

\* Double.valueOf(value.toString()), or a setter that takes a String.
Fits(a, v) == IF a.column = "number" THEN v \in {"int", "long", "fraction"}
                                     ELSE v = "text"
Stored(a, v) == IF a.column = "number" THEN "fraction" ELSE v

\* The mapper throws for a null (toMap), for a key without a column and for
\* a value its column does not take.  Additional answers of the personal map
\* are never collected.
Storable(d) ==
    /\ \A e \in d : Static(e) =>
         e.value # Null /\ \E a \in Renamed(e) : Fits(a, e.value)
    /\ \A e \in d : Additional(e) /\ e.section # "PERSONAL" => e.value # Null

\* Mutant: takes the parts of the code from whatever section has them.
CodeableAnywhere(d) == \A a \in CodeParts : \E e \in d : a \in Renamed(e)

\* generateFamilyCode dereferences the fields of the person.
Codeable(d) ==
    \A a \in CodeParts : \E e \in d :
        e.section = "PERSONAL" /\ Static(e) /\ a \in Renamed(e)

\* Mutant: the answers of the person get columns too.
RowOfAllSections(s, d) ==
    [survey   |-> s,
     columns  |-> [a \in Attributes |->
                    IF \E e \in d : Static(e) /\ a \in Renamed(e) THEN "text" ELSE Null],
     extras   |-> {e \in d : Additional(e)},
     personal |-> {e \in d : e.section = "PERSONAL"}]

\* The rows written: columns, additional_properties and the personal map,
\* which is stored as it came.
RowOf(s, d) ==
    [survey   |-> s,
     columns  |-> [a \in {b \in Attributes : b.group # "PERSONAL"} |->
                    LET es == {e \in d : Static(e) /\ a \in Renamed(e)}
                    IN  IF es = {} THEN Null
                        ELSE Stored(a, (CHOOSE e \in es : TRUE).value)],
     extras   |-> {e \in d : Additional(e) /\ e.section # "PERSONAL"},
     personal |-> {e \in d : e.section = "PERSONAL"}]

\* Mutant: the attributes are written last.
ReadBackColumnsLast(r, g) ==
    LET columns == {[section |-> g, name |-> a.schema, value |-> r.columns[a]] :
                      a \in {b \in Attributes : b.group = g}}
    IN  columns \cup {e \in r.extras : e.section = g
                                      /\ \A c \in columns : c.name # e.name}

\* getAllProperties of the economic or the indicator row: every attribute of
\* the group, overridden by the additional properties.
ReadBack(r, g) ==
    LET extras == {e \in r.extras : e.section = g}
    IN  extras \cup
        {[section |-> g, name |-> a.schema, value |-> r.columns[a]] :
           a \in {b \in Attributes : b.group = g
                                     /\ \A e \in extras : e.name # b.schema}}

-----------------------------------------------------------------------------
(* The requests.                                                           *)

At(w, s) == req[w].step = s
Set(w, r) == req' = [req EXCEPT ![w] = r]
Finish(w) == Set(w, Idle)

\* POST /surveys, one insert.
AddSurveyDefinition(c) ==
    /\ ValidSchema(c)
    /\ survSeq < MaxSurveys
    /\ survSeq' = survSeq + 1
    /\ survey' = [survey EXCEPT ![survSeq + 1] = c]
    /\ UNCHANGED <<snapshot, snapSeq, req, sent>>

\* "Invalid Survey Schema".
RejectSurveyDefinition(c) == ~ValidSchema(c) /\ UNCHANGED vars

\* DELETE /surveys/{id}: findOne, then delete.
FindSurvey(w, s) ==
    /\ At(w, "idle")
    /\ survey[s] # None
    /\ Set(w, [Idle EXCEPT !.step = "delete", !.survey = s])
    /\ UNCHANGED <<survey, survSeq, snapshot, snapSeq, sent>>

\* Mutant: as if only the snapshots being inserted held the survey.
UnreferencedByPending(s) ==
    \A w \in Workers : At(w, "insert") => req[w].survey # s

\* The foreign key: no snapshot refers to the survey.  Drafts do too; any
\* other deletion that is refused is one that did not happen.
Unreferenced(s) ==
    \A n \in SnapshotIds : snapshot[n] # None => snapshot[n].survey # s

DeleteSurvey(w) ==
    /\ At(w, "delete")
    /\ survey' = IF Unreferenced(req[w].survey)
                 THEN [survey EXCEPT ![req[w].survey] = None] ELSE survey
    /\ Finish(w)
    /\ UNCHANGED <<survSeq, snapshot, snapSeq, sent>>

\* POST /snapshots: addSurveySnapshot up to the insert.  What fails a check
\* or makes the mapper throw changes nothing.
CheckSnapshot(w, s, d) ==
    /\ At(w, "idle")
    /\ survey[s] # None
    /\ Complies(survey[s], d)
    /\ Storable(d)
    /\ Codeable(d)
    /\ Set(w, [step |-> "insert", survey |-> s, data |-> d])
    /\ UNCHANGED <<survey, survSeq, snapshot, snapSeq, sent>>

\* Mutant: the commit, without a foreign key to the survey.
InsertUnconstrained(w) ==
    /\ At(w, "insert")
    /\ snapSeq < MaxSnapshots
    /\ snapSeq' = snapSeq + 1
    /\ snapshot' = [snapshot EXCEPT ![snapSeq + 1] = RowOf(req[w].survey, req[w].data)]
    /\ sent' = [sent EXCEPT ![snapSeq + 1] = req[w].data]
    /\ Finish(w)
    /\ UNCHANGED <<survey, survSeq>>

\* The commit, with the foreign key to the survey.
InsertSnapshot(w) ==
    LET r == req[w] IN
    /\ At(w, "insert")
    /\ snapSeq < MaxSnapshots
    /\ snapSeq' = snapSeq + 1
    /\ IF survey[r.survey] # None
       THEN /\ snapshot' = [snapshot EXCEPT ![snapSeq + 1] = RowOf(r.survey, r.data)]
            /\ sent' = [sent EXCEPT ![snapSeq + 1] = r.data]
       ELSE UNCHANGED <<snapshot, sent>>
    /\ Finish(w)
    /\ UNCHANGED <<survey, survSeq>>

\* What module Snapshots does to this state when it deletes a snapshot.
DeleteSnapshot(n) ==
    /\ snapshot[n] # None
    /\ snapshot' = [snapshot EXCEPT ![n] = None]
    /\ UNCHANGED <<survey, survSeq, snapSeq, req, sent>>

\* The connection or the server goes away: the transaction is rolled back.
Abort(w) ==
    /\ ~At(w, "idle")
    /\ Finish(w)
    /\ UNCHANGED <<survey, survSeq, snapshot, snapSeq, sent>>

Next ==
    \/ \E c \in Schemas : AddSurveyDefinition(c) \/ RejectSurveyDefinition(c)
    \/ \E w \in Workers :
         \/ \E s \in SurveyIds : FindSurvey(w, s)
         \/ DeleteSurvey(w)
         \/ \E s \in SurveyIds, d \in Submissions : CheckSnapshot(w, s, d)
         \/ InsertSnapshot(w)
         \/ Abort(w)
    \/ \E n \in SnapshotIds : DeleteSnapshot(n)

Spec == Init /\ [][Next]_vars

-----------------------------------------------------------------------------
(* Properties                                                              *)

(* Tables and requests hold what their columns and fields allow.           *)
TypeOK ==
    /\ survey \in [SurveyIds -> Schema \cup {None}]
    /\ survSeq \in 0 .. MaxSurveys
    /\ snapshot \in [SnapshotIds -> Row \cup {None}]
    /\ snapSeq \in 0 .. MaxSnapshots
    /\ req \in [Workers -> Request]
    /\ sent \in [SnapshotIds -> SUBSET Answer]

Present == {n \in SnapshotIds : snapshot[n] # None}

(* A survey is checked against long before and stored apart from its        *)
(* snapshots, and surveys and snapshots are deleted by requests of their    *)
(* own.  Still the survey of a stored snapshot is there, is the one the     *)
(* snapshot was checked against, and is complied with.                      *)
SnapshotsComply ==
    \A n \in Present :
        LET c == survey[snapshot[n].survey]
        IN  c # None /\ ValidSchema(c) /\ Complies(c, sent[n])

\* The answer f read back is the answer e: a number may have become a fraction.
Same(e, f) == /\ f.name = e.name
              /\ f.value \in {e.value} \cup {Stored(a, e.value) : a \in Renamed(e)}

(* No answer is lost or changed on its way through the columns and the JSON *)
(* documents, whether the name of its column is its key or not: what was    *)
(* sent in the section of its attribute, or is the answer to no attribute,  *)
(* is read back once, and nothing else is read back but nulls.              *)
AnswersReadBack ==
    \A n \in Present, g \in {"ECONOMIC", "INDICATOR"} :
        LET back == ReadBack(snapshot[n], g)
            own == {e \in sent[n] : e.section = g /\ \A a \in Attributes :
                      e.name \in {a.schema, a.system} => a.group = g}
        IN  /\ \A e \in own : \E f \in back : Same(e, f)
            /\ \A f \in back : f.value # Null => \E e \in sent[n] :
                                                e.section = g /\ Same(e, f)
            /\ \A f, h \in back : f.name = h.name => f = h

(* Compliance only looks at the merged answers, in whatever section they    *)
(* came.  Still every stored snapshot has the parts of the family code in   *)
(* its personal section, where the family map and the lists look for them.  *)
PersonIdentified ==
    \A n \in Present : \A a \in CodeParts :
        \E e \in snapshot[n].personal : e.name = a.schema /\ e.value = "text"

(* A stored snapshot has a value for everything its survey requires and     *)
(* defines: "Property '...' is required".                                   *)
RequiredKept ==
    \A n \in Present :
        LET c == survey[snapshot[n].survey]
            kept == snapshot[n].personal \cup ReadBack(snapshot[n], "ECONOMIC")
                       \cup ReadBack(snapshot[n], "INDICATOR")
        IN  \A m \in c.required : PresentInSchema(c, m) =>
                \E e \in kept : e.name = m /\ e.value # Null

\* The submissions each sound definition accepts.
Accepted == [c \in {b \in Schemas : ValidSchema(b)} |->
               {d \in Submissions : Complies(c, d) /\ Storable(d) /\ Codeable(d)}]

\* The snapshots, as they were submitted.
Submitted == [n \in SnapshotIds |->
             IF snapshot[n] = None THEN None
             ELSE [survey |-> snapshot[n].survey, data |-> sent[n]]]

(* A submission takes several calls, and other requests delete its survey   *)
(* and define new ones between them.  Still what it leaves is what checking *)
(* and storing in one instant would have left: see SurveyLedger.            *)
Ledger == INSTANCE SurveyLedger WITH
    filled <- Submitted, usedSurveys <- 1 .. survSeq, usedSnapshots <- 1 .. snapSeq
SubmissionsAtomic == Ledger!Spec

=============================================================================
