----------------------------- MODULE MCSurveys -----------------------------
(* Instances of Surveys for TLC: a person's name, an income stored as a     *)
(* number, a location whose schema name differs from its column, an answer  *)
(* that is no attribute; every snapshot of up to MaxAnswers answers in one  *)
(* section, and filled-in forms over all sections.                         *)
EXTENDS Surveys, TLC

CONSTANT MaxAnswers   \* bound: answers in one section

WorkerSymmetry == Permutations(Workers)

MCNames == {"firstName", "salaryIncome", "location", "pets", "familyUbication"}

FirstName == [system |-> "firstName", schema |-> "firstName",
              group |-> "PERSONAL", column |-> "text", mandatory |-> TRUE]
Income == [system |-> "salaryIncome", schema |-> "salaryIncome",
           group |-> "ECONOMIC", column |-> "number", mandatory |-> FALSE]
Location == [system |-> "familyUbication", schema |-> "location",
             group |-> "ECONOMIC", column |-> "text", mandatory |-> FALSE]
MCAttributes == {FirstName, Income, Location}
MCCodeParts == {FirstName}

\* Surveys over the name and any of the others.
Survey(props, names) ==
    [properties |-> [n \in MCNames |-> IF n \in DOMAIN props THEN props[n] ELSE None],
     required |-> names]
MCSchemas == {
    Survey([firstName |-> "string"], {}),
    Survey([firstName |-> "string"], {"firstName"}),
    Survey([firstName |-> "string", salaryIncome |-> "number"],
           {"firstName", "salaryIncome"}),
    Survey([firstName |-> "string", salaryIncome |-> "integer", location |-> "choice"],
           {"firstName", "pets"}),
    Survey([firstName |-> "object", salaryIncome |-> "object",
            location |-> "string", familyUbication |-> "string", pets |-> "number"],
           {"firstName"})}

MCAnswers ==
    [section : Sections, name : {"firstName", "salaryIncome", "location"},
     value : {"text", "int", Null}]
    \cup [section : Sections, name : {"pets"}, value : {"int", Null}]
    \cup [section : Sections, name : {"familyUbication"}, value : {"text"}]
OneSection(d) ==
    \A e, f \in d : e.section = f.section /\ (e.name = f.name => e = f)
UpTo[n \in 0 .. MaxAnswers] ==
    IF n = 0 THEN {{}}
    ELSE UpTo[n - 1] \cup
         {d \in {c \cup {e} : c \in UpTo[n - 1], e \in MCAnswers} : OneSection(d)}
\* The name and the income, with or without the location, each in any section.
Filled(p, q, r) ==
    {[section |-> p, name |-> "firstName", value |-> "text"],
     [section |-> q, name |-> "salaryIncome", value |-> "int"]}
    \cup {[section |-> s, name |-> "location", value |-> "text"] : s \in r}
Forms == {Filled(p, q, r) : p, q \in Sections, r \in {{}} \cup {{s} : s \in Sections}}
MCSubmissions == UpTo[MaxAnswers] \cup Forms
=============================================================================
