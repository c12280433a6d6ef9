----------------------------- MODULE MCReading -----------------------------
(* Instances of Reading for TLC: short months whose lengths differ, and the *)
(* first months of a year with the real window.                             *)
EXTENDS Reading, TLC

WorkerSymmetry == Permutations(Workers)

ShortMonths == <<0, 2, 5>>
RealMonths == <<0, 31, 59, 90>>

MCLights == {"RED", "YELLOW", "GREEN"}
MCNames == {"income", "water", "pets"}
Data(water) == [income |-> "RED", pets |-> "RED", water |-> water]
MCSurveyed == {Data("GREEN"), Data(None)}
\* Water is twice in the order and is no indicator of the group.
MCForms == {[order |-> <<"water", "income", "pets", "water">>,
             group |-> {"income", "pets"}]}
=============================================================================
