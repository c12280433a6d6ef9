----------------------------- MODULE FamilyLife -----------------------------
(***************************************************************************)
(* What the server promises about the life of a family, whatever calls the *)
(* requests are cut into.  A family is                                     *)
(*   unborn      not there yet,                                            *)
(*   registered  active, made by POST /families, without snapshots,        *)
(*   listed      active, with snapshots,                                   *)
(*   hidden      inactive, with snapshots: no listing shows it,            *)
(*   closing     out of snapshots, and a request is about to deal with it, *)
(*   abandoned   out of snapshots, and that request was cut short,         *)
(*   closed      inactive, without snapshots,                              *)
(*   gone        deleted, for good.                                        *)
(* Module Snapshots implements this specification.                         *)
(***************************************************************************)
CONSTANT Families
VARIABLES status,
          cut     \* families a request in charge of which was cut short

Statuses == {"unborn", "registered", "listed", "hidden", "closing",
             "abandoned", "closed", "gone"}

Init ==
    /\ status = [f \in Families |-> "unborn"]
    /\ cut = {}

Move(f, from, to) ==
    /\ status[f] \in from
    /\ status' = [status EXCEPT ![f] = to]

\* A snapshot is stored: it brings a family to life or back to the listings,
\* but does not reopen one that was closed.
Survey(f) ==
    /\ \/ Move(f, {"unborn", "registered", "listed", "closing", "abandoned"}, "listed")
       \/ Move(f, {"hidden", "closed"}, "hidden")
    /\ cut' = cut \ {f}

\* POST /families, with the active flag it carries; a family it has written
\* is nobody's duty to clean up.
Register(f) ==
    \/ Move(f, {"hidden"}, "listed")
    \/ Move(f, {"listed"}, "hidden")
    \/ Move(f, {"unborn", "closed", "closing", "abandoned"}, "registered")
    \/ Move(f, {"unborn", "registered", "closing", "abandoned"}, "closed")

\* The last snapshot is deleted.
LoseLast(f) ==
    \/ Move(f, {"listed"}, "closing")
    \/ Move(f, {"listed"}, "registered")
    \/ Move(f, {"hidden"}, "closed")

Deactivate(f) ==
    \/ Move(f, {"listed"}, "hidden")
    \/ Move(f, {"registered", "closing"}, "closed")

\* Only a family without snapshots is ever deleted.
Delete(f) == Move(f, {"registered", "closing", "closed"}, "gone")

\* A request that was dealing with the family is lost, perhaps the only one.
CutShort(f) ==
    /\ UNCHANGED status \/ Move(f, {"closing"}, "abandoned")
    /\ cut' = cut \cup {f}

\* Another deletion takes up an abandoned family.
TakeUp(f) == Move(f, {"abandoned"}, "closing")

\* An id that was drawn for a family that is never stored.
Waste(f) == Move(f, {"unborn"}, "gone")

Next == \E f \in Families :
    \/ Survey(f) \/ CutShort(f)
    \/ /\ Register(f) \/ LoseLast(f) \/ Deactivate(f) \/ Delete(f)
          \/ TakeUp(f) \/ Waste(f)
       /\ UNCHANGED cut

Spec == Init /\ [][Next]_<<status, cut>>

(* A family does not stay on its way out, unless a request in charge of it  *)
(* is cut short.                                                            *)
Resolution == \A f \in Families :
    status[f] = "closing" ~> status[f] # "closing" \/ f \in cut
=============================================================================
