---------------------------- MODULE UsageCharge ----------------------------
(***************************************************************************)
(* What the wallet promises about one billable use (an answer, a           *)
(* screenshot answer, a realtime minute, a written exam entry), whatever   *)
(* threads race over it: it is held before the work starts, and from there *)
(* it is either charged, once, or waived, for ever.                        *)
(***************************************************************************)
CONSTANT Usages

VARIABLE charge

States == {"open", "held", "charged", "waived"}

Init == charge = [u \in Usages |-> "open"]

Move(u, from, to) ==
  /\ charge[u] = from
  /\ charge' = [charge EXCEPT ![u] = to]

Hold(u)   == Move(u, "open", "held")
Charge(u) == Move(u, "held", "charged")

\* A sweep gives back any number of abandoned uses in one step.
Waive(S) ==
  /\ S # {}
  /\ \A u \in S : charge[u] = "held"
  /\ charge' = [u \in Usages |-> IF u \in S THEN "waived" ELSE charge[u]]

Next ==
  \/ \E u \in Usages : Hold(u) \/ Charge(u)
  \/ \E S \in SUBSET Usages : Waive(S)

Spec == Init /\ [][Next]_charge
=============================================================================
