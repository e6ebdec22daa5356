-------------------------- MODULE MCPartnerProgram --------------------------
(* One acquired user, two partners, two orders of 10 cents, a commission of *)
(* a fifth.                                                                *)
EXTENDS PartnerProgram, TLC

CONSTANTS u1, o1, o2, p1, p2

MCBuyer == [o \in Orders |-> u1]
MCGross == [o \in Orders |-> 10]

\* Bound: the programme is closed and opened again only before anything was
\* paid; payouts are explored with one partner and one rule.
Focused ==
  /\ open \/ \A o \in Orders : paidAt[o] = 0
  /\ joined = {p1, p2} \/ rule > 1 =>
       payouts = {} /\ \A t \in Threads : tx[t].op \notin {"ask", "payout"}

Symmetry == Permutations(Threads) \cup Permutations(Orders) \cup Permutations(Refs)
              \cup Permutations(Partners)
=============================================================================
