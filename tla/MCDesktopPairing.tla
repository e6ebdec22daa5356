-------------------------- MODULE MCDesktopPairing --------------------------
(* Two sessions, of one user or of two who share a companion: one thread   *)
(* serves the pages, one the administrator or the reaper and the machine   *)
(* that registers, one the companion's polls.                              *)
EXTENDS DesktopPairing, TLC

CONSTANTS s1, s2, alice, bob, page, other

MCServes == [c \in Callers |-> IF c = page THEN {"bind"} ELSE {"end", "register"}]

\* One call after the other.
MCServesAll == [c \in Callers |-> {"bind", "end", "register"}]

\* Users are alike; sessions are not, as the companion is pinned to one.
Symmetry == Permutations(Users)
=============================================================================
