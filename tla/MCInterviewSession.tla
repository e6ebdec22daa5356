------------------------- MODULE MCInterviewSession -------------------------
(* Two sessions of one user, one of which can supersede the other.         *)
EXTENDS InterviewSession, FiniteSets, TLC

Symmetry == Permutations(Threads) \cup Permutations(Sessions) \cup Permutations(Languages)
              \cup Permutations(Entries) \cup Permutations(Usages)

\* Bound: entries are explored for a user with one session without materials,
\* next to the calls that end it; usages, for a thread that is alone.
Noting == {"append", "note", "usage"}

ContextAlone ==
  (entries # {} \/ records # {} \/ \E t \in Threads : thread[t].op \in Noting)
    => /\ \/ records = {}
          \/ entries = {} /\ Cardinality({t \in Threads : thread[t] # Idle}) <= 1
       /\ \E s \in Sessions : ~row[s].confirmed /\ \A other \in Sessions \ {s} : row[other] = Absent
       /\ \A t \in Threads : thread[t].op \in Noting \cup {"none", "end", "delete"}
=============================================================================
