---------------------------- MODULE WalletProofs ----------------------------
(***************************************************************************)
(* What holds of Wallet for every set of callers, usages, quotes, passes   *)
(* and every rate.                                                         *)
(***************************************************************************)
EXTENDS Wallet, FiniteSetTheorems, WellFoundedInduction, TLAPS

(* The tables keep their shape through every statement of every            *)
(* transaction: the postgres_billing_repository methods and the admin's    *)
(* adjust_points.                                                          *)
THEOREM TypeCorrect == Spec => []TypeOK
<1> USE DEF TypeOK, Statuses
<1>1. Init => TypeOK
  <2> SUFFICES ASSUME Init PROVE TypeOK
    OBVIOUS
  <2>1. /\ ledger \subseteq [ref : Refs, points : Int] /\ aged \subseteq Usages
        /\ adjusting \subseteq Debits /\ lock \in Callers \cup {None}
        /\ disturbed \in BOOLEAN /\ DOMAIN seen = Callers
        /\ pass \in [Passes -> {"ahead", "active", "over"}]
    BY DEF Init
  <2>2. usage \in [Usages -> [status : Statuses, points : Nat]]
    BY DEF Init, NoUsage
  <2>3. index \in [Quotes -> [status : Statuses, points : Nat, pass : Passes \cup {None}]]
    BY DEF Init, NoIndex
  <2>4. allowance \in [Passes -> [used : Nat, locked : Nat]]
    BY DEF Init
  <2>5. tx \in [Callers -> [pc : {"idle", "welcome", "lock", "decide"},
                           op : {"none", "usage", "index"},
                           id : Usages \cup Quotes \cup {None}]]
    BY DEF Init, Idle
  <2>6. QED
    BY <2>1, <2>2, <2>3, <2>4, <2>5
<1>2. TypeOK /\ [Next]_vars => TypeOK'
  <2> SUFFICES ASSUME TypeOK, [Next]_vars PROVE TypeOK'
    OBVIOUS
  <2> USE ConstantsAssumption
  <2>1. ASSUME NEW c \in Callers, NEW u \in Usages, BeginReserveUsage(c, u) PROVE TypeOK'
    BY <2>1 DEF BeginReserveUsage, Sweep, Held, Idle
  <2>2. ASSUME NEW c \in Callers, NEW q \in Quotes, BeginReserveIndex(c, q) PROVE TypeOK'
    BY <2>2 DEF BeginReserveIndex, Idle
  <2>3. ASSUME NEW c \in Callers, EnsureWelcomeGrant(c) PROVE TypeOK'
    <3>1. ledger' \subseteq [ref : Refs, points : Int]
      BY <2>3 DEF EnsureWelcomeGrant, Post, Refs, WelcomeRef
    <3>2. QED
      BY <2>3, <3>1, SMTT(30) DEF EnsureWelcomeGrant
  <2>4. ASSUME NEW c \in Callers, ReturnExisting(c) PROVE TypeOK'
    BY <2>4 DEF ReturnExisting, Idle
  <2>5. ASSUME NEW c \in Callers, ReserveUsageOnPass(c) PROVE TypeOK'
    BY <2>5 DEF ReserveUsageOnPass, Idle
  <2>6. ASSUME NEW c \in Callers, NEW p \in Passes, ReserveIndexOnPass(c, p) PROVE TypeOK'
    <3>1. allowance' \in [Passes -> [used : Nat, locked : Nat]]
      <4>1. allowance[p].locked + 1 \in Nat
        OBVIOUS
      <4>2. allowance' = [allowance EXCEPT ![p].locked = allowance[p].locked + 1]
        BY <2>6 DEF ReserveIndexOnPass
      <4>3. QED
        BY <4>1, <4>2
    <3>2. tx[c].id \in Quotes => index' \in [Quotes ->
            [status : Statuses, points : Nat, pass : Passes \cup {None}]]
      BY <2>6 DEF ReserveIndexOnPass
    <3>3. tx[c].id \notin Quotes => index' = index
      BY <2>6 DEF ReserveIndexOnPass
    <3>4. QED
      BY <2>6, <3>1, <3>2, <3>3 DEF ReserveIndexOnPass, Idle
  <2>7. ASSUME NEW c \in Callers, ReadBalance(c) PROVE TypeOK'
    BY <2>7 DEF ReadBalance
  <2>8. ASSUME NEW c \in Callers, DecideUsage(c) PROVE TypeOK'
    BY <2>8 DEF DecideUsage, EndTransaction, Idle
  <2>9. ASSUME NEW c \in Callers, DecideIndex(c) PROVE TypeOK'
    BY <2>9 DEF DecideIndex, EndTransaction, Idle
  <2>10. ASSUME NEW c \in Callers, AbortReserve(c) PROVE TypeOK'
    BY <2>10 DEF AbortReserve, EndTransaction, Idle
  <2>11. ASSUME NEW u \in Usages, SettleUsage(u) PROVE TypeOK'
    BY <2>11 DEF SettleUsage, Post, Refs, UsageRef
  <2>12. ASSUME NEW u \in Usages, ReleaseUsage(u) PROVE TypeOK'
    BY <2>12 DEF ReleaseUsage
  <2>13. ASSUME NEW q \in Quotes, SettleIndex(q) PROVE TypeOK'
    <3>1. ledger' \subseteq [ref : Refs, points : Int]
      BY <2>13 DEF SettleIndex, Post, Refs, IndexRef
    <3>2. allowance' \in [Passes -> [used : Nat, locked : Nat]]
      <4>1. CASE index[q].pass # None
        <5>1. index[q].pass \in Passes
          BY <4>1
        <5>2. allowance[index[q].pass].used + 1 \in Nat
              /\ Unlock(allowance[index[q].pass].locked) \in Nat
          BY <5>1 DEF Unlock
        <5>3. allowance' = [allowance EXCEPT ![index[q].pass] =
                 [used |-> allowance[index[q].pass].used + 1,
                  locked |-> Unlock(allowance[index[q].pass].locked)]]
          BY <2>13, <4>1 DEF SettleIndex
        <5>4. QED
          BY <5>1, <5>2, <5>3
      <4>2. CASE index[q].pass = None
        BY <2>13, <4>2 DEF SettleIndex
      <4>3. QED
        BY <4>1, <4>2
    <3>3. index' \in [Quotes -> [status : Statuses, points : Nat, pass : Passes \cup {None}]]
      <4> DEFINE settled == [index[q] EXCEPT !.status = "settled"]
      <4>1. index' = [index EXCEPT ![q] = settled]
        BY <2>13 DEF SettleIndex
      <4>2. settled \in [status : Statuses, points : Nat, pass : Passes \cup {None}]
        BY DEF Statuses
      <4> HIDE DEF settled
      <4>3. QED
        BY <4>1, <4>2
    <3>4. disturbed' \in BOOLEAN /\ UNCHANGED <<usage, pass, aged, lock, tx, seen, adjusting>>
      BY <2>13 DEF SettleIndex
    <3>5. QED
      BY <3>1, <3>2, <3>3, <3>4
  <2>14. ASSUME NEW q \in Quotes, ReleaseIndex(q) PROVE TypeOK'
    <3>1. allowance' \in [Passes -> [used : Nat, locked : Nat]]
      <4>1. CASE index[q].pass # None
        <5>1. index[q].pass \in Passes
          BY <4>1
        <5>2. Unlock(allowance[index[q].pass].locked) \in Nat
          BY <5>1 DEF Unlock
        <5>3. allowance' = [allowance EXCEPT ![index[q].pass].locked =
                              Unlock(allowance[index[q].pass].locked)]
          BY <2>14, <4>1 DEF ReleaseIndex
        <5>4. QED
          BY <5>1, <5>2, <5>3, SMTT(30)
      <4>2. CASE index[q].pass = None
        BY <2>14, <4>2 DEF ReleaseIndex
      <4>3. QED
        BY <4>1, <4>2
    <3>2. QED
      BY <2>14, <3>1 DEF ReleaseIndex
  <2>15. CASE SweepForState
    BY <2>15 DEF SweepForState, Sweep, Held
  <2>16. CASE WelcomeForState
    BY <2>16 DEF WelcomeForState, Post, Refs, WelcomeRef
  <2>17. ASSUME NEW r \in Credits, Credit(r) PROVE TypeOK'
    BY <2>17 DEF Credit, Post, Refs, CreditRef
  <2>18. ASSUME NEW r \in Debits, CheckAdjustment(r) PROVE TypeOK'
    BY <2>18 DEF CheckAdjustment
  <2>19. ASSUME NEW r \in Debits, CommitAdjustment(r) PROVE TypeOK'
    BY <2>19 DEF CommitAdjustment, Post, Refs, DebitRef
  <2>20. ASSUME NEW u \in Usages, AgeUsage(u) PROVE TypeOK'
    BY <2>20 DEF AgeUsage
  <2>21. ASSUME NEW p \in Passes, PassStarts(p) \/ PassEnds(p) PROVE TypeOK'
    BY <2>21 DEF PassStarts, PassEnds
  <2>22. CASE UNCHANGED vars
    BY <2>22 DEF vars
  <2>23. QED
    BY <2>1, <2>2, <2>3, <2>4, <2>5, <2>6, <2>7, <2>8, <2>9, <2>10, <2>11, <2>12,
       <2>13, <2>14, <2>15, <2>16, <2>17, <2>18, <2>19, <2>20, <2>21, <2>22
       DEF Next, Call, Advance, Outcome, Environment
<1>3. QED
  BY <1>1, <1>2, PTL DEF Spec

(* The advisory lock does what reserve_usage and reserve_index_quote take  *)
(* it for: nothing another transaction commits can put a row where the     *)
(* caller that holds the lock is about to insert one.                      *)
THEOREM InsertsAreSerialized == Spec => []InsertUnderLock
<1>1. Init => InsertUnderLock
  BY DEF Init, InsertUnderLock, Idle
<1>2. TypeOK /\ InsertUnderLock /\ [Next]_vars => InsertUnderLock'
  <2> SUFFICES ASSUME TypeOK, InsertUnderLock, [Next]_vars PROVE InsertUnderLock'
    OBVIOUS
  <2> USE ConstantsAssumption DEF TypeOK, InsertUnderLock
  <2>1. ASSUME NEW c \in Callers, NEW u \in Usages, BeginReserveUsage(c, u) PROVE InsertUnderLock'
    BY <2>1 DEF BeginReserveUsage, Sweep, Held, Idle
  <2>2. ASSUME NEW c \in Callers, NEW q \in Quotes, BeginReserveIndex(c, q) PROVE InsertUnderLock'
    BY <2>2 DEF BeginReserveIndex, Idle
  <2>3. ASSUME NEW c \in Callers, EnsureWelcomeGrant(c) \/ ReturnExisting(c) PROVE InsertUnderLock'
    <3>1. CASE EnsureWelcomeGrant(c)
      BY <3>1 DEF EnsureWelcomeGrant
    <3>2. CASE ReturnExisting(c)
      BY <3>2 DEF ReturnExisting, Idle
    <3>3. QED
      BY <2>3, <3>1, <3>2
  <2>4. ASSUME NEW c \in Callers, ReserveUsageOnPass(c) PROVE InsertUnderLock'
    BY <2>4 DEF ReserveUsageOnPass, Idle
  <2>5. ASSUME NEW c \in Callers, NEW p \in Passes, ReserveIndexOnPass(c, p) PROVE InsertUnderLock'
    BY <2>5 DEF ReserveIndexOnPass, Idle
  <2>6. ASSUME NEW c \in Callers, ReadBalance(c) PROVE InsertUnderLock'
    BY <2>6 DEF ReadBalance
  <2>7. ASSUME NEW c \in Callers, DecideUsage(c) PROVE InsertUnderLock'
    BY <2>7 DEF DecideUsage, EndTransaction, Idle
  <2>8. ASSUME NEW c \in Callers, DecideIndex(c) PROVE InsertUnderLock'
    BY <2>8 DEF DecideIndex, EndTransaction, Idle
  <2>9. ASSUME NEW c \in Callers, AbortReserve(c) PROVE InsertUnderLock'
    BY <2>9 DEF AbortReserve, EndTransaction, Idle
  <2>10. ASSUME NEW u \in Usages, SettleUsage(u) \/ ReleaseUsage(u) PROVE InsertUnderLock'
    <3>1. /\ UNCHANGED <<index, lock, tx>> /\ usage[u].status = "reserved"
          /\ \A v \in Usages \ {u} : usage'[v] = usage[v]
      BY <2>10 DEF SettleUsage, ReleaseUsage
    <3>2. QED
      BY <3>1
  <2>11. ASSUME NEW q \in Quotes, SettleIndex(q) \/ ReleaseIndex(q) PROVE InsertUnderLock'
    BY <2>11, SMTT(30) DEF SettleIndex, ReleaseIndex
  <2>12. CASE SweepForState
    BY <2>12 DEF SweepForState, Sweep, Held
  <2>13. CASE UNCHANGED <<usage, index, lock, tx>>
    BY <2>13
  <2>14. CASE WelcomeForState \/ Environment
    BY <2>13, <2>14 DEF WelcomeForState, Environment, Credit, CheckAdjustment,
                        CommitAdjustment, AgeUsage, PassStarts, PassEnds
  <2>15. QED
    BY <2>1, <2>2, <2>3, <2>4, <2>5, <2>6, <2>7, <2>8, <2>9, <2>10, <2>11, <2>12,
       <2>13, <2>14 DEF Next, Call, Advance, Outcome, vars
<1>3. QED
  BY <1>1, <1>2, TypeCorrect, PTL DEF Spec

-----------------------------------------------------------------------------
(* A posting adds at most its own entry, once.                             *)
LEMMA PostAdds ==
  ASSUME NEW ref, NEW points, ledger' = Post(ref, points)
  PROVE  /\ ledger \subseteq ledger'
         /\ \A e \in ledger' : e \in ledger \/ (~Posted(ref) /\ e = [ref |-> ref, points |-> points])
         /\ Posted(ref)'
         /\ \A other : other # ref => (Posted(other)' <=> Posted(other))
         /\ OneEntryPerReference => OneEntryPerReference'
<1>1. CASE Posted(ref)
  BY <1>1 DEF Post, Posted, OneEntryPerReference
<1>2. CASE ~Posted(ref)
  <2> DEFINE new == [ref |-> ref, points |-> points]
  <2>1. ledger' = ledger \cup {new}
    BY <1>2 DEF Post
  <2>2. new.ref = ref
    OBVIOUS
  <2> HIDE DEF new
  <2>3. Posted(ref)'
    BY <2>1, <2>2 DEF Posted
  <2>4. \A other : other # ref => (Posted(other)' <=> Posted(other))
    BY <2>1, <2>2 DEF Posted
  <2>5. OneEntryPerReference => OneEntryPerReference'
    BY <1>2, <2>1, <2>2 DEF Posted, OneEntryPerReference
  <2>6. QED
    BY <1>2, <2>1, <2>3, <2>4, <2>5 DEF new
<1>3. QED
  BY <1>1, <1>2

\* An entry that charges nothing leaves the charges as they are.
LEMMA PostOtherKeepsCharges ==
  ASSUME NEW ref, NEW points, ledger' = Post(ref, points),
         ref[1] \notin {"usage", "knowledge-index"}, UNCHANGED <<usage, index>>,
         LedgerMatchesReservations
  PROVE  LedgerMatchesReservations'
<1>1. /\ \A u \in Usages : UsageRef(u) # ref
      /\ \A q \in Quotes : IndexRef(q) # ref
  BY DEF UsageRef, IndexRef
<1>2. OneEntryPerReference'
  BY PostAdds DEF LedgerMatchesReservations
<1>3. UsageChargedIffSettled'
  <2>1. ASSUME NEW u \in Usages
        PROVE  /\ Posted(UsageRef(u))' <=> usage'[u].status = "settled"
               /\ \A e \in ledger' : e.ref = UsageRef(u) => e.points = -usage'[u].points
    BY <1>1, PostAdds DEF LedgerMatchesReservations, UsageChargedIffSettled
  <2>2. QED
    BY <2>1 DEF UsageChargedIffSettled, UsageRef, Posted
<1>4. SettledIndexIsCharged'
  BY <1>1, PostAdds DEF LedgerMatchesReservations, SettledIndexIsCharged, IndexRef
<1>5. IndexChargeHasSettledQuote'
  BY <1>1, PostAdds DEF LedgerMatchesReservations, IndexChargeHasSettledQuote, IndexRef
<1>6. QED
  BY <1>2, <1>3, <1>4, <1>5 DEF LedgerMatchesReservations

\* So does a change of reservations that settles nothing and reprices nothing
\* that is settled.
LEMMA UnsettledKeepsCharges ==
  ASSUME UNCHANGED ledger, LedgerMatchesReservations,
         \A u \in Usages : \/ usage'[u] = usage[u]
                           \/ usage[u].status # "settled" /\ usage'[u].status # "settled",
         \A q \in Quotes : \/ index'[q] = index[q]
                           \/ index[q].status # "settled" /\ index'[q].status # "settled"
  PROVE  LedgerMatchesReservations'
<1>1. OneEntryPerReference'
  BY DEF LedgerMatchesReservations, OneEntryPerReference
<1>2. UsageChargedIffSettled'
  BY DEF LedgerMatchesReservations, UsageChargedIffSettled, Posted, UsageRef
<1>3. SettledIndexIsCharged'
  BY DEF LedgerMatchesReservations, SettledIndexIsCharged, Posted, IndexRef
<1>4. IndexChargeHasSettledQuote'
  BY DEF LedgerMatchesReservations, IndexChargeHasSettledQuote, IndexRef
<1>5. QED
  BY <1>1, <1>2, <1>3, <1>4 DEF LedgerMatchesReservations

(* What a time pass pays for costs no points: reserve_index_quote inserts  *)
(* points_reserved = 0 with an entitlement_id and no entitlement_id with   *)
(* points, and no later statement reprices the row.                        *)
THEOREM PassWorkIsFree == Spec => []FreeOnPass
<1>1. Init => FreeOnPass
  BY DEF Init, FreeOnPass, NoIndex
<1>2. TypeOK /\ InsertUnderLock /\ FreeOnPass /\ [Next]_vars => FreeOnPass'
  <2> SUFFICES ASSUME TypeOK, InsertUnderLock, FreeOnPass, [Next]_vars PROVE FreeOnPass'
    OBVIOUS
  <2> USE DEF TypeOK, InsertUnderLock, FreeOnPass
  <2>1. ASSUME NEW c \in Callers, NEW p \in Passes, ReserveIndexOnPass(c, p) PROVE FreeOnPass'
    BY <2>1 DEF ReserveIndexOnPass
  <2>2. ASSUME NEW c \in Callers, DecideIndex(c) PROVE FreeOnPass'
    BY <2>2 DEF DecideIndex
  <2>3. ASSUME NEW q \in Quotes, SettleIndex(q) PROVE FreeOnPass'
    BY <2>3 DEF SettleIndex
  <2>4. ASSUME NEW q \in Quotes, ReleaseIndex(q) PROVE FreeOnPass'
    BY <2>4 DEF ReleaseIndex
  <2>5. CASE UNCHANGED index
    BY <2>5
  <2>6. ASSUME NEW c \in Callers,
               \/ \E u \in Usages : BeginReserveUsage(c, u)
               \/ \E q \in Quotes : BeginReserveIndex(c, q)
               \/ EnsureWelcomeGrant(c) \/ ReturnExisting(c) \/ ReserveUsageOnPass(c)
               \/ ReadBalance(c) \/ DecideUsage(c) \/ AbortReserve(c)
        PROVE  UNCHANGED index
    BY <2>6 DEF BeginReserveUsage, BeginReserveIndex, EnsureWelcomeGrant, ReturnExisting,
                ReserveUsageOnPass, ReadBalance, DecideUsage, AbortReserve
  <2>7. ASSUME \/ \E u \in Usages : SettleUsage(u) \/ ReleaseUsage(u)
               \/ SweepForState \/ WelcomeForState \/ Environment
        PROVE  UNCHANGED index
    BY <2>7 DEF SettleUsage, ReleaseUsage, SweepForState, WelcomeForState, Environment,
                Credit, CheckAdjustment, CommitAdjustment, AgeUsage, PassStarts, PassEnds
  <2>8. QED
    BY <2>1, <2>2, <2>3, <2>4, <2>5, <2>6, <2>7 DEF Next, Call, Advance, Outcome, vars
<1>3. QED
  BY <1>1, <1>2, TypeCorrect, InsertsAreSerialized, PTL DEF Spec

(* Charged exactly when settled, once, for what was reserved: settle_usage *)
(* and settle_index_quote write the ledger entry and the status in one     *)
(* transaction that locks the row, and the entry's reference makes a       *)
(* second one impossible.                                                  *)
THEOREM ChargesMatch == Spec => []LedgerMatchesReservations
<1>1. Init => LedgerMatchesReservations
  BY DEF Init, LedgerMatchesReservations, OneEntryPerReference, UsageChargedIffSettled,
         SettledIndexIsCharged, IndexChargeHasSettledQuote, Posted, NoUsage, NoIndex
<1>2. TypeOK /\ InsertUnderLock /\ FreeOnPass /\ LedgerMatchesReservations /\ [Next]_vars
        => LedgerMatchesReservations'
  <2> SUFFICES ASSUME TypeOK, InsertUnderLock, FreeOnPass, LedgerMatchesReservations,
                      [Next]_vars
               PROVE  LedgerMatchesReservations'
    OBVIOUS
  <2> DEFINE Same(row, new) == \/ new = row
                               \/ row.status # "settled" /\ new.status # "settled"
             Unsettled ==
               /\ UNCHANGED ledger
               /\ \A u \in Usages : Same(usage[u], usage'[u])
               /\ \A q \in Quotes : Same(index[q], index'[q])
  <2>1. Unsettled => LedgerMatchesReservations'
    BY UnsettledKeepsCharges
  <2> USE DEF TypeOK, InsertUnderLock
  <2>2. ASSUME Sweep, UNCHANGED <<ledger, index>> PROVE Unsettled
    <3>1. \A u \in Usages : usage[u].status = "reserved" \/ usage'[u] = usage[u]
      BY <2>2 DEF Sweep, Held
    <3>2. \A u \in Usages : usage'[u].status = "released" \/ usage'[u] = usage[u]
      BY <2>2 DEF Sweep, Held
    <3>3. QED
      BY <2>2, <3>1, <3>2
  <2>3. ASSUME NEW c \in Callers, NEW u \in Usages, BeginReserveUsage(c, u) PROVE Unsettled
    <3>1. Sweep /\ UNCHANGED <<ledger, index>>
      BY <2>3 DEF BeginReserveUsage
    <3>2. QED
      BY <2>2, <3>1
  <2>4. ASSUME SweepForState PROVE Unsettled
    <3>1. Sweep /\ UNCHANGED <<ledger, index>>
      BY <2>4 DEF SweepForState
    <3>2. QED
      BY <2>2, <3>1
  <2>5. ASSUME NEW u \in Usages, NEW row, row.status # "settled", usage[u].status # "settled",
               usage' = [usage EXCEPT ![u] = row], UNCHANGED <<ledger, index>>
        PROVE  Unsettled
    BY <2>5
  <2>6. ASSUME NEW q \in Quotes, NEW row, row.status # "settled", index[q].status # "settled",
               index' = [index EXCEPT ![q] = row], UNCHANGED <<ledger, usage>>
        PROVE  Unsettled
    BY <2>6
  <2>7. ASSUME NEW c \in Callers, ReserveUsageOnPass(c) PROVE Unsettled
    <3> DEFINE row == [status |-> "reserved", points |-> 0]
    <3>1. /\ tx[c].id \in Usages /\ usage[tx[c].id].status = "none"
          /\ usage' = [usage EXCEPT ![tx[c].id] = row] /\ UNCHANGED <<ledger, index>>
      BY <2>7 DEF ReserveUsageOnPass
    <3>2. QED
      BY <2>5, <3>1
  <2>8. ASSUME NEW c \in Callers, DecideUsage(c) PROVE Unsettled
    <3> DEFINE row == [status |-> "reserved", points |-> UsagePoints[tx[c].id]]
    <3>1. /\ tx[c].id \in Usages /\ usage[tx[c].id].status = "none"
          /\ \/ usage' = [usage EXCEPT ![tx[c].id] = row]
             \/ UNCHANGED usage
          /\ UNCHANGED <<ledger, index>>
      BY <2>8 DEF DecideUsage
    <3>2. CASE UNCHANGED usage
      BY <3>1, <3>2
    <3>3. QED
      BY <2>5, <3>1, <3>2
  <2>9. ASSUME NEW c \in Callers, NEW p \in Passes, ReserveIndexOnPass(c, p) PROVE Unsettled
    <3> DEFINE row == [status |-> "reserved", points |-> 0, pass |-> p]
    <3>1. /\ tx[c].id \in Quotes /\ index[tx[c].id].status = "none"
          /\ index' = [index EXCEPT ![tx[c].id] = row] /\ UNCHANGED <<ledger, usage>>
      BY <2>9 DEF ReserveIndexOnPass
    <3>2. QED
      BY <2>6, <3>1
  <2>10. ASSUME NEW c \in Callers, DecideIndex(c) PROVE Unsettled
    <3> DEFINE row == [status |-> "reserved", points |-> QuotePoints[tx[c].id], pass |-> None]
    <3>1. /\ tx[c].id \in Quotes /\ index[tx[c].id].status = "none"
          /\ \/ index' = [index EXCEPT ![tx[c].id] = row]
             \/ UNCHANGED index
          /\ UNCHANGED <<ledger, usage>>
      BY <2>10 DEF DecideIndex
    <3>2. CASE UNCHANGED index
      BY <3>1, <3>2
    <3>3. QED
      BY <2>6, <3>1, <3>2
  <2>11. ASSUME NEW u \in Usages, ReleaseUsage(u) PROVE Unsettled
    <3>1. /\ usage[u].status = "reserved" /\ usage'[u].status = "released"
          /\ \A v \in Usages \ {u} : usage'[v] = usage[v]
          /\ UNCHANGED <<ledger, index>>
      BY <2>11 DEF ReleaseUsage
    <3>2. QED
      BY <3>1
  <2>12. ASSUME NEW q \in Quotes, ReleaseIndex(q) PROVE Unsettled
    <3>1. /\ index[q].status = "reserved" /\ index'[q].status = "released"
          /\ \A r \in Quotes \ {q} : index'[r] = index[r]
          /\ UNCHANGED <<ledger, usage>>
      BY <2>12 DEF ReleaseIndex
    <3>2. QED
      BY <3>1
  <2>13. ASSUME UNCHANGED <<ledger, usage, index>> PROVE Unsettled
    BY <2>13
  <2>14. ASSUME NEW u \in Usages, SettleUsage(u) PROVE LedgerMatchesReservations'
    <3>1. /\ ledger' = Post(UsageRef(u), -usage[u].points) /\ UNCHANGED index
          /\ usage'[u].status = "settled" /\ usage'[u].points = usage[u].points
          /\ \A v \in Usages \ {u} : usage'[v] = usage[v]
      BY <2>14 DEF SettleUsage
    <3>2. ~Posted(UsageRef(u))
      BY <2>14 DEF SettleUsage, LedgerMatchesReservations, UsageChargedIffSettled
    <3>3. OneEntryPerReference'
      BY <3>1, PostAdds DEF LedgerMatchesReservations
    <3>4. UsageChargedIffSettled'
      <4>1. \A v \in Usages : v # u => UsageRef(v) # UsageRef(u)
        BY DEF UsageRef
      <4>2. \A e \in ledger : e.ref # UsageRef(u)
        BY <3>2 DEF Posted
      <4>3. Posted(UsageRef(u))' /\ \A e \in ledger' :
              e.ref = UsageRef(u) => e.points = -usage'[u].points
        BY <3>1, <4>2, PostAdds
      <4>4. ASSUME NEW v \in Usages, v # u
            PROVE  /\ Posted(UsageRef(v))' <=> usage'[v].status = "settled"
                   /\ \A e \in ledger' : e.ref = UsageRef(v) => e.points = -usage'[v].points
        BY <3>1, <4>1, <4>4, PostAdds DEF LedgerMatchesReservations, UsageChargedIffSettled
      <4>5. QED
        <5>1. ASSUME NEW v \in Usages
              PROVE  /\ Posted(UsageRef(v))' <=> usage'[v].status = "settled"
                     /\ \A e \in ledger' : e.ref = UsageRef(v) => e.points = -usage'[v].points
          <6>1. CASE v = u
            BY <3>1, <4>3, <6>1
          <6>2. CASE v # u
            BY <4>4, <6>2
          <6>3. QED
            BY <6>1, <6>2
        <5>2. QED
          BY <5>1 DEF UsageChargedIffSettled
    <3>5. SettledIndexIsCharged'
      BY <3>1, PostAdds DEF LedgerMatchesReservations, SettledIndexIsCharged, UsageRef, IndexRef
    <3>6. IndexChargeHasSettledQuote'
      <4>1. ASSUME NEW e \in ledger', e.ref[1] = "knowledge-index"
            PROVE  e \in ledger
        <5>1. e.ref # UsageRef(u)
          BY <4>1 DEF UsageRef
        <5>2. e # [ref |-> UsageRef(u), points |-> -usage[u].points]
          BY <5>1
        <5>3. QED
          BY <3>1, <5>2, PostAdds
      <4>2. QED
        BY <3>1, <4>1 DEF LedgerMatchesReservations, IndexChargeHasSettledQuote, IndexRef
    <3>7. QED
      BY <3>3, <3>4, <3>5, <3>6 DEF LedgerMatchesReservations
  <2>15. ASSUME NEW q \in Quotes, SettleIndex(q) PROVE LedgerMatchesReservations'
    <3>1. /\ UNCHANGED usage
          /\ index'[q].status = "settled" /\ index'[q].points = index[q].points
          /\ \A r \in Quotes \ {q} : index'[r] = index[r]
          /\ index[q].status = "reserved"
      BY <2>15 DEF SettleIndex
    <3>2. \A r \in Quotes : index[r].status = "settled" => index'[r] = index[r]
      BY <3>1
    <3>3. CASE index[q].pass = None
      <4> DEFINE entry == [ref |-> IndexRef(q), points |-> -index[q].points]
      <4>1. ledger' = Post(IndexRef(q), -index[q].points)
        BY <2>15, <3>3 DEF SettleIndex
      <4>2. OneEntryPerReference'
        BY <4>1, PostAdds DEF LedgerMatchesReservations
      <4>3. UsageChargedIffSettled'
        <5>1. \A v \in Usages : UsageRef(v) # IndexRef(q)
          BY DEF UsageRef, IndexRef
        <5>2. ASSUME NEW v \in Usages
              PROVE  /\ Posted(UsageRef(v))' <=> usage'[v].status = "settled"
                     /\ \A e \in ledger' : e.ref = UsageRef(v) => e.points = -usage'[v].points
          BY <3>1, <4>1, <5>1, PostAdds DEF LedgerMatchesReservations, UsageChargedIffSettled
        <5>3. QED
          BY <5>2 DEF UsageChargedIffSettled, UsageRef, Posted
      <4>4. SettledIndexIsCharged'
        <5>1. ASSUME NEW r \in Quotes, index'[r].status = "settled", index'[r].points > 0
              PROVE  Posted(IndexRef(r))'
          <6>1. CASE r = q
            BY <4>1, <6>1, PostAdds
          <6>2. CASE r # q
            BY <3>1, <4>1, <5>1, <6>2, PostAdds
               DEF LedgerMatchesReservations, SettledIndexIsCharged
          <6>3. QED
            BY <6>1, <6>2
        <5>2. QED
          BY <5>1 DEF SettledIndexIsCharged, IndexRef, Posted
      <4>5. IndexChargeHasSettledQuote'
        <5>1. ASSUME NEW e \in ledger', e.ref[1] = "knowledge-index"
              PROVE  \E r \in Quotes : /\ e.ref = IndexRef(r) /\ e.points = -index'[r].points
                                       /\ index'[r].status = "settled"
          <6>1. CASE e \in ledger
            BY <3>2, <5>1, <6>1 DEF LedgerMatchesReservations, IndexChargeHasSettledQuote
          <6>2. CASE e = entry
            BY <3>1, <6>2
          <6>3. QED
            BY <4>1, <6>1, <6>2, PostAdds
        <5>2. QED
          BY <5>1 DEF IndexChargeHasSettledQuote, IndexRef
      <4>6. QED
        BY <4>2, <4>3, <4>4, <4>5 DEF LedgerMatchesReservations
    <3>4. CASE index[q].pass # None
      <4>1. UNCHANGED <<ledger, usage>> /\ index'[q].points = 0
        BY <2>15, <3>1, <3>4 DEF SettleIndex, FreeOnPass
      <4>2. OneEntryPerReference' /\ UsageChargedIffSettled'
        BY <4>1 DEF LedgerMatchesReservations, OneEntryPerReference, UsageChargedIffSettled,
                    Posted, UsageRef
      <4>3. SettledIndexIsCharged'
        <5>1. ASSUME NEW r \in Quotes, index'[r].status = "settled", index'[r].points > 0
              PROVE  Posted(IndexRef(r))'
          <6>1. r # q
            BY <4>1, <5>1
          <6>2. index'[r] = index[r]
            BY <3>1, <6>1
          <6>3. Posted(IndexRef(r))
            BY <5>1, <6>2 DEF LedgerMatchesReservations, SettledIndexIsCharged
          <6>4. QED
            BY <4>1, <6>3 DEF Posted, IndexRef
        <5>2. QED
          BY <5>1 DEF SettledIndexIsCharged, IndexRef, Posted
      <4>4. IndexChargeHasSettledQuote'
        BY <3>2, <4>1 DEF LedgerMatchesReservations, IndexChargeHasSettledQuote, IndexRef
      <4>5. QED
        BY <4>2, <4>3, <4>4 DEF LedgerMatchesReservations
    <3>5. QED
      BY <3>3, <3>4
  <2>16. ASSUME NEW ref, NEW points, ledger' = Post(ref, points),
                ref[1] \notin {"usage", "knowledge-index"}, UNCHANGED <<usage, index>>
         PROVE  LedgerMatchesReservations'
    BY <2>16, PostOtherKeepsCharges
  <2>17. ASSUME NEW c \in Callers, EnsureWelcomeGrant(c) PROVE LedgerMatchesReservations'
    BY <2>17, <2>16 DEF EnsureWelcomeGrant, WelcomeRef
  <2>18. CASE WelcomeForState
    BY <2>18, <2>16 DEF WelcomeForState, WelcomeRef
  <2>19. ASSUME NEW r \in Credits, Credit(r) PROVE LedgerMatchesReservations'
    BY <2>19, <2>16 DEF Credit, CreditRef
  <2>20. ASSUME NEW r \in Debits, CommitAdjustment(r) PROVE LedgerMatchesReservations'
    BY <2>20, <2>16 DEF CommitAdjustment, DebitRef
  <2>21. ASSUME NEW c \in Callers,
                \/ \E q \in Quotes : BeginReserveIndex(c, q)
                \/ ReturnExisting(c) \/ ReadBalance(c) \/ AbortReserve(c)
         PROVE  UNCHANGED <<ledger, usage, index>>
    BY <2>21 DEF BeginReserveIndex, ReturnExisting, ReadBalance, AbortReserve
  <2>22. ASSUME \/ \E r \in Debits : CheckAdjustment(r)
                \/ \E u \in Usages : AgeUsage(u)
                \/ \E p \in Passes : PassStarts(p) \/ PassEnds(p)
         PROVE  UNCHANGED <<ledger, usage, index>>
    BY <2>22 DEF CheckAdjustment, AgeUsage, PassStarts, PassEnds
  <2> HIDE DEF Unsettled
  <2>23. QED
    BY <2>1, <2>3, <2>4, <2>7, <2>8, <2>9, <2>10, <2>11, <2>12, <2>13, <2>14, <2>15,
       <2>17, <2>18, <2>19, <2>20, <2>21, <2>22
       DEF Next, Call, Advance, Outcome, Environment, vars
<1>3. QED
  BY <1>1, <1>2, TypeCorrect, InsertsAreSerialized, PassWorkIsFree, PTL DEF Spec
-----------------------------------------------------------------------------
\* What one step can do to one reservation.
SameRow(old, new)    == new = old
Reserves(old, new)   == old.status = "none" /\ new.status = "reserved"
Settles(old, new)    == old.status = "reserved" /\ new = [old EXCEPT !.status = "settled"]
Releases(old, new)   == old.status = "reserved" /\ new = [old EXCEPT !.status = "released"]

UsageStep ==
  \/ UNCHANGED usage
  \/ \E u \in Usages :
       /\ \A v \in Usages \ {u} : usage'[v] = usage[v]
       /\ Reserves(usage[u], usage'[u]) \/ Settles(usage[u], usage'[u])
  \/ \A v \in Usages : SameRow(usage[v], usage'[v]) \/ Releases(usage[v], usage'[v])

IndexStep ==
  \/ UNCHANGED index
  \/ \E q \in Quotes :
       /\ \A r \in Quotes \ {q} : index'[r] = index[r]
       /\ \/ Reserves(index[q], index'[q]) \/ Settles(index[q], index'[q])
          \/ Releases(index[q], index'[q])

(* One step moves one billable use at most, in these ways.                 *)
LEMMA UsageMoves == TypeOK /\ InsertUnderLock /\ [Next]_vars => UsageStep
<1> SUFFICES ASSUME TypeOK, InsertUnderLock, [Next]_vars PROVE UsageStep
  OBVIOUS
<1> USE DEF TypeOK, InsertUnderLock
<1>1. ASSUME Sweep PROVE UsageStep
  <2>1. ASSUME NEW v \in Usages
        PROVE  SameRow(usage[v], usage'[v]) \/ Releases(usage[v], usage'[v])
    BY <1>1 DEF Sweep, Held, SameRow, Releases
  <2>2. QED
    BY <2>1 DEF UsageStep
<1>2. ASSUME NEW c \in Callers, NEW u \in Usages, BeginReserveUsage(c, u) PROVE UsageStep
  BY <1>1, <1>2 DEF BeginReserveUsage
<1>3. CASE SweepForState
  BY <1>1, <1>3 DEF SweepForState
<1>4. ASSUME NEW c \in Callers, ReserveUsageOnPass(c) PROVE UsageStep
  <2>1. /\ tx[c].id \in Usages /\ usage[tx[c].id].status = "none"
        /\ usage'[tx[c].id].status = "reserved"
        /\ \A v \in Usages \ {tx[c].id} : usage'[v] = usage[v]
    BY <1>4 DEF ReserveUsageOnPass
  <2>2. QED
    BY <2>1 DEF UsageStep, Reserves
<1>5. ASSUME NEW c \in Callers, DecideUsage(c) PROVE UsageStep
  <2>1. CASE UNCHANGED usage
    BY <2>1 DEF UsageStep
  <2>2. CASE usage' = [usage EXCEPT ![tx[c].id] =
                         [status |-> "reserved", points |-> UsagePoints[tx[c].id]]]
    <3>1. /\ tx[c].id \in Usages /\ usage[tx[c].id].status = "none"
      BY <1>5 DEF DecideUsage
    <3>2. /\ usage'[tx[c].id].status = "reserved"
          /\ \A v \in Usages \ {tx[c].id} : usage'[v] = usage[v]
      BY <2>2, <3>1
    <3>3. QED
      BY <3>1, <3>2 DEF UsageStep, Reserves
  <2>3. QED
    BY <1>5, <2>1, <2>2 DEF DecideUsage
<1>6. ASSUME NEW u \in Usages, SettleUsage(u) PROVE UsageStep
  <2>1. /\ Settles(usage[u], usage'[u])
        /\ \A v \in Usages \ {u} : usage'[v] = usage[v]
    BY <1>6 DEF SettleUsage, Settles
  <2>2. QED
    BY <2>1 DEF UsageStep
<1>7. ASSUME NEW u \in Usages, ReleaseUsage(u) PROVE UsageStep
  <2>1. ASSUME NEW v \in Usages
        PROVE  SameRow(usage[v], usage'[v]) \/ Releases(usage[v], usage'[v])
    BY <1>7 DEF ReleaseUsage, SameRow, Releases
  <2>2. QED
    BY <2>1 DEF UsageStep
<1>8. ASSUME NEW c \in Callers,
             \/ \E q \in Quotes : BeginReserveIndex(c, q)
             \/ \E p \in Passes : ReserveIndexOnPass(c, p)
             \/ EnsureWelcomeGrant(c) \/ ReturnExisting(c)
             \/ ReadBalance(c) \/ DecideIndex(c) \/ AbortReserve(c)
      PROVE  UNCHANGED usage
  BY <1>8 DEF BeginReserveIndex, ReserveIndexOnPass, EnsureWelcomeGrant, ReturnExisting,
              ReadBalance, DecideIndex, AbortReserve
<1>9. ASSUME \/ \E q \in Quotes : SettleIndex(q) \/ ReleaseIndex(q)
             \/ WelcomeForState \/ Environment
      PROVE  UNCHANGED usage
  BY <1>9 DEF SettleIndex, ReleaseIndex, WelcomeForState, Environment, Credit,
              CheckAdjustment, CommitAdjustment, AgeUsage, PassStarts, PassEnds
<1>10. QED
  BY <1>2, <1>3, <1>4, <1>5, <1>6, <1>7, <1>8, <1>9
     DEF UsageStep, Next, Call, Advance, Outcome, vars

(* One step moves one quote at most, in these ways.                        *)
LEMMA IndexMoves == TypeOK /\ InsertUnderLock /\ [Next]_vars => IndexStep
<1> SUFFICES ASSUME TypeOK, InsertUnderLock, [Next]_vars PROVE IndexStep
  OBVIOUS
<1> USE DEF TypeOK, InsertUnderLock
<1>1. ASSUME NEW c \in Callers, NEW p \in Passes, ReserveIndexOnPass(c, p) PROVE IndexStep
  <2>1. /\ tx[c].id \in Quotes /\ index[tx[c].id].status = "none"
        /\ index'[tx[c].id].status = "reserved"
        /\ \A r \in Quotes \ {tx[c].id} : index'[r] = index[r]
    BY <1>1 DEF ReserveIndexOnPass
  <2>2. QED
    BY <2>1 DEF IndexStep, Reserves
<1>2. ASSUME NEW c \in Callers, DecideIndex(c) PROVE IndexStep
  <2>1. CASE UNCHANGED index
    BY <2>1 DEF IndexStep
  <2>2. CASE index' = [index EXCEPT ![tx[c].id] =
                 [status |-> "reserved", points |-> QuotePoints[tx[c].id], pass |-> None]]
    <3>1. /\ tx[c].id \in Quotes /\ index[tx[c].id].status = "none"
      BY <1>2 DEF DecideIndex
    <3>2. /\ index'[tx[c].id].status = "reserved"
          /\ \A r \in Quotes \ {tx[c].id} : index'[r] = index[r]
      BY <2>2, <3>1
    <3>3. QED
      BY <3>1, <3>2 DEF IndexStep, Reserves
  <2>3. QED
    BY <1>2, <2>1, <2>2 DEF DecideIndex
<1>3. ASSUME NEW q \in Quotes, SettleIndex(q) PROVE IndexStep
  <2>1. /\ Settles(index[q], index'[q])
        /\ \A r \in Quotes \ {q} : index'[r] = index[r]
    BY <1>3 DEF SettleIndex, Settles
  <2>2. QED
    BY <2>1 DEF IndexStep
<1>4. ASSUME NEW q \in Quotes, ReleaseIndex(q) PROVE IndexStep
  <2>1. /\ Releases(index[q], index'[q])
        /\ \A r \in Quotes \ {q} : index'[r] = index[r]
    BY <1>4 DEF ReleaseIndex, Releases
  <2>2. QED
    BY <2>1 DEF IndexStep
<1>5. ASSUME NEW c \in Callers,
             \/ \E u \in Usages : BeginReserveUsage(c, u)
             \/ \E q \in Quotes : BeginReserveIndex(c, q)
             \/ EnsureWelcomeGrant(c) \/ ReturnExisting(c) \/ ReserveUsageOnPass(c)
             \/ ReadBalance(c) \/ DecideUsage(c) \/ AbortReserve(c)
      PROVE  UNCHANGED index
  BY <1>5 DEF BeginReserveUsage, BeginReserveIndex, EnsureWelcomeGrant, ReturnExisting,
              ReserveUsageOnPass, ReadBalance, DecideUsage, AbortReserve
<1>6. ASSUME \/ \E u \in Usages : SettleUsage(u) \/ ReleaseUsage(u)
             \/ SweepForState \/ WelcomeForState \/ Environment
      PROVE  UNCHANGED index
  BY <1>6 DEF SettleUsage, ReleaseUsage, SweepForState, WelcomeForState, Environment,
              Credit, CheckAdjustment, CommitAdjustment, AgeUsage, PassStarts, PassEnds
<1>7. QED
  BY <1>1, <1>2, <1>3, <1>4, <1>5, <1>6 DEF IndexStep, Next, Call, Advance, Outcome, vars

(* A settled or released row is never written again, and a reserved row is *)
(* never dropped or repriced: settle and release lock the row and return   *)
(* it as it is unless it is reserved, and a reserve call returns an        *)
(* existing row as it is.                                                  *)
THEOREM OutcomesStay == Spec => OutcomesAreFinal
<1> DEFINE Final ==
      /\ \A u \in Usages :
           /\ usage[u].status \in {"settled", "released"} => usage'[u] = usage[u]
           /\ usage[u].status = "reserved" =>
                usage'[u].status # "none" /\ usage'[u].points = usage[u].points
      /\ \A q \in Quotes :
           /\ index[q].status \in {"settled", "released"} => index'[q] = index[q]
           /\ index[q].status = "reserved" =>
                /\ index'[q].status # "none"
                /\ index'[q].points = index[q].points
                /\ index'[q].pass = index[q].pass
<1>1. TypeOK /\ InsertUnderLock /\ [Next]_vars => [Final]_vars
  <2> SUFFICES ASSUME TypeOK, InsertUnderLock, [Next]_vars PROVE Final
    OBVIOUS
  <2>1. ASSUME NEW u \in Usages
        PROVE  /\ usage[u].status \in {"settled", "released"} => usage'[u] = usage[u]
               /\ usage[u].status = "reserved" =>
                    usage'[u].status # "none" /\ usage'[u].points = usage[u].points
    <3>1. \/ SameRow(usage[u], usage'[u]) \/ Reserves(usage[u], usage'[u])
          \/ Settles(usage[u], usage'[u]) \/ Releases(usage[u], usage'[u])
      BY UsageMoves DEF UsageStep, SameRow
    <3>2. QED
      BY <3>1 DEF TypeOK, SameRow, Reserves, Settles, Releases
  <2>2. ASSUME NEW q \in Quotes
        PROVE  /\ index[q].status \in {"settled", "released"} => index'[q] = index[q]
               /\ index[q].status = "reserved" =>
                    /\ index'[q].status # "none"
                    /\ index'[q].points = index[q].points
                    /\ index'[q].pass = index[q].pass
    <3>1. \/ SameRow(index[q], index'[q]) \/ Reserves(index[q], index'[q])
          \/ Settles(index[q], index'[q]) \/ Releases(index[q], index'[q])
      BY IndexMoves DEF IndexStep, SameRow
    <3>2. QED
      BY <3>1 DEF TypeOK, SameRow, Reserves, Settles, Releases
  <2>3. QED
    BY <2>1, <2>2
<1>2. QED
  BY <1>1, TypeCorrect, InsertsAreSerialized, PTL DEF Spec, OutcomesAreFinal

(* The charge of a use can be read off its status.                         *)
LEMMA ChargeFollowsStatus ==
  ASSUME TypeOK, LedgerMatchesReservations, NEW u \in Usages
  PROVE  ChargeOf(u) = CASE usage[u].status = "none" -> "open"
                         [] usage[u].status = "reserved" -> "held"
                         [] usage[u].status = "settled" -> "charged"
                         [] usage[u].status = "released" -> "waived"
BY DEF TypeOK, Statuses, LedgerMatchesReservations, UsageChargedIffSettled, ChargeOf

(* The wallet implements UsageCharge: with the invariant that a charge is  *)
(* posted exactly when its reservation is settled, what the ledger and the *)
(* reservations show together moves only as the abstract use does.         *)
THEOREM WalletChargesOnce == Spec => ChargesOnce
<1> DEFINE charge == [u \in Usages |-> ChargeOf(u)]
<1>1. Init => UC!Init
  BY DEF Init, UC!Init, ChargeOf, Posted, NoUsage
<1>2. TypeOK /\ TypeOK' /\ InsertUnderLock /\ LedgerMatchesReservations
        /\ LedgerMatchesReservations' /\ [Next]_vars => [UC!Next]_charge
  <2> SUFFICES ASSUME TypeOK, TypeOK', InsertUnderLock, LedgerMatchesReservations,
                      LedgerMatchesReservations', [Next]_vars
               PROVE  [UC!Next]_charge
    OBVIOUS
  <2>1. \A v \in Usages :
          /\ usage[v].status = "none" => charge[v] = "open"
          /\ usage[v].status = "reserved" => charge[v] = "held"
          /\ usage[v].status = "settled" => charge[v] = "charged"
          /\ usage[v].status = "released" => charge[v] = "waived"
    BY ChargeFollowsStatus
  <2>2. \A v \in Usages :
          /\ usage'[v].status = "none" => charge'[v] = "open"
          /\ usage'[v].status = "reserved" => charge'[v] = "held"
          /\ usage'[v].status = "settled" => charge'[v] = "charged"
          /\ usage'[v].status = "released" => charge'[v] = "waived"
    BY DEF TypeOK, Statuses, LedgerMatchesReservations, UsageChargedIffSettled, ChargeOf
  <2>3. /\ DOMAIN charge = Usages /\ DOMAIN charge' = Usages
        /\ charge = [v \in Usages |-> charge[v]] /\ charge' = [v \in Usages |-> charge'[v]]
    OBVIOUS
  <2>4. \A v \in Usages : usage'[v].status = usage[v].status => charge'[v] = charge[v]
    BY <2>1, <2>2, SMTT(30) DEF TypeOK, Statuses
  <2> HIDE DEF charge
  <2>5. CASE UNCHANGED usage
    BY <2>3, <2>4, <2>5
  <2>6. ASSUME NEW u \in Usages, \A v \in Usages \ {u} : usage'[v] = usage[v],
               Reserves(usage[u], usage'[u]) \/ Settles(usage[u], usage'[u])
        PROVE  UC!Next
    <3>1. CASE Reserves(usage[u], usage'[u])
      <4>1. charge[u] = "open" /\ charge' = [charge EXCEPT ![u] = "held"]
        BY <2>1, <2>2, <2>3, <2>4, <2>6, <3>1 DEF Reserves
      <4>2. UC!Hold(u)
        BY <4>1 DEF UC!Hold, UC!Move, charge
      <4>3. QED
        BY <4>2 DEF UC!Next
    <3>2. CASE Settles(usage[u], usage'[u])
      <4>1. charge[u] = "held" /\ charge' = [charge EXCEPT ![u] = "charged"]
        BY <2>1, <2>2, <2>3, <2>4, <2>6, <3>2 DEF Settles, TypeOK
      <4>2. UC!Charge(u)
        BY <4>1 DEF UC!Charge, UC!Move, charge
      <4>3. QED
        BY <4>2 DEF UC!Next
    <3>3. QED
      BY <2>6, <3>1, <3>2
  <2>7. ASSUME \A v \in Usages : \/ SameRow(usage[v], usage'[v])
                                 \/ Releases(usage[v], usage'[v])
        PROVE  [UC!Next]_charge
    <3> DEFINE S == {v \in Usages : Releases(usage[v], usage'[v])}
    <3>1. \A v \in S : charge[v] = "held" /\ charge'[v] = "waived"
      BY <2>1, <2>2 DEF Releases, TypeOK
    <3>2. \A v \in Usages \ S : charge'[v] = charge[v]
      BY <2>4, <2>7 DEF SameRow
    <3>3. charge' = [v \in Usages |-> IF v \in S THEN "waived" ELSE charge[v]]
      BY <2>3, <3>1, <3>2
    <3>4. CASE S = {}
      BY <2>3, <3>2, <3>4
    <3>5. CASE S # {}
      <4>1. UC!Waive(S)
        BY <3>1, <3>3, <3>5 DEF UC!Waive, charge
      <4>2. S \in SUBSET Usages
        OBVIOUS
      <4>3. QED
        BY <4>1, <4>2 DEF UC!Next
    <3>6. QED
      BY <3>4, <3>5
  <2>8. QED
    BY <2>5, <2>6, <2>7, UsageMoves DEF UsageStep
<1>3. QED
  BY <1>1, <1>2, TypeCorrect, InsertsAreSerialized, ChargesMatch, PTL
     DEF Spec, ChargesOnce, UC!Spec
-----------------------------------------------------------------------------
\* The part of AllowanceConserved one pass's counters satisfy.
PassConserved(p) ==
  /\ allowance[p].locked = Cardinality(OnPass(p, "reserved"))
  /\ allowance[p].used = Cardinality(OnPass(p, "settled"))
  /\ allowance[p].locked + allowance[p].used <= Allowance[p]

(* The quotes on a pass are finitely many.                                 *)
LEMMA OnPassIsFinite ==
  ASSUME NEW p, NEW status
  PROVE  IsFiniteSet(OnPass(p, status))
<1>1. OnPass(p, status) \in SUBSET Quotes
  BY DEF OnPass
<1>2. QED
  BY <1>1, ConstantsAssumption, FS_Subset

\* One row changes: the passes it does not name keep their counts.
LEMMA OtherPassesKeep ==
  ASSUME NEW q \in Quotes, NEW p, TypeOK, TypeOK',
         \A r \in Quotes \ {q} : index'[r] = index[r],
         index[q].pass # p, index'[q].pass # p,
         PassConserved(p), allowance'[p] = allowance[p]
  PROVE  PassConserved(p)'
<1>1. OnPass(p, "reserved")' = OnPass(p, "reserved")
  BY DEF OnPass
<1>2. OnPass(p, "settled")' = OnPass(p, "settled")
  BY DEF OnPass
<1>3. QED
  BY <1>1, <1>2 DEF PassConserved

(* Locked allowance is what is reserved on the pass, used allowance what   *)
(* was settled on it, and together they stay within the grant: the         *)
(* entitlement row is locked FOR UPDATE while it is compared and written,  *)
(* and settle and release give a unit back only with the row they turn     *)
(* from reserved.                                                          *)
THEOREM AllowanceAccounted == Spec => []AllowanceConserved
<1> DEFINE All == \A p \in Passes : PassConserved(p)
<1>1. Init => All
  <2> SUFFICES ASSUME Init, NEW p \in Passes PROVE PassConserved(p)
    OBVIOUS
  <2>1. OnPass(p, "reserved") = {} /\ OnPass(p, "settled") = {}
    BY DEF Init, OnPass, NoIndex
  <2>2. QED
    <3>1. Cardinality({}) = 0 /\ Allowance[p] \in Nat
      BY FS_EmptySet, ConstantsAssumption
    <3>2. allowance[p].used = 0 /\ allowance[p].locked = 0
      BY DEF Init
    <3>3. QED
      BY <2>1, <3>1, <3>2 DEF PassConserved
<1>2. TypeOK /\ TypeOK' /\ InsertUnderLock /\ All /\ [Next]_vars => All'
  <2> SUFFICES ASSUME TypeOK, TypeOK', InsertUnderLock, All, [Next]_vars PROVE All'
    OBVIOUS
  <2>1. ASSUME UNCHANGED <<index, allowance>> PROVE All'
    BY <2>1 DEF PassConserved, OnPass
  <2>2. ASSUME NEW c \in Callers, NEW p \in Passes, ReserveIndexOnPass(c, p) PROVE All'
    <3> DEFINE q == tx[c].id
    <3>1. /\ q \in Quotes /\ index[q].status = "none"
          /\ index' = [index EXCEPT ![q] = [status |-> "reserved", points |-> 0, pass |-> p]]
      BY <2>2 DEF ReserveIndexOnPass, InsertUnderLock
    <3>2. /\ allowance'[p].locked = allowance[p].locked + 1
          /\ allowance'[p].used = allowance[p].used
          /\ \A o \in Passes \ {p} : allowance'[o] = allowance[o]
      BY <2>2 DEF ReserveIndexOnPass, TypeOK
    <3>3. PassConserved(p)'
      <4>1. /\ OnPass(p, "reserved")' = OnPass(p, "reserved") \cup {q}
            /\ q \notin OnPass(p, "reserved")
            /\ OnPass(p, "settled")' = OnPass(p, "settled")
        BY <3>1 DEF TypeOK, OnPass
      <4>2. Cardinality(OnPass(p, "reserved"))' = Cardinality(OnPass(p, "reserved")) + 1
        BY <4>1, OnPassIsFinite, FS_AddElement
      <4>3. Allowance[p] - allowance[p].used - allowance[p].locked > 0
        BY <2>2 DEF ReserveIndexOnPass, HasAllowance
      <4>4. Allowance[p] \in Nat /\ allowance[p].used \in Nat /\ allowance[p].locked \in Nat
        BY ConstantsAssumption DEF TypeOK
      <4>5. QED
        BY <3>2, <4>1, <4>2, <4>3, <4>4 DEF PassConserved
    <3>4. ASSUME NEW o \in Passes, o # p PROVE PassConserved(o)'
      <4>1. CASE index[q].pass # o
        BY <3>1, <3>2, <3>4, <4>1, OtherPassesKeep DEF TypeOK
      <4>2. CASE index[q].pass = o
        <5>1. /\ OnPass(o, "reserved")' = OnPass(o, "reserved")
              /\ OnPass(o, "settled")' = OnPass(o, "settled")
          BY <3>1, <3>4 DEF TypeOK, OnPass
        <5>2. QED
          BY <3>2, <3>4, <5>1 DEF PassConserved
      <4>3. QED
        BY <4>1, <4>2
    <3>5. QED
      BY <3>3, <3>4
  <2>3. ASSUME NEW c \in Callers, DecideIndex(c) PROVE All'
    <3> DEFINE q == tx[c].id
    <3>1. CASE UNCHANGED index
      BY <2>1, <2>3, <3>1 DEF DecideIndex
    <3>2. CASE index' = [index EXCEPT ![q] =
                 [status |-> "reserved", points |-> QuotePoints[q], pass |-> None]]
      <4>1. q \in Quotes /\ index[q].status = "none" /\ UNCHANGED allowance
        BY <2>3 DEF DecideIndex, InsertUnderLock
      <4>2. ASSUME NEW o \in Passes
            PROVE  /\ OnPass(o, "reserved")' = OnPass(o, "reserved")
                   /\ OnPass(o, "settled")' = OnPass(o, "settled")
        BY <3>2, <4>1, ConstantsAssumption DEF TypeOK, OnPass
      <4>3. QED
        BY <4>1, <4>2 DEF PassConserved
    <3>3. QED
      BY <2>3, <3>1, <3>2 DEF DecideIndex
  <2>4. ASSUME NEW q \in Quotes, SettleIndex(q) PROVE All'
    <3>1. /\ index[q].status = "reserved" /\ index'[q].status = "settled"
          /\ index'[q].pass = index[q].pass
          /\ \A r \in Quotes \ {q} : index'[r] = index[r]
      BY <2>4 DEF SettleIndex, TypeOK
    <3>2. ASSUME NEW p \in Passes, p # index[q].pass PROVE PassConserved(p)'
      <4>1. allowance'[p] = allowance[p]
        BY <2>4, <3>2 DEF SettleIndex, TypeOK
      <4>2. QED
        BY <3>1, <3>2, <4>1, OtherPassesKeep
    <3>3. ASSUME NEW p \in Passes, p = index[q].pass PROVE PassConserved(p)'
      <4>1. /\ OnPass(p, "reserved")' = OnPass(p, "reserved") \ {q}
            /\ q \in OnPass(p, "reserved")
        BY <3>1, <3>3 DEF OnPass
      <4>2. /\ OnPass(p, "settled")' = OnPass(p, "settled") \cup {q}
            /\ q \notin OnPass(p, "settled")
        BY <3>1, <3>3 DEF OnPass
      <4>3. Cardinality(OnPass(p, "reserved"))' = Cardinality(OnPass(p, "reserved")) - 1
        BY <4>1, OnPassIsFinite, FS_RemoveElement
      <4>4. Cardinality(OnPass(p, "settled"))' = Cardinality(OnPass(p, "settled")) + 1
        BY <4>2, OnPassIsFinite, FS_AddElement
      <4>5. Cardinality(OnPass(p, "reserved")) > 0
        BY <4>1, OnPassIsFinite, FS_EmptySet, FS_CardinalityType
      <4>6. allowance'[p] = [used |-> allowance[p].used + 1,
                             locked |-> Unlock(allowance[p].locked)]
        BY <2>4, <3>3, ConstantsAssumption DEF SettleIndex, TypeOK
      <4>7. Allowance[p] \in Nat /\ allowance[p].used \in Nat /\ allowance[p].locked \in Nat
        BY ConstantsAssumption DEF TypeOK
      <4>8. QED
        BY <4>3, <4>4, <4>5, <4>6, <4>7 DEF PassConserved, Unlock
    <3>4. QED
      BY <3>2, <3>3
  <2>5. ASSUME NEW q \in Quotes, ReleaseIndex(q) PROVE All'
    <3>1. /\ index[q].status = "reserved" /\ index'[q].status = "released"
          /\ index'[q].pass = index[q].pass
          /\ \A r \in Quotes \ {q} : index'[r] = index[r]
      BY <2>5 DEF ReleaseIndex, TypeOK
    <3>2. ASSUME NEW p \in Passes, p # index[q].pass PROVE PassConserved(p)'
      <4>1. allowance'[p] = allowance[p]
        BY <2>5, <3>2 DEF ReleaseIndex, TypeOK
      <4>2. QED
        BY <3>1, <3>2, <4>1, OtherPassesKeep
    <3>3. ASSUME NEW p \in Passes, p = index[q].pass PROVE PassConserved(p)'
      <4>1. /\ OnPass(p, "reserved")' = OnPass(p, "reserved") \ {q}
            /\ q \in OnPass(p, "reserved")
            /\ OnPass(p, "settled")' = OnPass(p, "settled")
        BY <3>1, <3>3 DEF OnPass
      <4>2. Cardinality(OnPass(p, "reserved"))' = Cardinality(OnPass(p, "reserved")) - 1
        BY <4>1, OnPassIsFinite, FS_RemoveElement
      <4>3. Cardinality(OnPass(p, "reserved")) > 0
        BY <4>1, OnPassIsFinite, FS_EmptySet, FS_CardinalityType
      <4>4. /\ allowance'[p].used = allowance[p].used
            /\ allowance'[p].locked = Unlock(allowance[p].locked)
        <5>1. allowance' = [allowance EXCEPT ![p].locked = Unlock(allowance[p].locked)]
          BY <2>5, <3>3, ConstantsAssumption DEF ReleaseIndex
        <5>2. QED
          BY <5>1 DEF TypeOK
      <4>5. Allowance[p] \in Nat /\ allowance[p].used \in Nat /\ allowance[p].locked \in Nat
        BY ConstantsAssumption DEF TypeOK
      <4>6. QED
        BY <4>1, <4>2, <4>3, <4>4, <4>5 DEF PassConserved, Unlock
    <3>4. QED
      BY <3>2, <3>3
  <2>6. ASSUME NEW c \in Callers,
               \/ \E u \in Usages : BeginReserveUsage(c, u)
               \/ \E q \in Quotes : BeginReserveIndex(c, q)
               \/ EnsureWelcomeGrant(c) \/ ReturnExisting(c) \/ ReserveUsageOnPass(c)
               \/ ReadBalance(c) \/ DecideUsage(c) \/ AbortReserve(c)
        PROVE  UNCHANGED <<index, allowance>>
    BY <2>6 DEF BeginReserveUsage, BeginReserveIndex, EnsureWelcomeGrant, ReturnExisting,
                ReserveUsageOnPass, ReadBalance, DecideUsage, AbortReserve
  <2>7. ASSUME \/ \E u \in Usages : SettleUsage(u) \/ ReleaseUsage(u)
               \/ SweepForState \/ WelcomeForState \/ Environment
        PROVE  UNCHANGED <<index, allowance>>
    BY <2>7 DEF SettleUsage, ReleaseUsage, SweepForState, WelcomeForState, Environment,
                Credit, CheckAdjustment, CommitAdjustment, AgeUsage, PassStarts, PassEnds
  <2> HIDE DEF All
  <2>8. QED
    BY <2>1, <2>2, <2>3, <2>4, <2>5, <2>6, <2>7 DEF Next, Call, Advance, Outcome, vars
<1>3. All /\ FreeOnPass => AllowanceConserved
  BY DEF AllowanceConserved, PassConserved
<1>4. QED
  BY <1>1, <1>2, <1>3, TypeCorrect, InsertsAreSerialized, PassWorkIsFree, PTL DEF Spec

-----------------------------------------------------------------------------
(* Sums over finite sets                                                   *)

\* The element that a fold over a set takes first.
Pick(s) == CHOOSE x \in s : TRUE

\* g adds F up over every part of S, an element at a time.
Adds(g, F, S) ==
  g = [s \in SUBSET S |-> IF s = {} THEN 0 ELSE F[Pick(s)] + g[s \ {Pick(s)}]]

Total(F, S) == (CHOOSE g : Adds(g, F, S))[S]

(* Every collection of parts of a finite set has a least one.  Instead of  *)
(* induction over a set, the lemmas below look at the least part that      *)
(* would refute them.                                                      *)
LEMMA LeastSet ==
  ASSUME NEW S, IsFiniteSet(S), NEW T, T \subseteq SUBSET S, T # {}
  PROVE  \E X \in T : \A Y \in T : Y \subseteq X => Y = X
<1>1. IsWellFoundedOn(StrictSubsetOrdering(S), SUBSET S)
  BY FS_StrictSubsetOrderingWellFounded, FS_FiniteSubsetsOfFinite
<1>2. PICK X \in T : \A Y \in T : ~ (<<Y, X>> \in StrictSubsetOrdering(S))
  BY <1>1, WFMin
<1> QED
  BY <1>2 DEF StrictSubsetOrdering

\* What is picked from a set is in it.
LEMMA PickIsMember == ASSUME NEW S, S # {} PROVE Pick(S) \in S
BY DEF Pick

\* A function that adds up, read at one part of the set.
LEMMA AddsUp ==
  ASSUME NEW F, NEW S, NEW g, Adds(g, F, S), NEW X \in SUBSET S
  PROVE  g[X] = IF X = {} THEN 0 ELSE F[Pick(X)] + g[X \ {Pick(X)}]
BY Zenon DEF Adds

(* A part has one sum, whatever it is a part of, and it has one.           *)
LEMMA OneSum ==
  ASSUME NEW F, NEW S, IsFiniteSet(S), NEW T, NEW g, Adds(g, F, S), NEW h, Adds(h, F, T),
         NEW X \in SUBSET (S \cap T)
  PROVE  g[X] = h[X]
<1> DEFINE D == {Y \in SUBSET (S \cap T) : g[Y] # h[Y]}
<1> SUFFICES ASSUME g[X] # h[X] PROVE FALSE
  OBVIOUS
<1>1. IsFiniteSet(S \cap T) /\ X \in D /\ D \subseteq SUBSET (S \cap T)
  BY FS_Subset
<1>2. PICK Y \in D : \A Z \in D : Z \subseteq Y => Z = Y
  <2> HIDE DEF D
  <2> QED
    BY <1>1, LeastSet
<1>3. g[Y] # h[Y] /\ Y \in SUBSET S /\ Y \in SUBSET T
  BY <1>2
<1>4. g[Y] = IF Y = {} THEN 0 ELSE F[Pick(Y)] + g[Y \ {Pick(Y)}]
  BY <1>3, AddsUp
<1>5. h[Y] = IF Y = {} THEN 0 ELSE F[Pick(Y)] + h[Y \ {Pick(Y)}]
  BY <1>3, AddsUp
<1>6. Y # {}
  BY <1>3, <1>4, <1>5
<1>7. Pick(Y) \in Y
  BY <1>6, PickIsMember
<1>8. Y \ {Pick(Y)} \notin D
  BY <1>2, <1>7
<1> QED
  BY <1>3, <1>4, <1>5, <1>6, <1>8

\* A finite set has a function that adds up its parts: no least part could lack one.
LEMMA SumExists ==
  ASSUME NEW F, NEW S, IsFiniteSet(S)
  PROVE  \E g : Adds(g, F, S)
<1> DEFINE D == {X \in SUBSET S : ~ \E g : Adds(g, F, X)}
<1> SUFFICES ASSUME ~ \E g : Adds(g, F, S) PROVE FALSE
  OBVIOUS
<1>1. S \in D /\ D \subseteq SUBSET S
  OBVIOUS
<1>2. PICK X \in D : \A Z \in D : Z \subseteq X => Z = X
  <2> HIDE DEF D
  <2> QED
    BY <1>1, LeastSet
<1>3. ASSUME NEW Y \in SUBSET X, Y # X
      PROVE  /\ IsFiniteSet(Y) /\ Adds(CHOOSE g : Adds(g, F, Y), F, Y)
  <2>1. Y \notin D /\ Y \in SUBSET S
    BY <1>2, <1>3
  <2>2. \E g : Adds(g, F, Y)
    BY <2>1
  <2> QED
    BY <2>1, <2>2, FS_Subset
<1> DEFINE v == [Y \in SUBSET X |-> IF Y = {} THEN 0 ELSE F[Pick(Y)] + Total(F, Y \ {Pick(Y)})]
<1>4. ASSUME NEW Y \in SUBSET X, Y # X
      PROVE  v[Y] = Total(F, Y)
  <2> DEFINE h == CHOOSE g : Adds(g, F, Y)
  <2>1. Adds(h, F, Y) /\ IsFiniteSet(Y) /\ Total(F, Y) = h[Y]
    BY <1>3, <1>4 DEF Total
  <2>2. h[Y] = IF Y = {} THEN 0 ELSE F[Pick(Y)] + h[Y \ {Pick(Y)}]
    BY <2>1, AddsUp
  <2>3. CASE Y = {}
    BY <2>1, <2>2, <2>3
  <2>4. CASE Y # {}
    <3> DEFINE Z == Y \ {Pick(Y)}
               k == CHOOSE g : Adds(g, F, Z)
    <3>1. Z \in SUBSET X /\ Z # X /\ Z \in SUBSET (Y \cap Z)
      BY <2>4, PickIsMember
    <3>2. Adds(k, F, Z) /\ Total(F, Z) = k[Z]
      BY <3>1, <1>3 DEF Total
    <3> HIDE DEF h, k, Z
    <3>3. h[Z] = k[Z]
      BY <2>1, <3>1, <3>2, OneSum
    <3>4. h[Y] = F[Pick(Y)] + Total(F, Z)
      BY <2>2, <2>4, <3>2, <3>3 DEF Z
    <3> QED
      BY <3>4, <2>1, <2>4, <1>4 DEF Z
  <2> QED
    BY <2>3, <2>4
<1>5. ASSUME NEW Y \in SUBSET X, Y # {}
      PROVE  v[Y \ {Pick(Y)}] = Total(F, Y \ {Pick(Y)})
  <2>1. Pick(Y) \in Y
    BY <1>5, PickIsMember
  <2>2. Y \ {Pick(Y)} \in SUBSET X /\ Y \ {Pick(Y)} # X
    BY <2>1
  <2> HIDE DEF v
  <2> QED
    BY <2>2, <1>4
<1>6. Adds(v, F, X)
  <2>1. v = [Y \in SUBSET X |-> IF Y = {} THEN 0 ELSE F[Pick(Y)] + v[Y \ {Pick(Y)}]]
    BY <1>5
  <2> HIDE DEF v
  <2> QED
    BY <2>1, Zenon DEF Adds
<1> QED
  BY <1>2, <1>6

\* There is one such function: any of them gives the total.
LEMMA SumIsTotal ==
  ASSUME NEW F, NEW S, IsFiniteSet(S), NEW g, Adds(g, F, S)
  PROVE  g[S] = Total(F, S)
<1>1. Adds(CHOOSE h : Adds(h, F, S), F, S)
  BY Zenon
<1> QED
  BY <1>1, OneSum DEF Total

(* A total in terms of the one without the first element, and so without   *)
(* any element, whichever is taken first.                                  *)
LEMMA TotalAdds ==
  ASSUME NEW F, NEW S, IsFiniteSet(S)
  PROVE  Total(F, S) = IF S = {} THEN 0 ELSE F[Pick(S)] + Total(F, S \ {Pick(S)})
<1> DEFINE g == CHOOSE x : Adds(x, F, S)
           T == S \ {Pick(S)}
           h == CHOOSE x : Adds(x, F, T)
<1> HIDE DEF T
<1>1. Adds(g, F, S) /\ Total(F, S) = g[S]
  BY SumExists DEF Total
<1>2. IsFiniteSet(T) /\ T \in SUBSET (S \cap T)
  BY FS_Subset DEF T
<1>3. Adds(h, F, T) /\ Total(F, T) = h[T]
  BY <1>2, SumExists DEF Total
<1> HIDE DEF g, h
<1>4. g[T] = h[T]
  BY <1>1, <1>2, <1>3, OneSum
<1>5. g[S] = IF S = {} THEN 0 ELSE F[Pick(S)] + g[T]
  BY <1>1, AddsUp DEF T
<1> QED
  BY <1>1, <1>3, <1>4, <1>5 DEF T

\* The total of integers is one.
LEMMA TotalIsInt ==
  ASSUME NEW F, NEW S, IsFiniteSet(S), \A x \in S : F[x] \in Int
  PROVE  Total(F, S) \in Int
<1> DEFINE D == {X \in SUBSET S : Total(F, X) \notin Int}
<1> SUFFICES ASSUME Total(F, S) \notin Int PROVE FALSE
  OBVIOUS
<1>1. S \in D /\ D \subseteq SUBSET S
  OBVIOUS
<1>2. PICK X \in D : \A Z \in D : Z \subseteq X => Z = X
  <2> HIDE DEF D
  <2> QED
    BY <1>1, LeastSet
<1>3. X \in SUBSET S /\ IsFiniteSet(X)
  BY <1>2, FS_Subset
<1>4. Total(F, X) = IF X = {} THEN 0 ELSE F[Pick(X)] + Total(F, X \ {Pick(X)})
  BY <1>3, TotalAdds
<1>5. CASE X = {}
  BY <1>2, <1>4, <1>5
<1>6. CASE X # {}
  <2>1. Pick(X) \in X
    BY <1>6, PickIsMember
  <2>2. X \ {Pick(X)} \notin D /\ X \ {Pick(X)} \in SUBSET S
    BY <1>2, <1>3, <2>1
  <2>3. Total(F, X \ {Pick(X)}) \in Int /\ F[Pick(X)] \in Int
    BY <1>3, <2>1, <2>2
  <2> QED
    BY <1>2, <1>4, <1>6, <2>3
<1> QED
  BY <1>5, <1>6

\* Any member can be taken off a total first, not only the one that is picked.
LEMMA TotalOfRest ==
  ASSUME NEW F, NEW S, IsFiniteSet(S), \A x \in S : F[x] \in Int
  PROVE  \A x \in S : Total(F, S) = F[x] + Total(F, S \ {x})
<1> DEFINE Fits(X) == \A x \in X : Total(F, X) = F[x] + Total(F, X \ {x})
           D == {X \in SUBSET S : ~Fits(X)}
<1> SUFFICES ASSUME ~Fits(S) PROVE FALSE
  OBVIOUS
<1>1. S \in D /\ D \subseteq SUBSET S
  OBVIOUS
<1>2. PICK X \in D : \A Z \in D : Z \subseteq X => Z = X
  <2> HIDE DEF D
  <2> QED
    BY <1>1, LeastSet
<1>3. X \in SUBSET S /\ IsFiniteSet(X) /\ ~Fits(X)
  BY <1>2, FS_Subset
<1>4. ASSUME NEW Y \in SUBSET X
      PROVE  Total(F, Y) \in Int
  BY <1>3, FS_Subset, TotalIsInt
<1>5. ASSUME NEW Y \in SUBSET X, Y # X
      PROVE  Fits(Y)
  BY <1>2, <1>3, <1>5
<1>6. PICK x \in X : Total(F, X) # F[x] + Total(F, X \ {x})
  BY <1>3
<1> DEFINE c == Pick(X)
<1>7. c \in X /\ F[c] \in Int /\ F[x] \in Int
  BY <1>3, PickIsMember
<1> HIDE DEF Fits, D
<1>8. Total(F, X) = F[c] + Total(F, X \ {c})
  BY <1>3, <1>6, TotalAdds
<1> HIDE DEF c
<1>9. x # c
  BY <1>6, <1>8
<1> DEFINE R == (X \ {x}) \ {c}
<1>10. Total(F, X \ {c}) = F[x] + Total(F, R)
  <2>1. X \ {c} \in SUBSET X /\ X \ {c} # X /\ x \in X \ {c}
    BY <1>7, <1>9
  <2>2. Total(F, X \ {c}) = F[x] + Total(F, (X \ {c}) \ {x})
    BY <2>1, <1>5 DEF Fits
  <2>3. (X \ {c}) \ {x} = R
    OBVIOUS
  <2> QED
    BY <2>2, <2>3
<1>11. Total(F, X \ {x}) = F[c] + Total(F, R)
  <2>1. X \ {x} \in SUBSET X /\ X \ {x} # X /\ c \in X \ {x}
    BY <1>7, <1>9
  <2> QED
    BY <2>1, <1>5 DEF Fits
<1>12. Total(F, R) \in Int
  BY <1>4
<1> HIDE DEF R
<1>13. Total(F, X) = F[c] + (F[x] + Total(F, R))
  BY <1>8, <1>10
<1>14. F[x] + Total(F, X \ {x}) = F[x] + (F[c] + Total(F, R))
  BY <1>11
<1>15. Total(F, X) = F[x] + Total(F, X \ {x})
  BY <1>7, <1>12, <1>13, <1>14
<1> QED
  BY <1>6, <1>15

(* Only what is added counts.                                              *)
LEMMA TotalDepends ==
  ASSUME NEW F, NEW G, NEW S, IsFiniteSet(S), \A x \in S : F[x] = G[x]
  PROVE  Total(F, S) = Total(G, S)
<1> DEFINE D == {X \in SUBSET S : Total(F, X) # Total(G, X)}
<1> SUFFICES ASSUME Total(F, S) # Total(G, S) PROVE FALSE
  OBVIOUS
<1>1. S \in D /\ D \subseteq SUBSET S
  OBVIOUS
<1>2. PICK X \in D : \A Z \in D : Z \subseteq X => Z = X
  <2> HIDE DEF D
  <2> QED
    BY <1>1, LeastSet
<1>3. X \in SUBSET S /\ IsFiniteSet(X)
  BY <1>2, FS_Subset
<1>4. Total(F, X) = IF X = {} THEN 0 ELSE F[Pick(X)] + Total(F, X \ {Pick(X)})
  BY <1>3, TotalAdds
<1>5. Total(G, X) = IF X = {} THEN 0 ELSE G[Pick(X)] + Total(G, X \ {Pick(X)})
  BY <1>3, TotalAdds
<1>6. X # {} => Pick(X) \in X
  BY PickIsMember
<1>7. X # {} => X \ {Pick(X)} \notin D
  BY <1>2, <1>6
<1> QED
  BY <1>2, <1>3, <1>4, <1>5, <1>6, <1>7

\* A new member adds its value to the total.
LEMMA TotalWithOneMore ==
  ASSUME NEW F, NEW S, IsFiniteSet(S), NEW x, x \notin S, \A y \in S \cup {x} : F[y] \in Int
  PROVE  Total(F, S \cup {x}) = F[x] + Total(F, S)
<1>1. IsFiniteSet(S \cup {x}) /\ (S \cup {x}) \ {x} = S
  BY FS_AddElement
<1> QED
  BY <1>1, TotalOfRest

\* The total of naturals is one.
LEMMA TotalIsNat ==
  ASSUME NEW F, NEW S, IsFiniteSet(S), \A x \in S : F[x] \in Nat
  PROVE  Total(F, S) \in Nat
<1> DEFINE D == {X \in SUBSET S : Total(F, X) \notin Nat}
<1> SUFFICES ASSUME Total(F, S) \notin Nat PROVE FALSE
  OBVIOUS
<1>1. S \in D /\ D \subseteq SUBSET S
  OBVIOUS
<1>2. PICK X \in D : \A Z \in D : Z \subseteq X => Z = X
  <2> HIDE DEF D
  <2> QED
    BY <1>1, LeastSet
<1>3. X \in SUBSET S /\ IsFiniteSet(X)
  BY <1>2, FS_Subset
<1>4. Total(F, X) = IF X = {} THEN 0 ELSE F[Pick(X)] + Total(F, X \ {Pick(X)})
  BY <1>3, TotalAdds
<1>5. X # {} => Pick(X) \in X
  BY PickIsMember
<1>6. X # {} => X \ {Pick(X)} \notin D /\ X \ {Pick(X)} \in SUBSET S
  BY <1>2, <1>3, <1>5
<1>7. X # {} => Total(F, X \ {Pick(X)}) \in Nat /\ F[Pick(X)] \in Nat
  BY <1>3, <1>5, <1>6
<1> QED
  BY <1>2, <1>4, <1>7

\* The total of naturals over a part is at most the total over the whole.
LEMMA TotalOfPart ==
  ASSUME NEW F, NEW S, IsFiniteSet(S), \A x \in S : F[x] \in Nat, NEW T \in SUBSET S
  PROVE  Total(F, T) <= Total(F, S)
<1> DEFINE D == {X \in SUBSET (S \ T) : ~(Total(F, T) <= Total(F, T \cup X))}
<1>0. IsFiniteSet(S \ T) /\ T \cup (S \ T) = S
  BY FS_Subset
<1> SUFFICES ASSUME ~(Total(F, T) <= Total(F, S)) PROVE FALSE
  OBVIOUS
<1>1. S \ T \in D /\ D \subseteq SUBSET (S \ T)
  BY <1>0
<1>2. PICK X \in D : \A Z \in D : Z \subseteq X => Z = X
  <2> HIDE DEF D
  <2> QED
    BY <1>0, <1>1, LeastSet
<1>3. Total(F, T) \in Nat
  BY FS_Subset, TotalIsNat
<1>4. CASE X = {}
  <2>1. T \cup X = T
    BY <1>4
  <2>2. Total(F, T \cup X) = Total(F, T)
    BY <2>1, Zenon
  <2>3. Total(F, T) <= Total(F, T \cup X)
    BY <1>3, <2>2
  <2> QED
    BY <1>2, <2>3
<1>5. CASE X # {}
  <2>1. PICK x \in X : TRUE
    BY <1>5
  <2> DEFINE Y == T \cup (X \ {x})
  <2>2. x \notin Y /\ Y \cup {x} = T \cup X /\ Y \in SUBSET S /\ x \in S
    BY <1>2, <2>1
  <2>3. IsFiniteSet(Y) /\ Total(F, Y) \in Nat
    BY <2>2, FS_Subset, TotalIsNat
  <2>4. X \ {x} \notin D
    BY <1>2, <2>1
  <2>5. Total(F, T) <= Total(F, Y)
    BY <2>4, <1>2
  <2> HIDE DEF Y
  <2>6. Total(F, Y \cup {x}) = F[x] + Total(F, Y)
    BY <2>2, <2>3, TotalWithOneMore
  <2>7. F[x] \in Nat
    BY <2>2
  <2>8. Total(F, T \cup X) = F[x] + Total(F, Y)
    BY <2>2, <2>6, Zenon
  <2>9. Total(F, T) <= Total(F, T \cup X)
    BY <1>3, <2>3, <2>5, <2>7, <2>8
  <2> QED
    BY <1>2, <2>9
<1> QED
  BY <1>4, <1>5

-----------------------------------------------------------------------------
(* Sums of the tables                                                      *)

\* Two totals that differ at one member differ by its two values.
LEMMA TotalBut ==
  ASSUME NEW F, NEW G, NEW S, NEW R, NEW x, IsFiniteSet(S), IsFiniteSet(R), S \ {x} = R \ {x},
         \A y \in S \ {x} : F[y] = G[y],
         \A y \in S : F[y] \in Int, \A y \in R : G[y] \in Int
  PROVE  Total(G, R) = Total(F, S) - (IF x \in S THEN F[x] ELSE 0) + (IF x \in R THEN G[x] ELSE 0)
<1> DEFINE T == S \ {x}
<1>1. IsFiniteSet(T) /\ T = R \ {x} /\ \A y \in T : F[y] = G[y] /\ F[y] \in Int
  BY FS_Subset
<1>2. T = S \ {x}
  OBVIOUS
<1> HIDE DEF T
<1>3. Total(F, T) = Total(G, T) /\ Total(F, T) \in Int
  BY <1>1, TotalDepends, TotalIsInt
<1>4. /\ x \in S => Total(F, S) = F[x] + Total(F, T)
      /\ x \in R => Total(G, R) = G[x] + Total(G, T)
  BY <1>1, <1>2, TotalOfRest
<1>5. (x \notin S => S = T) /\ (x \notin R => R = T)
  BY <1>1, <1>2
<1>6. (x \notin S => Total(F, S) = Total(F, T)) /\ (x \notin R => Total(G, R) = Total(G, T))
  BY <1>5, Zenon
<1> QED
  BY <1>3, <1>4, <1>6

EntryPoints(L) == [e \in L |-> e.points]

PointsOf(rows, S) == [x \in S |-> rows[x].points]

\* The balance of a ledger is the total of its entries' points.
LEMMA SumOfEntries ==
  ASSUME NEW L, IsFiniteSet(L)
  PROVE  MapThenSumSet(LAMBDA e : e.points, L) = Total(EntryPoints(L), L)
<1> DEFINE Q(g) == g = [s \in SUBSET L |-> IF s = {} THEN 0 ELSE Pick(s).points + g[s \ {Pick(s)}]]
           h == CHOOSE g : Q(g)
<1>1. \A s \in SUBSET L : s # {} => EntryPoints(L)[Pick(s)] = Pick(s).points
  BY PickIsMember DEF EntryPoints
<1>2. ASSUME NEW g
      PROVE  [s \in SUBSET L |-> IF s = {} THEN 0 ELSE Pick(s).points + g[s \ {Pick(s)}]]
             = [s \in SUBSET L |-> IF s = {} THEN 0 ELSE EntryPoints(L)[Pick(s)] + g[s \ {Pick(s)}]]
  BY <1>1
<1>3. \A g : Q(g) <=> Adds(g, EntryPoints(L), L)
  BY <1>2, Zenon DEF Adds
<1>4. \E g : Q(g)
  BY <1>3, SumExists
<1>5. Adds(h, EntryPoints(L), L)
  <2>1. Q(h)
    BY <1>4, Zenon
  <2> HIDE DEF Q, h
  <2> QED
    BY <2>1, <1>3
<1>6. MapThenSumSet(LAMBDA e : e.points, L) = h[L]
  BY Zenon DEF MapThenSumSet, MapThenFoldSet, Pick
<1> HIDE DEF h
<1> QED
  BY <1>5, <1>6, SumIsTotal

\* What a table of reservations promises is a total.
LEMMA SumOfRows ==
  ASSUME NEW f, NEW T, NEW S \in SUBSET T, IsFiniteSet(S)
  PROVE  MapThenSumSet(LAMBDA x : f[x].points, S) = Total(PointsOf(f, T), S)
<1> DEFINE Q(g) == g = [s \in SUBSET S |-> IF s = {} THEN 0 ELSE f[Pick(s)].points + g[s \ {Pick(s)}]]
           h == CHOOSE g : Q(g)
<1>1. \A s \in SUBSET S : s # {} => PointsOf(f, T)[Pick(s)] = f[Pick(s)].points
  BY PickIsMember DEF PointsOf
<1>2. ASSUME NEW g
      PROVE  [s \in SUBSET S |-> IF s = {} THEN 0 ELSE f[Pick(s)].points + g[s \ {Pick(s)}]]
             = [s \in SUBSET S |-> IF s = {} THEN 0 ELSE PointsOf(f, T)[Pick(s)] + g[s \ {Pick(s)}]]
  BY <1>1
<1>3. \A g : Q(g) <=> Adds(g, PointsOf(f, T), S)
  BY <1>2, Zenon DEF Adds
<1>4. \E g : Q(g)
  BY <1>3, SumExists
<1>5. Adds(h, PointsOf(f, T), S)
  <2>1. Q(h)
    BY <1>4, Zenon
  <2> HIDE DEF Q, h
  <2> QED
    BY <2>1, <1>3
<1>6. MapThenSumSet(LAMBDA x : f[x].points, S) = h[S]
  BY Zenon DEF MapThenSumSet, MapThenFoldSet, Pick
<1> HIDE DEF h
<1> QED
  BY <1>5, <1>6, SumIsTotal

SumsAreTotals ==
  /\ IsFiniteSet(ledger) => Balance = Total(EntryPoints(ledger), ledger)
  /\ Reserved = Total(PointsOf(usage, Usages), Held) + Total(PointsOf(index, Quotes), HeldQuotes)
  /\ IsFiniteSet(Held) /\ IsFiniteSet(HeldQuotes)

\* Sums and totals agree in a state.
LEMMA TotalsNow == SumsAreTotals
<1>1. IsFiniteSet(Held) /\ Held \in SUBSET Usages
  BY ConstantsAssumption, FS_Subset DEF Held
<1>2. IsFiniteSet(HeldQuotes) /\ HeldQuotes \in SUBSET Quotes
  BY ConstantsAssumption, FS_Subset DEF HeldQuotes
<1>3. MapThenSumSet(LAMBDA u : usage[u].points, Held) = Total(PointsOf(usage, Usages), Held)
  BY <1>1, SumOfRows, Zenon
<1>4. MapThenSumSet(LAMBDA q : index[q].points, HeldQuotes) = Total(PointsOf(index, Quotes), HeldQuotes)
  BY <1>2, SumOfRows, Zenon
<1>5. Reserved = Total(PointsOf(usage, Usages), Held) + Total(PointsOf(index, Quotes), HeldQuotes)
  BY <1>3, <1>4, Zenon DEF Reserved
<1>6. IsFiniteSet(ledger) => Balance = Total(EntryPoints(ledger), ledger)
  BY SumOfEntries, Zenon DEF Balance
<1> QED
  BY <1>1, <1>2, <1>5, <1>6 DEF SumsAreTotals

\* Sums and totals agree in the next state.
LEMMA TotalsNext == SumsAreTotals'
BY TotalsNow, PTL

(* What a posting does to the balance                                      *)
LEMMA PostedBalance ==
  ASSUME TypeOK, IsFiniteSet(ledger), NEW ref, NEW points \in Int, ledger' = Post(ref, points)
  PROVE  /\ IsFiniteSet(ledger') /\ Balance \in Int
         /\ Balance' = Balance \/ Balance' = Balance + points
<1> DEFINE new == [ref |-> ref, points |-> points]
<1>0. /\ \A e \in ledger : e.points \in Int
      /\ new.points = points /\ new.ref = ref
  BY DEF TypeOK
<1>1. \A e \in ledger : EntryPoints(ledger)[e] \in Int
  BY <1>0 DEF EntryPoints
<1>2. Balance = Total(EntryPoints(ledger), ledger) /\ Balance \in Int
  BY <1>1, TotalsNow, TotalIsInt DEF SumsAreTotals
<1>3. CASE ledger' = ledger
  <2>1. Balance' = Balance
    BY <1>2, <1>3, TotalsNext, Zenon DEF SumsAreTotals
  <2> QED
    BY <1>2, <1>3, <2>1
<1>4. CASE ~Posted(ref)
  <2>1. ledger' = ledger \cup {new} /\ new \notin ledger
    BY <1>0, <1>4 DEF Post, Posted
  <2> HIDE DEF new
  <2>2. IsFiniteSet(ledger')
    BY <2>1, FS_AddElement
  <2>3. /\ \A e \in ledger : EntryPoints(ledger)[e] = EntryPoints(ledger')[e]
        /\ \A e \in ledger \cup {new} : EntryPoints(ledger')[e] \in Int
        /\ EntryPoints(ledger')[new] = points
    BY <1>0, <2>1 DEF EntryPoints
  <2> DEFINE F == EntryPoints(ledger')
  <2> HIDE DEF F
  <2>4. Total(F, ledger \cup {new}) = F[new] + Total(F, ledger)
    BY <2>1, <2>3, TotalWithOneMore DEF F
  <2>5. Total(F, ledger) = Balance
    BY <1>2, <2>3, TotalDepends DEF F
  <2>6. Balance' = Total(F, ledger')
    BY <2>2, TotalsNext DEF SumsAreTotals, F
  <2>7. Balance' = points + Balance
    BY <2>1, <2>3, <2>4, <2>5, <2>6 DEF F
  <2> QED
    BY <1>2, <2>2, <2>7
<1> QED
  BY <1>3, <1>4 DEF Post

(* What a reservation holds of the points                                  *)
Promised(u) == IF usage[u].status = "reserved" THEN usage[u].points ELSE 0
PromisedFor(q) == IF index[q].status = "reserved" THEN index[q].points ELSE 0

\* What is held for usages and for documents is never negative.
LEMMA ReservesAreNat ==
  ASSUME TypeOK
  PROVE  /\ Total(PointsOf(usage, Usages), Held) \in Nat
         /\ Total(PointsOf(index, Quotes), HeldQuotes) \in Nat
         /\ Reserved \in Nat
<1>1. \A u \in Held : PointsOf(usage, Usages)[u] \in Nat
  BY DEF TypeOK, PointsOf, Held
<1>2. \A q \in HeldQuotes : PointsOf(index, Quotes)[q] \in Nat
  BY DEF TypeOK, PointsOf, HeldQuotes
<1> QED
  BY <1>1, <1>2, TotalsNow, TotalIsNat DEF SumsAreTotals

\* A step of one usage moves the reserved points by what it promised and now promises.
LEMMA UseMovesReserved ==
  ASSUME TypeOK, TypeOK', UNCHANGED index, NEW u \in Usages,
         \A v \in Usages \ {u} : usage'[v] = usage[v]
  PROVE  Reserved' = Reserved - Promised(u) + Promised(u)'
<1> DEFINE F == PointsOf(usage, Usages)
           G == PointsOf(usage', Usages)
           H == PointsOf(index, Quotes)
<1>1. /\ \A v \in Usages : F[v] = usage[v].points /\ F[v] \in Nat
      /\ \A v \in Usages : G[v] = usage'[v].points /\ G[v] \in Nat
  BY DEF TypeOK, PointsOf
<1>2. /\ Held \subseteq Usages /\ Held' \subseteq Usages /\ Held \ {u} = Held' \ {u}
      /\ u \in Held <=> usage[u].status = "reserved"
      /\ u \in Held' <=> usage'[u].status = "reserved"
      /\ HeldQuotes' = HeldQuotes
  BY DEF Held, HeldQuotes
<1>3. /\ Reserved = Total(F, Held) + Total(H, HeldQuotes)
      /\ Reserved' = Total(G, Held') + Total(H, HeldQuotes)
      /\ IsFiniteSet(Held) /\ IsFiniteSet(Held')
  BY <1>2, TotalsNow, TotalsNext, Zenon DEF SumsAreTotals
<1>4. Total(F, Held) \in Nat /\ Total(H, HeldQuotes) \in Nat
  BY ReservesAreNat
<1> HIDE DEF F, G, H
<1>5. PICK S, R : S = Held /\ R = Held'
  OBVIOUS
<1>6. /\ \A y \in S \ {u} : F[y] = G[y]
      /\ \A y \in S : F[y] \in Int
      /\ \A y \in R : G[y] \in Int
      /\ S \ {u} = R \ {u} /\ IsFiniteSet(S) /\ IsFiniteSet(R)
  BY <1>1, <1>2, <1>3, <1>5
<1>7. Total(G, R) = Total(F, S) - (IF u \in S THEN F[u] ELSE 0) + (IF u \in R THEN G[u] ELSE 0)
  BY <1>6, TotalBut
<1> QED
  BY <1>1, <1>2, <1>3, <1>4, <1>5, <1>7 DEF Promised

\* A step of one quote moves them by what it promised and now promises.
LEMMA QuoteMovesReserved ==
  ASSUME TypeOK, TypeOK', UNCHANGED usage, NEW q \in Quotes,
         \A r \in Quotes \ {q} : index'[r] = index[r]
  PROVE  Reserved' = Reserved - PromisedFor(q) + PromisedFor(q)'
<1> DEFINE F == PointsOf(index, Quotes)
           G == PointsOf(index', Quotes)
           H == PointsOf(usage, Usages)
<1>1. /\ \A r \in Quotes : F[r] = index[r].points /\ F[r] \in Nat
      /\ \A r \in Quotes : G[r] = index'[r].points /\ G[r] \in Nat
  BY DEF TypeOK, PointsOf
<1>2. /\ HeldQuotes \subseteq Quotes /\ HeldQuotes' \subseteq Quotes
      /\ HeldQuotes \ {q} = HeldQuotes' \ {q}
      /\ q \in HeldQuotes <=> index[q].status = "reserved"
      /\ q \in HeldQuotes' <=> index'[q].status = "reserved"
      /\ Held' = Held
  BY DEF Held, HeldQuotes
<1>3. /\ Reserved = Total(H, Held) + Total(F, HeldQuotes)
      /\ Reserved' = Total(H, Held) + Total(G, HeldQuotes')
      /\ IsFiniteSet(HeldQuotes) /\ IsFiniteSet(HeldQuotes')
  BY <1>2, TotalsNow, TotalsNext, Zenon DEF SumsAreTotals
<1>4. Total(H, Held) \in Nat /\ Total(F, HeldQuotes) \in Nat
  BY ReservesAreNat
<1> HIDE DEF F, G, H
<1>5. PICK S, R : S = HeldQuotes /\ R = HeldQuotes'
  OBVIOUS
<1>6. /\ \A y \in S \ {q} : F[y] = G[y]
      /\ \A y \in S : F[y] \in Int
      /\ \A y \in R : G[y] \in Int
      /\ S \ {q} = R \ {q} /\ IsFiniteSet(S) /\ IsFiniteSet(R)
  BY <1>1, <1>2, <1>3, <1>5
<1>7. Total(G, R) = Total(F, S) - (IF q \in S THEN F[q] ELSE 0) + (IF q \in R THEN G[q] ELSE 0)
  BY <1>6, TotalBut
<1> QED
  BY <1>1, <1>2, <1>3, <1>4, <1>5, <1>7 DEF PromisedFor

\* The sweep only frees reserved points.
LEMMA SweepMovesReserved ==
  ASSUME TypeOK, Sweep, UNCHANGED index
  PROVE  Reserved' <= Reserved
<1> DEFINE F == PointsOf(usage, Usages)
           G == PointsOf(usage', Usages)
           H == PointsOf(index, Quotes)
<1>1. \A v \in Usages : /\ F[v] = usage[v].points /\ F[v] \in Nat
                        /\ G[v] = F[v]
                        /\ usage'[v].status = "reserved" => usage[v].status = "reserved"
  BY DEF TypeOK, PointsOf, Sweep
<1>2. Held \subseteq Usages /\ Held' \in SUBSET Held /\ HeldQuotes' = HeldQuotes
  BY <1>1 DEF Held, HeldQuotes
<1>3. /\ Reserved = Total(F, Held) + Total(H, HeldQuotes)
      /\ Reserved' = Total(G, Held') + Total(H, HeldQuotes)
      /\ IsFiniteSet(Held) /\ IsFiniteSet(Held')
  BY <1>2, TotalsNow, TotalsNext, Zenon DEF SumsAreTotals
<1>4. Total(F, Held) \in Nat /\ Total(H, HeldQuotes) \in Nat
  BY ReservesAreNat
<1> HIDE DEF F, G, H
<1>5. Total(G, Held') = Total(F, Held') /\ Total(F, Held') <= Total(F, Held) /\ Total(F, Held') \in Nat
  <2>1. \A v \in Held' : F[v] = G[v] /\ F[v] \in Nat
    BY <1>1, <1>2
  <2> QED
    BY <1>1, <1>2, <1>3, <2>1, TotalDepends, TotalIsNat, TotalOfPart
<1> QED
  BY <1>3, <1>4, <1>5

BalanceIsInt == TypeOK /\ IsFiniteSet(ledger) => Balance \in Int

ReservedIsNat == TypeOK => Reserved \in Nat

\* The balance is an integer and the reserve a natural.
LEMMA SumsHaveTypes == BalanceIsInt /\ ReservedIsNat
<1>1. ASSUME TypeOK, IsFiniteSet(ledger)
      PROVE  Balance \in Int
  <2>1. \A e \in ledger : EntryPoints(ledger)[e] \in Int
    BY <1>1 DEF TypeOK, EntryPoints
  <2> QED
    BY <1>1, <2>1, TotalsNow, TotalIsInt DEF SumsAreTotals
<1> QED
  BY <1>1, ReservesAreNat DEF BalanceIsInt, ReservedIsNat

\* They are in the next state too.
LEMMA SumsKeepTypes == BalanceIsInt' /\ ReservedIsNat'
BY SumsHaveTypes, PTL

\* A step that leaves the tables alone leaves balance and reserve alone.
LEMMA TablesKept ==
  /\ UNCHANGED ledger /\ IsFiniteSet(ledger) => Balance' = Balance
  /\ UNCHANGED <<usage, index>> => Reserved' = Reserved
<1>1. UNCHANGED ledger /\ IsFiniteSet(ledger) => Balance' = Balance
  BY TotalsNow, TotalsNext, Zenon DEF SumsAreTotals
<1>2. ASSUME UNCHANGED <<usage, index>>
      PROVE  Reserved' = Reserved
  <2>1. usage' = usage /\ index' = index
    BY <1>2
  <2>2. Held' = Held /\ HeldQuotes' = HeldQuotes
    BY <2>1, Zenon DEF Held, HeldQuotes
  <2> QED
    BY <2>1, <2>2, TotalsNow, TotalsNext, Zenon DEF SumsAreTotals
<1> QED
  BY <1>1, <1>2

-----------------------------------------------------------------------------
(* The sum a caller has read is not more than the balance, and the balance *)
(* not less than what is promised, unless a settlement fell between a      *)
(* caller's reads or an administrator debited the wallet.                  *)
Covered ==
  /\ Solvent
  /\ \A c \in BetweenReads : seen[c] <= Balance

SolvencyInv ==
  /\ IsFiniteSet(ledger)
  /\ \A c \in BetweenReads : seen[c] \in Int
  /\ ~disturbed => Covered

(* What was read stays covered while the balance does not fall, and what   *)
(* is promised while it does not grow beyond it.                           *)
LEMMA StaysCovered ==
  ASSUME TypeOK, TypeOK', SolvencyInv, IsFiniteSet(ledger'),
         ~disturbed' => ~disturbed,
         \A c \in BetweenReads' : \/ c \in BetweenReads /\ seen'[c] = seen[c]
                                  \/ seen'[c] = Balance /\ Balance' = Balance,
         ~disturbed' => Balance' >= Balance \/ BetweenReads' = {},
         ~disturbed' /\ Solvent => Balance' >= Reserved'
  PROVE  SolvencyInv'
<1>1. Balance \in Int /\ Balance' \in Int
  BY SumsHaveTypes, SumsKeepTypes DEF SolvencyInv, BalanceIsInt
<1>2. \A c \in BetweenReads' : seen'[c] \in Int
  BY <1>1 DEF SolvencyInv
<1>3. ASSUME ~disturbed'
      PROVE  Solvent' /\ \A c \in BetweenReads' : seen'[c] <= Balance'
  <2>1. Solvent /\ \A c \in BetweenReads : seen[c] <= Balance /\ seen[c] \in Int
    BY <1>3 DEF SolvencyInv, Covered
  <2>2. Solvent'
    BY <1>3, <2>1 DEF Solvent
  <2>3. \A c \in BetweenReads' : seen'[c] <= Balance'
    BY <1>1, <1>3, <2>1
  <2> QED
    BY <2>2, <2>3
<1> QED
  BY <1>2, <1>3 DEF SolvencyInv, Covered

(* Which callers are between their reads after a step of one               *)
LEMMA ReadersMove ==
  ASSUME TypeOK, NEW c \in Callers, NEW t, tx' = [tx EXCEPT ![c] = t]
  PROVE  /\ \A d \in Callers \ {c} : d \in BetweenReads' <=> d \in BetweenReads
         /\ c \in BetweenReads' <=> t.pc = "decide"
         /\ BetweenReads' \subseteq Callers
BY DEF TypeOK, BetweenReads

(* The statements of a reserve call before it decides                      *)
LEMMA CallsStayCovered ==
  ASSUME TypeOK, TypeOK', InsertUnderLock, SolvencyInv, NEW c \in Callers,
         \/ Call(c) \/ EnsureWelcomeGrant(c) \/ ReturnExisting(c) \/ ReserveUsageOnPass(c)
         \/ \E p \in Passes : ReserveIndexOnPass(c, p)
         \/ ReadBalance(c) \/ AbortReserve(c)
  PROVE  SolvencyInv'
<1>1. IsFiniteSet(ledger) /\ UNCHANGED disturbed
  BY DEF SolvencyInv, Call, AbortReserve, BeginReserveUsage, BeginReserveIndex, EnsureWelcomeGrant,
         ReturnExisting, ReserveUsageOnPass, ReserveIndexOnPass, ReadBalance
<1>2. /\ Balance \in Int /\ Reserved \in Nat /\ Reserved' \in Nat
      /\ IsFiniteSet(ledger') => Balance' \in Int
  BY <1>1, SumsHaveTypes, SumsKeepTypes DEF BalanceIsInt, ReservedIsNat
<1>3. /\ UNCHANGED ledger => Balance' = Balance /\ IsFiniteSet(ledger')
      /\ UNCHANGED <<usage, index>> => Reserved' = Reserved
  BY <1>1, TablesKept
<1>4. Idle.pc # "decide"
  BY DEF Idle
<1>5. CASE Call(c)
  <2>1. PICK t : tx' = [tx EXCEPT ![c] = t] /\ t.pc # "decide"
    <3>1. ASSUME NEW u \in Usages, BeginReserveUsage(c, u)
          PROVE  \E t : tx' = [tx EXCEPT ![c] = t] /\ t.pc # "decide"
      <4> DEFINE k == [pc |-> "welcome", op |-> "usage", id |-> u]
      <4>1. tx' = [tx EXCEPT ![c] = k] /\ k.pc # "decide"
        BY <3>1 DEF BeginReserveUsage
      <4> QED
        BY <4>1, Zenon
    <3>2. ASSUME NEW q \in Quotes, BeginReserveIndex(c, q)
          PROVE  \E t : tx' = [tx EXCEPT ![c] = t] /\ t.pc # "decide"
      <4> DEFINE k == [pc |-> "lock", op |-> "index", id |-> q]
      <4>1. tx' = [tx EXCEPT ![c] = k] /\ k.pc # "decide"
        BY <3>2 DEF BeginReserveIndex
      <4> QED
        BY <4>1, Zenon
    <3> QED
      BY <1>5, <3>1, <3>2, Zenon DEF Call
  <2>2. UNCHANGED <<ledger, seen, index>>
    BY <1>5 DEF Call, BeginReserveUsage, BeginReserveIndex
  <2>3. Reserved' <= Reserved
    <3>1. CASE Sweep
      BY <2>2, <3>1, SweepMovesReserved
    <3>2. CASE UNCHANGED usage
      BY <1>2, <1>3, <2>2, <3>2
    <3> QED
      BY <1>5, <3>1, <3>2 DEF Call, BeginReserveUsage, BeginReserveIndex
  <2>4. \A d \in BetweenReads' : d \in BetweenReads /\ seen'[d] = seen[d]
    BY <2>1, <2>2, ReadersMove
  <2> QED
    BY <1>1, <1>2, <1>3, <2>2, <2>3, <2>4, StaysCovered DEF Solvent
<1>6. CASE EnsureWelcomeGrant(c)
  <2>1. /\ UNCHANGED <<usage, index, seen>> /\ tx' = [tx EXCEPT ![c].pc = "lock"]
        /\ ledger' = Post(WelcomeRef, WelcomePoints)
    BY <1>6 DEF EnsureWelcomeGrant
  <2>2. WelcomePoints \in Int /\ WelcomePoints >= 0
    BY ConstantsAssumption
  <2>3. IsFiniteSet(ledger') /\ Balance' >= Balance
    BY <1>1, <1>2, <2>1, <2>2, PostedBalance
  <2>4. \A d \in BetweenReads' : d \in BetweenReads /\ seen'[d] = seen[d]
    BY <1>6, <2>1 DEF TypeOK, BetweenReads, EnsureWelcomeGrant
  <2> QED
    BY <1>1, <1>2, <1>3, <2>1, <2>3, <2>4, StaysCovered DEF Solvent
<1>7. CASE ReturnExisting(c)
  <2>1. UNCHANGED <<ledger, usage, index, seen>> /\ tx' = [tx EXCEPT ![c] = Idle]
    BY <1>7 DEF ReturnExisting
  <2>2. \A d \in BetweenReads' : d \in BetweenReads /\ seen'[d] = seen[d]
    BY <1>4, <2>1, ReadersMove
  <2> QED
    BY <1>1, <1>2, <1>3, <2>1, <2>2, StaysCovered DEF Solvent
<1>8. CASE ReserveUsageOnPass(c)
  <2>u. PICK u : u = tx[c].id
    OBVIOUS
  <2>1. UNCHANGED <<ledger, index, seen>> /\ tx' = [tx EXCEPT ![c] = Idle]
    BY <1>8 DEF ReserveUsageOnPass
  <2>2. u \in Usages /\ usage[u].status = "none"
        /\ usage' = [usage EXCEPT ![u] = [status |-> "reserved", points |-> 0]]
    BY <1>8, <2>u DEF ReserveUsageOnPass, InsertUnderLock
  <2>3. Promised(u) = 0 /\ Promised(u)' = 0 /\ \A v \in Usages \ {u} : usage'[v] = usage[v]
    BY <2>2 DEF Promised, TypeOK
  <2>4. Reserved' = Reserved
    BY <1>2, <2>1, <2>2, <2>3, UseMovesReserved
  <2>5. \A d \in BetweenReads' : d \in BetweenReads /\ seen'[d] = seen[d]
    BY <1>4, <2>1, ReadersMove
  <2> QED
    BY <1>1, <1>2, <1>3, <2>1, <2>4, <2>5, StaysCovered DEF Solvent
<1>9. ASSUME NEW p \in Passes, ReserveIndexOnPass(c, p)
      PROVE  SolvencyInv'
  <2>u. PICK q : q = tx[c].id
    OBVIOUS
  <2>1. UNCHANGED <<ledger, usage, seen>> /\ tx' = [tx EXCEPT ![c] = Idle]
    BY <1>9 DEF ReserveIndexOnPass
  <2>2. q \in Quotes /\ index[q].status = "none"
        /\ index' = [index EXCEPT ![q] = [status |-> "reserved", points |-> 0, pass |-> p]]
    BY <1>9, <2>u DEF ReserveIndexOnPass, InsertUnderLock
  <2>3. PromisedFor(q) = 0 /\ PromisedFor(q)' = 0 /\ \A r \in Quotes \ {q} : index'[r] = index[r]
    BY <2>2 DEF PromisedFor, TypeOK
  <2>4. Reserved' = Reserved
    BY <1>2, <2>1, <2>2, <2>3, QuoteMovesReserved
  <2>5. \A d \in BetweenReads' : d \in BetweenReads /\ seen'[d] = seen[d]
    BY <1>4, <2>1, ReadersMove
  <2> QED
    BY <1>1, <1>2, <1>3, <2>1, <2>4, <2>5, StaysCovered DEF Solvent
<1>10. CASE ReadBalance(c)
  <2>1. UNCHANGED <<ledger, usage, index>> /\ seen' = [seen EXCEPT ![c] = Balance]
        /\ tx' = [tx EXCEPT ![c].pc = "decide"]
    BY <1>10 DEF ReadBalance
  <2>2. \A d \in BetweenReads' : \/ d \in BetweenReads /\ seen'[d] = seen[d]
                                 \/ seen'[d] = Balance /\ Balance' = Balance
    <3>1. seen'[c] = Balance /\ \A d \in Callers \ {c} : seen'[d] = seen[d]
      BY <2>1 DEF TypeOK
    <3>2. \A d \in BetweenReads' \ {c} : d \in Callers /\ d \in BetweenReads
      BY <2>1 DEF TypeOK, BetweenReads
    <3> QED
      BY <1>3, <2>1, <3>1, <3>2
  <2> QED
    BY <1>1, <1>2, <1>3, <2>1, <2>2, StaysCovered DEF Solvent
<1>11. CASE AbortReserve(c)
  <2>1. UNCHANGED <<ledger, usage, index>> /\ tx' = [tx EXCEPT ![c] = Idle]
        /\ seen' = [seen EXCEPT ![c] = 0]
    BY <1>11 DEF AbortReserve, EndTransaction
  <2>2. \A d \in BetweenReads' : d \in BetweenReads /\ seen'[d] = seen[d]
    BY <1>4, <2>1, ReadersMove DEF TypeOK
  <2> QED
    BY <1>1, <1>2, <1>3, <2>1, <2>2, StaysCovered DEF Solvent
<1> QED
  BY <1>5, <1>6, <1>7, <1>8, <1>9, <1>10, <1>11

(* The decision of a reserve call: what was read is not more than what the *)
(* balance is now, so that what it allows is covered.                      *)
LEMMA DecisionsStayCovered ==
  ASSUME TypeOK, TypeOK', InsertUnderLock, SolvencyInv, NEW c \in Callers, DecideUsage(c) \/ DecideIndex(c)
  PROVE  SolvencyInv'
<1>1. /\ IsFiniteSet(ledger) /\ UNCHANGED <<disturbed, ledger>>
      /\ tx' = [tx EXCEPT ![c] = Idle] /\ seen' = [seen EXCEPT ![c] = 0]
      /\ c \in BetweenReads
  BY DEF SolvencyInv, DecideUsage, DecideIndex, EndTransaction, BetweenReads
<1>2. /\ Balance \in Int /\ Reserved \in Nat /\ Reserved' \in Nat
      /\ Balance' = Balance /\ IsFiniteSet(ledger')
  BY <1>1, SumsHaveTypes, SumsKeepTypes, TablesKept DEF BalanceIsInt, ReservedIsNat
<1>3. seen[c] \in Int /\ (~disturbed => seen[c] <= Balance)
  BY <1>1 DEF SolvencyInv, Covered
<1>4. Reserved' = Reserved \/ Reserved' <= seen[c]
  <2>1. CASE DecideUsage(c)
    <3>u. PICK u : u = tx[c].id
      OBVIOUS
    <3>1. u \in Usages /\ usage[u].status = "none"
      BY <2>1, <3>u DEF DecideUsage, InsertUnderLock
    <3>2. UsagePoints[u] \in Nat
      BY <3>1, ConstantsAssumption
    <3>3. UNCHANGED index
      BY <2>1 DEF DecideUsage
    <3>4. CASE UNCHANGED usage
      BY <3>3, <3>4, TablesKept
    <3>5. CASE seen[c] - Reserved >= UsagePoints[u]
               /\ usage' = [usage EXCEPT ![u] = [status |-> "reserved", points |-> UsagePoints[u]]]
      <4>1. /\ Promised(u) = 0 /\ Promised(u)' = UsagePoints[u]
            /\ \A v \in Usages \ {u} : usage'[v] = usage[v]
        BY <3>1, <3>5 DEF Promised, TypeOK
      <4>2. Reserved' = Reserved - Promised(u) + Promised(u)'
        BY <3>1, <3>3, <4>1, UseMovesReserved
      <4> QED
        BY <1>2, <1>3, <3>2, <3>5, <4>1, <4>2
    <3> QED
      BY <2>1, <3>u, <3>4, <3>5 DEF DecideUsage
  <2>2. CASE DecideIndex(c)
    <3>u. PICK q : q = tx[c].id
      OBVIOUS
    <3>1. q \in Quotes /\ index[q].status = "none"
      BY <2>2, <3>u DEF DecideIndex, InsertUnderLock
    <3>2. QuotePoints[q] \in Nat
      BY <3>1, ConstantsAssumption
    <3>3. UNCHANGED usage
      BY <2>2 DEF DecideIndex
    <3>4. CASE UNCHANGED index
      BY <3>3, <3>4, TablesKept
    <3>5. CASE seen[c] - Reserved >= QuotePoints[q]
               /\ index' = [index EXCEPT ![q] = [status |-> "reserved", points |-> QuotePoints[q], pass |-> None]]
      <4>1. /\ PromisedFor(q) = 0 /\ PromisedFor(q)' = QuotePoints[q]
            /\ \A r \in Quotes \ {q} : index'[r] = index[r]
        BY <3>1, <3>5 DEF PromisedFor, TypeOK
      <4>2. Reserved' = Reserved - PromisedFor(q) + PromisedFor(q)'
        BY <3>1, <3>3, <4>1, QuoteMovesReserved
      <4> QED
        BY <1>2, <1>3, <3>2, <3>5, <4>1, <4>2
    <3> QED
      BY <2>2, <3>u, <3>4, <3>5 DEF DecideIndex
  <2> QED
    BY <2>1, <2>2
<1>5. \A d \in BetweenReads' : d \in BetweenReads /\ seen'[d] = seen[d]
  <2>1. Idle.pc # "decide"
    BY DEF Idle
  <2> QED
    BY <1>1, <2>1, ReadersMove DEF TypeOK
<1>6. ~disturbed' /\ Solvent => Balance' >= Reserved'
  BY <1>1, <1>2, <1>3, <1>4 DEF Solvent
<1>7. Balance' >= Balance
  BY <1>2
<1> QED
  BY <1>1, <1>2, <1>5, <1>6, <1>7, StaysCovered

(* Settlement takes from the balance what it takes from the promises;      *)
(* releases and sweeps only take from the promises.                        *)
LEMMA OutcomesStayCovered ==
  ASSUME TypeOK, TypeOK', FreeOnPass, SolvencyInv, Outcome
  PROVE  SolvencyInv'
<1>1. IsFiniteSet(ledger) /\ UNCHANGED <<tx, seen>>
  BY DEF SolvencyInv, Outcome, SettleUsage, ReleaseUsage, SettleIndex, ReleaseIndex,
         SweepForState, WelcomeForState
<1>2. /\ Balance \in Int /\ Reserved \in Nat /\ Reserved' \in Nat
      /\ IsFiniteSet(ledger') => Balance' \in Int
      /\ UNCHANGED ledger => Balance' = Balance /\ IsFiniteSet(ledger')
      /\ UNCHANGED <<usage, index>> => Reserved' = Reserved
  BY <1>1, SumsHaveTypes, SumsKeepTypes, TablesKept DEF BalanceIsInt, ReservedIsNat
<1>3. BetweenReads' = BetweenReads /\ \A c \in BetweenReads' : seen'[c] = seen[c]
  BY <1>1, Zenon DEF BetweenReads
<1>4. ASSUME IsFiniteSet(ledger'), ~disturbed' => ~disturbed,
             ~disturbed' => Balance' >= Balance \/ BetweenReads' = {},
             ~disturbed' /\ Solvent => Balance' >= Reserved'
      PROVE  SolvencyInv'
  BY <1>3, <1>4, StaysCovered
<1>5. ASSUME NEW u \in Usages, SettleUsage(u)
      PROVE  SolvencyInv'
  <2>1. PICK k : k = usage[u].points
    OBVIOUS
  <2>2. /\ usage[u].status = "reserved" /\ UNCHANGED index /\ ledger' = Post(UsageRef(u), -k)
        /\ usage' = [usage EXCEPT ![u].status = "settled"]
    BY <1>5, <2>1 DEF SettleUsage
  <2>3. k \in Nat /\ -k \in Int
    BY <2>1 DEF TypeOK
  <2>4. IsFiniteSet(ledger') /\ (Balance' = Balance \/ Balance' = Balance + (-k))
    BY <1>1, <2>2, <2>3, PostedBalance
  <2>5. /\ Promised(u) = k /\ Promised(u)' = 0
        /\ \A v \in Usages \ {u} : usage'[v] = usage[v]
    BY <2>1, <2>2 DEF Promised, TypeOK
  <2>6. Reserved' = Reserved - k
    BY <1>2, <2>2, <2>3, <2>5, UseMovesReserved
  <2>7. ~disturbed' => ~disturbed /\ (k = 0 \/ BetweenReads' = {})
    <3>1. disturbed' = (disturbed \/ (k > 0 /\ BetweenReads # {}))
      BY <1>5, <2>1 DEF SettleUsage
    <3>2. k > 0 \/ k = 0
      BY <2>3
    <3> QED
      BY <1>3, <3>1, <3>2, Zenon
  <2>8. ~disturbed' => Balance' >= Balance \/ BetweenReads' = {}
    BY <1>2, <2>4, <2>7
  <2>9. Solvent => Balance' >= Reserved'
    BY <1>2, <2>3, <2>4, <2>6 DEF Solvent
  <2> QED
    BY <1>4, <2>4, <2>7, <2>8, <2>9
<1>6. ASSUME NEW q \in Quotes, SettleIndex(q)
      PROVE  SolvencyInv'
  <2>1. PICK k : k = index[q].points
    OBVIOUS
  <2>2. /\ index[q].status = "reserved" /\ UNCHANGED usage
        /\ index' = [index EXCEPT ![q].status = "settled"]
        /\ IF index[q].pass # None THEN UNCHANGED ledger ELSE ledger' = Post(IndexRef(q), -k)
    BY <1>6, <2>1 DEF SettleIndex
  <2>3. k \in Nat /\ -k \in Int /\ (index[q].pass # None => k = 0)
    BY <2>1 DEF TypeOK, FreeOnPass
  <2>4. IsFiniteSet(ledger') /\ (Balance' = Balance \/ Balance' = Balance + (-k))
    <3>1. CASE index[q].pass # None
      BY <1>2, <2>2, <3>1
    <3>2. CASE index[q].pass = None
      BY <1>1, <2>2, <2>3, <3>2, PostedBalance
    <3> QED
      BY <3>1, <3>2
  <2>5. /\ PromisedFor(q) = k /\ PromisedFor(q)' = 0
        /\ \A r \in Quotes \ {q} : index'[r] = index[r]
    BY <2>1, <2>2 DEF PromisedFor, TypeOK
  <2>6. Reserved' = Reserved - k
    BY <1>2, <2>2, <2>3, <2>5, QuoteMovesReserved
  <2>7. ~disturbed' => ~disturbed /\ (k = 0 \/ BetweenReads' = {})
    <3>1. disturbed' = (disturbed \/ (k > 0 /\ BetweenReads # {}))
      BY <1>6, <2>1 DEF SettleIndex
    <3>2. k > 0 \/ k = 0
      BY <2>3
    <3> QED
      BY <1>3, <3>1, <3>2, Zenon
  <2>8. ~disturbed' => Balance' >= Balance \/ BetweenReads' = {}
    BY <1>2, <2>4, <2>7
  <2>9. Solvent => Balance' >= Reserved'
    BY <1>2, <2>3, <2>4, <2>6 DEF Solvent
  <2> QED
    BY <1>4, <2>4, <2>7, <2>8, <2>9
<1>7. ASSUME UNCHANGED <<ledger, disturbed>>, Reserved' <= Reserved
      PROVE  SolvencyInv'
  BY <1>2, <1>4, <1>7 DEF Solvent
<1>8. ASSUME NEW u \in Usages, ReleaseUsage(u)
      PROVE  SolvencyInv'
  <2>1. /\ usage[u].status = "reserved" /\ UNCHANGED <<index, ledger, disturbed>>
        /\ usage' = [usage EXCEPT ![u].status = "released"]
    BY <1>8 DEF ReleaseUsage
  <2>2. /\ Promised(u) \in Nat /\ Promised(u)' = 0
        /\ \A v \in Usages \ {u} : usage'[v] = usage[v]
    BY <2>1 DEF Promised, TypeOK
  <2>3. Reserved' <= Reserved
    BY <1>2, <2>1, <2>2, UseMovesReserved
  <2> QED
    BY <1>7, <2>1, <2>3
<1>9. ASSUME NEW q \in Quotes, ReleaseIndex(q)
      PROVE  SolvencyInv'
  <2>1. /\ index[q].status = "reserved" /\ UNCHANGED <<usage, ledger, disturbed>>
        /\ index' = [index EXCEPT ![q].status = "released"]
    BY <1>9 DEF ReleaseIndex
  <2>2. /\ PromisedFor(q) \in Nat /\ PromisedFor(q)' = 0
        /\ \A r \in Quotes \ {q} : index'[r] = index[r]
    BY <2>1 DEF PromisedFor, TypeOK
  <2>3. Reserved' <= Reserved
    BY <1>2, <2>1, <2>2, QuoteMovesReserved
  <2> QED
    BY <1>7, <2>1, <2>3
<1>10. CASE SweepForState
  BY <1>7, <1>10, SweepMovesReserved DEF SweepForState
<1>11. CASE WelcomeForState
  <2>1. WelcomePoints \in Int /\ WelcomePoints >= 0
    BY ConstantsAssumption
  <2>2. UNCHANGED <<usage, index, disturbed>> /\ ledger' = Post(WelcomeRef, WelcomePoints)
    BY <1>11 DEF WelcomeForState
  <2>3. IsFiniteSet(ledger') /\ Balance' >= Balance
    BY <1>1, <1>2, <2>1, <2>2, PostedBalance
  <2> QED
    BY <1>2, <1>4, <2>2, <2>3 DEF Solvent
<1> QED
  BY <1>5, <1>6, <1>8, <1>9, <1>10, <1>11 DEF Outcome

\* What happens around the wallet leaves the reserve covered.
LEMMA EnvironmentStaysCovered ==
  ASSUME TypeOK, TypeOK', SolvencyInv, Environment \/ UNCHANGED vars
  PROVE  SolvencyInv'
<1>1. IsFiniteSet(ledger) /\ UNCHANGED <<usage, index, tx, seen>>
  BY DEF SolvencyInv, Environment, Credit, CheckAdjustment, CommitAdjustment, AgeUsage,
         PassStarts, PassEnds, vars
<1>2. /\ Balance \in Int /\ Reserved \in Nat /\ Reserved' = Reserved
      /\ IsFiniteSet(ledger') => Balance' \in Int
      /\ UNCHANGED ledger => Balance' = Balance /\ IsFiniteSet(ledger')
  BY <1>1, SumsHaveTypes, SumsKeepTypes, TablesKept DEF BalanceIsInt, ReservedIsNat
<1>3. BetweenReads' = BetweenReads /\ \A c \in BetweenReads' : seen'[c] = seen[c]
  BY <1>1, Zenon DEF BetweenReads
<1>4. ASSUME IsFiniteSet(ledger'), ~disturbed' => ~disturbed /\ Balance' >= Balance
      PROVE  SolvencyInv'
  BY <1>2, <1>3, <1>4, StaysCovered DEF Solvent
<1>5. ASSUME NEW r \in Credits, Credit(r)
      PROVE  SolvencyInv'
  <2>1. CreditPoints[r] \in Int /\ CreditPoints[r] >= 0
    BY ConstantsAssumption
  <2>2. UNCHANGED disturbed /\ ledger' = Post(CreditRef(r), CreditPoints[r])
    BY <1>5 DEF Credit
  <2>3. IsFiniteSet(ledger') /\ Balance' >= Balance
    BY <1>1, <1>2, <2>1, <2>2, PostedBalance
  <2> QED
    BY <1>4, <2>2, <2>3
<1>6. ASSUME NEW r \in Debits, CommitAdjustment(r)
      PROVE  SolvencyInv'
  <2>1. -DebitPoints[r] \in Int
    BY ConstantsAssumption
  <2>2. disturbed' = TRUE /\ ledger' = Post(DebitRef(r), -DebitPoints[r])
    BY <1>6 DEF CommitAdjustment
  <2>3. IsFiniteSet(ledger')
    BY <1>1, <2>1, <2>2, PostedBalance
  <2> QED
    BY <1>4, <2>2, <2>3
<1>7. CASE UNCHANGED <<ledger, disturbed>>
  BY <1>2, <1>4, <1>7
<1> QED
  BY <1>5, <1>6, <1>7 DEF Environment, CheckAdjustment, AgeUsage, PassStarts, PassEnds, vars

(* The points promised to unfinished work are covered, for any number of   *)
(* concurrent calls, sweeps, credits and crashes, until a settlement falls *)
(* between the two reads of a reserve call or an administrator debits the  *)
(* wallet (reserve_usage, reserve_index_quote, adjust_points).             *)
THEOREM PromisesAreCovered == Spec => []SolventUnlessDisturbed
<1>1. Init => SolvencyInv
  <2> SUFFICES ASSUME Init PROVE SolvencyInv
    OBVIOUS
  <2>1. IsFiniteSet(ledger) /\ BetweenReads = {}
    BY FS_EmptySet DEF Init, BetweenReads, Idle
  <2>2. ledger = {} /\ Held = {} /\ HeldQuotes = {}
    BY DEF Init, Held, HeldQuotes, NoUsage, NoIndex
  <2>3. Balance = 0 /\ Reserved = 0
    <3>1. \A F : Total(F, {}) = 0
      BY TotalAdds, FS_EmptySet
    <3> QED
      BY <2>1, <2>2, <3>1, TotalsNow DEF SumsAreTotals
  <2> QED
    BY <2>1, <2>3 DEF SolvencyInv, Covered, Solvent
<1>2. TypeOK /\ TypeOK' /\ InsertUnderLock /\ FreeOnPass /\ SolvencyInv /\ [Next]_vars => SolvencyInv'
  <2> SUFFICES ASSUME TypeOK, TypeOK', InsertUnderLock, FreeOnPass, SolvencyInv, [Next]_vars
               PROVE  SolvencyInv'
    OBVIOUS
  <2>1. ASSUME NEW c \in Callers, Call(c) \/ Advance(c) \/ AbortReserve(c)
        PROVE  SolvencyInv'
    BY <2>1, CallsStayCovered, DecisionsStayCovered DEF Advance
  <2> QED
    BY <2>1, OutcomesStayCovered, EnvironmentStaysCovered DEF Next
<1>3. SolvencyInv => SolventUnlessDisturbed
  BY DEF SolvencyInv, Covered, SolventUnlessDisturbed
<1> QED
  BY <1>1, <1>2, <1>3, TypeCorrect, InsertsAreSerialized, PassWorkIsFree, PTL DEF Spec
=============================================================================
