------------------------- MODULE PartnerProgramProofs -------------------------
(***************************************************************************)
(* Theorems about PartnerProgram, for any users, partners, orders, rates,  *)
(* amounts and number of connections: a user is rewarded under one         *)
(* programme, refunds reverse no more than was earned, and what is paid    *)
(* out was earned.                                                         *)
(***************************************************************************)
EXTENDS PartnerProgram, FiniteSetTheorems, WellFoundedInduction, TLAPS

Projections ==
  [op : {"project"}, rule : Nat, orders : SUBSET Orders, todo : SUBSET Orders,
   held : SUBSET Users, claimed : SUBSET Users, earned : SUBSET Orders]

Projecting(t) == tx[t].op = "project"

Shapes ==
  /\ joined \subseteq Partners /\ activated \subseteq Users /\ rule \in Nat
  /\ bound \in [Users -> Partners \cup {None, Direct}] /\ claim \in [Users -> Rewards]
  /\ \A e \in earnings : e.order \in Orders /\ e.partner \in Partners
  /\ tx = [t \in Threads |-> tx[t]]
  /\ \A t \in Threads : Projecting(t) => tx[t] \in Projections

\* The claims that one projection has in hand are locked for all others.
HeldApart ==
  \A s, t \in Threads : Projecting(s) /\ Projecting(t) /\ s # t => tx[s].held \cap tx[t].held = {}

\* What a projection will commit: claims that nobody has, of users a partner
\* brought, and earnings of the partner who has the claim by then.
SoundProjection(r) ==
  /\ r.todo \subseteq r.orders /\ r.claimed \subseteq r.held
  /\ \A o \in r.orders : bound[Buyer[o]] \in Partners
  /\ \A u \in r.claimed : claim[u] = None /\ bound[u] \in Partners
  /\ \A o \in r.earned :
       /\ o \in r.orders /\ Buyer[o] \in r.held
       /\ Buyer[o] \in r.claimed \/ claim[Buyer[o]] = bound[Buyer[o]]

RewardsInv ==
  /\ Shapes /\ HeldApart
  /\ \A t \in Threads : Projecting(t) => SoundProjection(tx[t])
  /\ OneReward

(* What a connection that does not project, or stops projecting, leaves.   *)
LEMMA OtherTransaction ==
  ASSUME RewardsInv, NEW t \in Threads, NEW r, r.op # "project", Goes(t, r),
         UNCHANGED <<joined, activated, rule, bound, claim, earnings>>
  PROVE  RewardsInv'
<1>1. \A s \in Threads : tx'[s] = IF s = t THEN r ELSE tx[s]
  BY DEF Goes, RewardsInv, Shapes
<1>2. Shapes'
  BY <1>1 DEF Goes, RewardsInv, Shapes, Projecting
<1>3. HeldApart'
  BY <1>1 DEF RewardsInv, HeldApart, Projecting
<1>4. \A s \in Threads : Projecting(s)' => SoundProjection(tx[s])'
  BY <1>1 DEF RewardsInv, Projecting, SoundProjection
<1>5. OneReward'
  BY DEF RewardsInv, OneReward
<1> QED
  BY <1>2, <1>3, <1>4, <1>5 DEF RewardsInv

(* Nothing that the invariant is about changes.                            *)
LEMMA Untouched ==
  ASSUME RewardsInv, UNCHANGED <<joined, activated, rule, bound, claim, earnings, tx>>
  PROVE  RewardsInv'
BY DEF RewardsInv, Shapes, HeldApart, OneReward, Projecting, SoundProjection

\* The invariant of the rewards holds at the start.
LEMMA Starts == ASSUME Init PROVE RewardsInv
BY ConstantsAssumption DEF Init, RewardsInv, Shapes, HeldApart, OneReward, Projecting, Idle, Rewards

(* A user that is bound now was in no projection and had no reward paid.   *)
LEMMA BindingIsNew ==
  ASSUME RewardsInv, NEW u \in Users, NEW l \in Partners \cup {Direct}, NEW active \in BOOLEAN,
         BindUser(u, l, active)
  PROVE  RewardsInv'
<1> USE DEF RewardsInv
<1>1. /\ bound[u] = None /\ bound' \in [Users -> Partners \cup {None, Direct}]
      /\ bound'[u] = l /\ \A v \in Users \ {u} : bound'[v] = bound[v]
  BY DEF BindUser, Shapes
<1>2. /\ claim' \in [Users -> Rewards] /\ \A v \in Users \ {u} : claim'[v] = claim[v]
      /\ claim[u] # None => claim'[u] = claim[u]
  BY DEF BindUser, Shapes, Rewards
<1>3. UNCHANGED <<joined, activated, rule, earnings, tx>>
  BY DEF BindUser, ledger
<1>4. Shapes' /\ HeldApart'
  BY <1>1, <1>2, <1>3 DEF Shapes, HeldApart, Projecting
<1>5. ASSUME NEW t \in Threads, Projecting(t) PROVE SoundProjection(tx[t])'
  <2>1. SoundProjection(tx[t]) /\ tx[t] \in Projections
    BY <1>5 DEF Shapes
  <2>2. None \notin Partners
    BY ConstantsAssumption
  <2>3. \A o \in tx[t].orders : Buyer[o] \in Users /\ Buyer[o] # u
    <3>1. Buyer \in [Orders -> Users] /\ tx[t].orders \subseteq Orders
      BY <2>1, ConstantsAssumption DEF Projections
    <3>2. \A o \in tx[t].orders : bound[Buyer[o]] \in Partners
      BY <2>1 DEF SoundProjection
    <3> QED
      BY <1>1, <2>2, <3>1, <3>2
  <2>4. \A v \in tx[t].claimed : v \in Users /\ v # u
    BY <1>1, <2>1, <2>2 DEF SoundProjection, Projections
  <2>5. tx[t].earned \subseteq tx[t].orders
    BY <2>1 DEF SoundProjection
  <2>6. \A o \in tx[t].orders :
          bound'[Buyer[o]] = bound[Buyer[o]] /\ claim'[Buyer[o]] = claim[Buyer[o]]
    BY <1>1, <1>2, <2>3
  <2>7. \A v \in tx[t].claimed : bound'[v] = bound[v] /\ claim'[v] = claim[v]
    BY <1>1, <1>2, <2>4
  <2> QED
    BY <1>3, <2>1, <2>5, <2>6, <2>7 DEF SoundProjection
<1>6. OneReward'
  BY <1>2, <1>3, ConstantsAssumption DEF OneReward, Shapes
<1> QED
  BY <1>3, <1>4, <1>5, <1>6 DEF Projecting

(* Points are taken only for a user that no projection has in hand and no  *)
(* partner has the claim to.                                               *)
LEMMA PointsAreFree ==
  ASSUME RewardsInv, NEW u \in Users, ActivateReferral(u)
  PROVE  RewardsInv'
<1> USE DEF RewardsInv
<1>1. /\ claim[u] \in {None, Points} /\ claim'[u] = Points
      /\ \A v \in Users \ {u} : claim'[v] = claim[v]
      /\ claim' \in [Users -> Rewards] /\ activated' = activated \cup {u}
  BY DEF ActivateReferral, Shapes, Rewards
<1>2. UNCHANGED <<joined, rule, bound, earnings, tx>>
  BY DEF ActivateReferral, ledger
<1>3. \A t \in Threads : Projecting(t) => u \notin tx[t].held
  BY DEF ActivateReferral, ClaimHeld, Projecting
<1>4. Shapes' /\ HeldApart'
  BY <1>1, <1>2 DEF Shapes, HeldApart, Projecting
<1>5. ASSUME NEW t \in Threads, Projecting(t) PROVE SoundProjection(tx[t])'
  <2>1. SoundProjection(tx[t]) /\ tx[t] \in Projections
    BY <1>5 DEF Shapes
  <2>2. \A v \in tx[t].held : v \in Users \ {u}
    BY <1>3, <1>5, <2>1 DEF Projections
  <2> QED
    BY <1>1, <1>2, <2>1, <2>2 DEF SoundProjection
<1>6. OneReward'
  BY <1>1, <1>2, ConstantsAssumption DEF OneReward, Shapes
<1> QED
  BY <1>2, <1>4, <1>5, <1>6 DEF Projecting

\* Taking a batch of orders up for projection keeps the invariant of the rewards.
LEMMA SelectionIsSound ==
  ASSUME RewardsInv, NEW t \in Threads, NEW batch, SelectOrders(t, batch)
  PROVE  RewardsInv'
<1> USE DEF RewardsInv
<1> DEFINE r == [op |-> "project", rule |-> rule, orders |-> batch, todo |-> batch,
                 held |-> {}, claimed |-> {}, earned |-> {}]
<1>1. \A s \in Threads : tx'[s] = IF s = t THEN r ELSE tx[s]
  BY DEF SelectOrders, Goes, Shapes
<1>2. UNCHANGED <<joined, activated, rule, bound, claim, earnings>>
  BY DEF SelectOrders, people, ledger
<1>3. \A o \in batch : o \in Orders /\ bound[Buyer[o]] \in Partners
  BY DEF SelectOrders, Unprojected, Shapes
<1>4. r \in Projections
  BY <1>3 DEF Projections, Shapes
<1>5. SoundProjection(r)
  BY <1>3 DEF SoundProjection
<1>6. Shapes'
  BY <1>1, <1>2, <1>4 DEF SelectOrders, Goes, Shapes, Projecting
<1>7. HeldApart'
  BY <1>1 DEF HeldApart, Projecting
<1>8. \A s \in Threads : Projecting(s)' => SoundProjection(tx[s])'
  BY <1>1, <1>2, <1>5 DEF Projecting, SoundProjection
<1>9. OneReward'
  BY <1>2 DEF OneReward
<1> QED
  BY <1>6, <1>7, <1>8, <1>9

(* The claim of the buyer is inserted or found under its lock.             *)
LEMMA ClaimIsLocked ==
  ASSUME RewardsInv, NEW t \in Threads, NEW o \in Orders, ProjectOrder(t, o)
  PROVE  RewardsInv'
<1> USE DEF RewardsInv
<1> DEFINE u == Buyer[o]
           r == [tx[t] EXCEPT !.todo = @ \ {o}, !.held = @ \cup {u},
                              !.claimed = IF claim[u] = None THEN @ \cup {u} ELSE @,
                              !.earned = IF Claimant(u) = bound[u] /\ Commission(Gross[o]) > 0
                                           THEN @ \cup {o} ELSE @]
<1>1. /\ Projecting(t) /\ o \in tx[t].todo /\ u \in Users
      /\ tx[t] \in Projections /\ SoundProjection(tx[t])
  BY ConstantsAssumption DEF ProjectOrder, Projecting, Shapes
<1>2. \A s \in Threads : tx'[s] = IF s = t THEN r ELSE tx[s]
  BY DEF ProjectOrder, Goes, Shapes
<1>3. UNCHANGED <<joined, activated, rule, bound, claim, earnings>>
  BY DEF ProjectOrder, people, ledger
<1>4. /\ r.op = "project" /\ r.orders = tx[t].orders /\ r.todo = tx[t].todo \ {o}
      /\ r.held = tx[t].held \cup {u}
      /\ r.claimed = IF claim[u] = None THEN tx[t].claimed \cup {u} ELSE tx[t].claimed
      /\ r.earned = IF Claimant(u) = bound[u] /\ Commission(Gross[o]) > 0
                      THEN tx[t].earned \cup {o} ELSE tx[t].earned
      /\ r \in Projections
  BY <1>1 DEF Projections
<1> HIDE DEF r
<1>5. bound[u] \in Partners
  BY <1>1 DEF SoundProjection
<1>6. SoundProjection(r)
  BY <1>1, <1>4, <1>5 DEF SoundProjection, Claimant
<1>7. \A s \in Threads \ {t} : Projecting(s) => u \notin tx[s].held
  BY DEF ProjectOrder, ClaimHeld, Projecting
<1>8. Shapes'
  BY <1>2, <1>3, <1>4 DEF ProjectOrder, Goes, Shapes, Projecting
<1>9. HeldApart'
  BY <1>1, <1>2, <1>4, <1>7 DEF HeldApart, Projecting
<1>10. \A s \in Threads : Projecting(s)' => SoundProjection(tx[s])'
  BY <1>2, <1>3, <1>6 DEF Projecting, SoundProjection
<1>11. OneReward'
  BY <1>3 DEF OneReward
<1> QED
  BY <1>8, <1>9, <1>10, <1>11

(* The claims and earnings of a projection come to hold together.          *)
LEMMA CommitKeepsRewards ==
  ASSUME RewardsInv, NEW t \in Threads, CommitProjection(t)
  PROVE  RewardsInv'
<1> USE DEF RewardsInv
<1>1. Projecting(t) /\ tx[t] \in Projections /\ SoundProjection(tx[t])
  BY DEF CommitProjection, Projecting, Shapes
<1>2. \A s \in Threads : tx'[s] = IF s = t THEN Idle ELSE tx[s]
  BY DEF CommitProjection, Goes, Shapes
<1>3. UNCHANGED <<joined, activated, rule, bound>>
  BY DEF CommitProjection
<1>4. \A u \in Users : claim'[u] = IF u \in tx[t].claimed THEN bound[u] ELSE claim[u]
  BY DEF CommitProjection
<1>5. \A u \in tx[t].claimed : u \in Users /\ claim[u] = None /\ bound[u] \in Partners
  BY <1>1 DEF SoundProjection, Projections
<1>6. \A e \in earnings' :
        \/ e \in earnings
        \/ /\ e.order \in tx[t].earned
           /\ e.partner = bound[Buyer[e.order]]
  BY DEF CommitProjection
<1>7. \A o \in tx[t].earned : o \in Orders /\ Buyer[o] \in Users /\ bound[Buyer[o]] \in Partners
                              /\ claim'[Buyer[o]] = bound[Buyer[o]]
  <2> SUFFICES ASSUME NEW o \in tx[t].earned
               PROVE  o \in Orders /\ Buyer[o] \in Users /\ bound[Buyer[o]] \in Partners
                      /\ claim'[Buyer[o]] = bound[Buyer[o]]
    OBVIOUS
  <2>1. o \in Orders /\ Buyer[o] \in Users
    BY <1>1, ConstantsAssumption DEF Projections
  <2>2. /\ bound[Buyer[o]] \in Partners
        /\ Buyer[o] \in tx[t].claimed \/ claim[Buyer[o]] = bound[Buyer[o]]
    BY <1>1 DEF SoundProjection
  <2> QED
    BY <1>4, <2>1, <2>2
<1>8. Shapes'
  <2>1. claim' \in [Users -> Rewards]
    BY <1>5 DEF CommitProjection, Shapes, Rewards
  <2>2. \A e \in earnings' : e.order \in Orders /\ e.partner \in Partners
    BY <1>6, <1>7 DEF Shapes
  <2> QED
    BY <1>2, <1>3, <2>1, <2>2 DEF CommitProjection, Goes, Shapes, Projecting, Idle
<1>9. HeldApart'
  BY <1>2 DEF HeldApart, Projecting, Idle
<1>10. ASSUME NEW s \in Threads, Projecting(s)' PROVE SoundProjection(tx[s])'
  <2>1. s # t /\ tx'[s] = tx[s] /\ Projecting(s)
    BY <1>2, <1>10 DEF Projecting, Idle
  <2>2. SoundProjection(tx[s]) /\ tx[s] \in Projections
    BY <2>1 DEF Shapes
  <2>3. \A u \in tx[s].held : u \in Users /\ u \notin tx[t].claimed
    BY <1>1, <2>1, <2>2 DEF HeldApart, SoundProjection, Projections
  <2>4. \A u \in tx[s].held : bound'[u] = bound[u] /\ claim'[u] = claim[u]
    BY <1>3, <1>4, <2>3
  <2>5. bound' = bound /\ tx'[s] = tx[s] /\ tx[s].claimed \subseteq tx[s].held
    BY <1>3, <2>1, <2>2 DEF SoundProjection
  <2>6. \A o \in tx[s].earned : Buyer[o] \in tx[s].held
    BY <2>2 DEF SoundProjection
  <2> QED
    BY <2>2, <2>4, <2>5, <2>6 DEF SoundProjection
<1>11. OneReward'
  <2>1. \A u \in activated' : claim'[u] = Points
    BY <1>3, <1>4, <1>5, ConstantsAssumption DEF OneReward, Shapes
  <2>2. \A e \in earnings : claim'[Buyer[e.order]] = e.partner
    BY <1>4, <1>5, ConstantsAssumption DEF OneReward, Shapes
  <2> QED
    BY <1>6, <1>7, <2>1, <2>2 DEF OneReward
<1> QED
  BY <1>8, <1>9, <1>10, <1>11

\* Every step keeps the invariant of the rewards.
LEMMA StepsKeepRewards ==
  ASSUME RewardsInv, [Next]_vars
  PROVE  RewardsInv'
<1> USE DEF ledger, people
<1>1. CASE UNCHANGED vars
  BY <1>1, Untouched DEF vars
<1>2. CASE SwitchActivity
  BY <1>2, Untouched DEF SwitchActivity
<1>3. CASE Tick
  BY <1>3, Untouched DEF Tick
<1>4. CASE NewRule
  <2>1. UNCHANGED <<joined, activated, bound, claim, earnings, tx>> /\ rule' \in Nat
    BY <1>4 DEF NewRule, RewardsInv, Shapes
  <2> QED
    BY <2>1 DEF RewardsInv, Shapes, HeldApart, OneReward, Projecting, SoundProjection
<1>5. ASSUME NEW p \in Partners, Join(p) PROVE RewardsInv'
  <2>1. UNCHANGED <<activated, rule, bound, claim, earnings, tx>> /\ joined' \subseteq Partners
    BY <1>5 DEF Join, RewardsInv, Shapes
  <2> QED
    BY <2>1 DEF RewardsInv, Shapes, HeldApart, OneReward, Projecting, SoundProjection
<1>6. ASSUME NEW o \in Orders, PayOrder(o) PROVE RewardsInv'
  BY <1>6, Untouched DEF PayOrder
<1>7. ASSUME NEW k \in payouts, NEW status, DecidePayout(k, status) PROVE RewardsInv'
  BY <1>7, Untouched DEF DecidePayout
<1>8. ASSUME NEW t \in Threads, Work(t) PROVE RewardsInv'
  <2> DEFINE Quiet == UNCHANGED <<joined, activated, rule, bound, claim, earnings>>
  <2>1. ASSUME NEW batch, SelectOrders(t, batch) PROVE RewardsInv'
    BY <2>1, SelectionIsSound
  <2>2. ASSUME NEW o \in Orders, ProjectOrder(t, o) PROVE RewardsInv'
    BY <2>2, ClaimIsLocked
  <2>3. CASE CommitProjection(t)
    BY <2>3, CommitKeepsRewards
  <2>4. ASSUME NEW e, NEW ref, RepeatedRefund(t, e, ref) PROVE RewardsInv'
    BY <2>4, Untouched DEF RepeatedRefund
  <2>5. ASSUME NEW e, NEW ref, NEW cents, LockEarning(t, e, ref, cents) PROVE RewardsInv'
    <3> DEFINE r == [op |-> "refund", order |-> e.order, rule |-> e.rule, ref |-> ref,
                     gross |-> AdjustedGross(e, cents), cents |-> Reversal(e, cents)]
    <3>1. r.op # "project" /\ Goes(t, r) /\ Quiet
      BY <2>5 DEF LockEarning
    <3> HIDE DEF r
    <3> QED
      BY <3>1, OtherTransaction
  <2>6. CASE InsertReversal(t)
    BY <2>6, OtherTransaction DEF InsertReversal, Idle
  <2>7. ASSUME NEW p, AskPayout(t, p) PROVE RewardsInv'
    <3>1. Goes(t, [op |-> "ask", partner |-> p, at |-> now]) /\ Quiet
      BY <2>7 DEF AskPayout
    <3> QED
      BY <3>1, OtherTransaction
  <2>8. CASE SumAvailable(t)
    <3> DEFINE p == tx[t].partner
               r == [op |-> "payout", partner |-> p, at |-> tx[t].at,
                     cents |-> Available(p, tx[t].at)]
    <3>1. Quiet /\ (Goes(t, r) \/ Goes(t, Idle))
      BY <2>8 DEF SumAvailable
    <3>2. r.op # "project" /\ Idle.op # "project"
      BY DEF Idle
    <3> HIDE DEF r
    <3> QED
      BY <3>1, <3>2, OtherTransaction
  <2>9. CASE InsertPayout(t)
    BY <2>9, OtherTransaction DEF InsertPayout, Idle
  <2>10. CASE Abort(t)
    BY <2>10, OtherTransaction DEF Abort, Idle
  <2> QED
    BY <1>8, <2>1, <2>2, <2>3, <2>4, <2>5, <2>6, <2>7, <2>8, <2>9, <2>10 DEF Work
<1> QED
  BY <1>1, <1>2, <1>3, <1>4, <1>5, <1>6, <1>7, <1>8, BindingIsNew, PointsAreFree DEF Next

(* A user is rewarded under one programme and for one partner, in whatever *)
(* order activations, first visits and projections of paid orders meet.    *)
THEOREM RewardedOnce == Spec => []OneReward
<1>1. RewardsInv => OneReward
  BY DEF RewardsInv
<1> QED
  BY Starts, StepsKeepRewards, <1>1, PTL DEF Spec

-----------------------------------------------------------------------------
(* Sums over finite sets                                                   *)

\* The element that a fold over a set takes first.
Pick(s) == CHOOSE x \in s : TRUE

\* g adds F up over every part of S, an element at a time.
Adds(g, F, S) ==
  g = [s \in SUBSET S |-> IF s = {} THEN 0 ELSE F[Pick(s)] + g[s \ {Pick(s)}]]

Total(F, S) == (CHOOSE g : Adds(g, F, S))[S]

(* Every collection of parts of a finite set has a least one.  Instead of  *)
(* induction over a set, the lemmas below look at the least part that      *)
(* would refute them.                                                      *)
LEMMA LeastSet ==
  ASSUME NEW S, IsFiniteSet(S), NEW T, T \subseteq SUBSET S, T # {}
  PROVE  \E X \in T : \A Y \in T : Y \subseteq X => Y = X
<1>1. IsWellFoundedOn(StrictSubsetOrdering(S), SUBSET S)
  BY FS_StrictSubsetOrderingWellFounded, FS_FiniteSubsetsOfFinite
<1>2. PICK X \in T : \A Y \in T : ~ (<<Y, X>> \in StrictSubsetOrdering(S))
  BY <1>1, WFMin
<1> QED
  BY <1>2 DEF StrictSubsetOrdering

\* What is picked from a set is in it.
LEMMA PickIsMember == ASSUME NEW S, S # {} PROVE Pick(S) \in S
BY DEF Pick

\* A function that adds up, read at one part of the set.
LEMMA AddsUp ==
  ASSUME NEW F, NEW S, NEW g, Adds(g, F, S), NEW X \in SUBSET S
  PROVE  g[X] = IF X = {} THEN 0 ELSE F[Pick(X)] + g[X \ {Pick(X)}]
BY Zenon DEF Adds

(* A part has one sum, whatever it is a part of, and it has one.           *)
LEMMA OneSum ==
  ASSUME NEW F, NEW S, IsFiniteSet(S), NEW T, NEW g, Adds(g, F, S), NEW h, Adds(h, F, T),
         NEW X \in SUBSET (S \cap T)
  PROVE  g[X] = h[X]
<1> DEFINE D == {Y \in SUBSET (S \cap T) : g[Y] # h[Y]}
<1> SUFFICES ASSUME g[X] # h[X] PROVE FALSE
  OBVIOUS
<1>1. IsFiniteSet(S \cap T) /\ X \in D /\ D \subseteq SUBSET (S \cap T)
  BY FS_Subset
<1>2. PICK Y \in D : \A Z \in D : Z \subseteq Y => Z = Y
  <2> HIDE DEF D
  <2> QED
    BY <1>1, LeastSet
<1>3. g[Y] # h[Y] /\ Y \in SUBSET S /\ Y \in SUBSET T
  BY <1>2
<1>4. g[Y] = IF Y = {} THEN 0 ELSE F[Pick(Y)] + g[Y \ {Pick(Y)}]
  BY <1>3, AddsUp
<1>5. h[Y] = IF Y = {} THEN 0 ELSE F[Pick(Y)] + h[Y \ {Pick(Y)}]
  BY <1>3, AddsUp
<1>6. Y # {}
  BY <1>3, <1>4, <1>5
<1>7. Pick(Y) \in Y
  BY <1>6, PickIsMember
<1>8. Y \ {Pick(Y)} \notin D
  BY <1>2, <1>7
<1> QED
  BY <1>3, <1>4, <1>5, <1>6, <1>8

\* A finite set has a function that adds up its parts: no least part could lack one.
LEMMA SumExists ==
  ASSUME NEW F, NEW S, IsFiniteSet(S)
  PROVE  \E g : Adds(g, F, S)
<1> DEFINE D == {X \in SUBSET S : ~ \E g : Adds(g, F, X)}
<1> SUFFICES ASSUME ~ \E g : Adds(g, F, S) PROVE FALSE
  OBVIOUS
<1>1. S \in D /\ D \subseteq SUBSET S
  OBVIOUS
<1>2. PICK X \in D : \A Z \in D : Z \subseteq X => Z = X
  <2> HIDE DEF D
  <2> QED
    BY <1>1, LeastSet
<1>3. ASSUME NEW Y \in SUBSET X, Y # X
      PROVE  /\ IsFiniteSet(Y) /\ Adds(CHOOSE g : Adds(g, F, Y), F, Y)
  <2>1. Y \notin D /\ Y \in SUBSET S
    BY <1>2, <1>3
  <2>2. \E g : Adds(g, F, Y)
    BY <2>1
  <2> QED
    BY <2>1, <2>2, FS_Subset
<1> DEFINE v == [Y \in SUBSET X |-> IF Y = {} THEN 0 ELSE F[Pick(Y)] + Total(F, Y \ {Pick(Y)})]
<1>4. ASSUME NEW Y \in SUBSET X, Y # X
      PROVE  v[Y] = Total(F, Y)
  <2> DEFINE h == CHOOSE g : Adds(g, F, Y)
  <2>1. Adds(h, F, Y) /\ IsFiniteSet(Y) /\ Total(F, Y) = h[Y]
    BY <1>3, <1>4 DEF Total
  <2>2. h[Y] = IF Y = {} THEN 0 ELSE F[Pick(Y)] + h[Y \ {Pick(Y)}]
    BY <2>1, AddsUp
  <2>3. CASE Y = {}
    BY <2>1, <2>2, <2>3
  <2>4. CASE Y # {}
    <3> DEFINE Z == Y \ {Pick(Y)}
               k == CHOOSE g : Adds(g, F, Z)
    <3>1. Z \in SUBSET X /\ Z # X /\ Z \in SUBSET (Y \cap Z)
      BY <2>4, PickIsMember
    <3>2. Adds(k, F, Z) /\ Total(F, Z) = k[Z]
      BY <3>1, <1>3 DEF Total
    <3> HIDE DEF h, k, Z
    <3>3. h[Z] = k[Z]
      BY <2>1, <3>1, <3>2, OneSum
    <3>4. h[Y] = F[Pick(Y)] + Total(F, Z)
      BY <2>2, <2>4, <3>2, <3>3 DEF Z
    <3> QED
      BY <3>4, <2>1, <2>4, <1>4 DEF Z
  <2> QED
    BY <2>3, <2>4
<1>5. ASSUME NEW Y \in SUBSET X, Y # {}
      PROVE  v[Y \ {Pick(Y)}] = Total(F, Y \ {Pick(Y)})
  <2>1. Pick(Y) \in Y
    BY <1>5, PickIsMember
  <2>2. Y \ {Pick(Y)} \in SUBSET X /\ Y \ {Pick(Y)} # X
    BY <2>1
  <2> HIDE DEF v
  <2> QED
    BY <2>2, <1>4
<1>6. Adds(v, F, X)
  <2>1. v = [Y \in SUBSET X |-> IF Y = {} THEN 0 ELSE F[Pick(Y)] + v[Y \ {Pick(Y)}]]
    BY <1>5
  <2> HIDE DEF v
  <2> QED
    BY <2>1, Zenon DEF Adds
<1> QED
  BY <1>2, <1>6

\* There is one such function: any of them gives the total.
LEMMA SumIsTotal ==
  ASSUME NEW F, NEW S, IsFiniteSet(S), NEW g, Adds(g, F, S)
  PROVE  g[S] = Total(F, S)
<1>1. Adds(CHOOSE h : Adds(h, F, S), F, S)
  BY Zenon
<1> QED
  BY <1>1, OneSum DEF Total

(* A total in terms of the one without the first element, and so without   *)
(* any element, whichever is taken first.                                  *)
LEMMA TotalAdds ==
  ASSUME NEW F, NEW S, IsFiniteSet(S)
  PROVE  Total(F, S) = IF S = {} THEN 0 ELSE F[Pick(S)] + Total(F, S \ {Pick(S)})
<1> DEFINE g == CHOOSE x : Adds(x, F, S)
           T == S \ {Pick(S)}
           h == CHOOSE x : Adds(x, F, T)
<1> HIDE DEF T
<1>1. Adds(g, F, S) /\ Total(F, S) = g[S]
  BY SumExists DEF Total
<1>2. IsFiniteSet(T) /\ T \in SUBSET (S \cap T)
  BY FS_Subset DEF T
<1>3. Adds(h, F, T) /\ Total(F, T) = h[T]
  BY <1>2, SumExists DEF Total
<1> HIDE DEF g, h
<1>4. g[T] = h[T]
  BY <1>1, <1>2, <1>3, OneSum
<1>5. g[S] = IF S = {} THEN 0 ELSE F[Pick(S)] + g[T]
  BY <1>1, AddsUp DEF T
<1> QED
  BY <1>1, <1>3, <1>4, <1>5 DEF T

\* The total of integers is one.
LEMMA TotalIsInt ==
  ASSUME NEW F, NEW S, IsFiniteSet(S), \A x \in S : F[x] \in Int
  PROVE  Total(F, S) \in Int
<1> DEFINE D == {X \in SUBSET S : Total(F, X) \notin Int}
<1> SUFFICES ASSUME Total(F, S) \notin Int PROVE FALSE
  OBVIOUS
<1>1. S \in D /\ D \subseteq SUBSET S
  OBVIOUS
<1>2. PICK X \in D : \A Z \in D : Z \subseteq X => Z = X
  <2> HIDE DEF D
  <2> QED
    BY <1>1, LeastSet
<1>3. X \in SUBSET S /\ IsFiniteSet(X)
  BY <1>2, FS_Subset
<1>4. Total(F, X) = IF X = {} THEN 0 ELSE F[Pick(X)] + Total(F, X \ {Pick(X)})
  BY <1>3, TotalAdds
<1>5. CASE X = {}
  BY <1>2, <1>4, <1>5
<1>6. CASE X # {}
  <2>1. Pick(X) \in X
    BY <1>6, PickIsMember
  <2>2. X \ {Pick(X)} \notin D /\ X \ {Pick(X)} \in SUBSET S
    BY <1>2, <1>3, <2>1
  <2>3. Total(F, X \ {Pick(X)}) \in Int /\ F[Pick(X)] \in Int
    BY <1>3, <2>1, <2>2
  <2> QED
    BY <1>2, <1>4, <1>6, <2>3
<1> QED
  BY <1>5, <1>6

\* Any member can be taken off a total first, not only the one that is picked.
LEMMA TotalOfRest ==
  ASSUME NEW F, NEW S, IsFiniteSet(S), \A x \in S : F[x] \in Int
  PROVE  \A x \in S : Total(F, S) = F[x] + Total(F, S \ {x})
<1> DEFINE Fits(X) == \A x \in X : Total(F, X) = F[x] + Total(F, X \ {x})
           D == {X \in SUBSET S : ~Fits(X)}
<1> SUFFICES ASSUME ~Fits(S) PROVE FALSE
  OBVIOUS
<1>1. S \in D /\ D \subseteq SUBSET S
  OBVIOUS
<1>2. PICK X \in D : \A Z \in D : Z \subseteq X => Z = X
  <2> HIDE DEF D
  <2> QED
    BY <1>1, LeastSet
<1>3. X \in SUBSET S /\ IsFiniteSet(X) /\ ~Fits(X)
  BY <1>2, FS_Subset
<1>4. ASSUME NEW Y \in SUBSET X
      PROVE  Total(F, Y) \in Int
  BY <1>3, FS_Subset, TotalIsInt
<1>5. ASSUME NEW Y \in SUBSET X, Y # X
      PROVE  Fits(Y)
  BY <1>2, <1>3, <1>5
<1>6. PICK x \in X : Total(F, X) # F[x] + Total(F, X \ {x})
  BY <1>3
<1> DEFINE c == Pick(X)
<1>7. c \in X /\ F[c] \in Int /\ F[x] \in Int
  BY <1>3, PickIsMember
<1> HIDE DEF Fits, D
<1>8. Total(F, X) = F[c] + Total(F, X \ {c})
  BY <1>3, <1>6, TotalAdds
<1> HIDE DEF c
<1>9. x # c
  BY <1>6, <1>8
<1> DEFINE R == (X \ {x}) \ {c}
<1>10. Total(F, X \ {c}) = F[x] + Total(F, R)
  <2>1. X \ {c} \in SUBSET X /\ X \ {c} # X /\ x \in X \ {c}
    BY <1>7, <1>9
  <2>2. Total(F, X \ {c}) = F[x] + Total(F, (X \ {c}) \ {x})
    BY <2>1, <1>5 DEF Fits
  <2>3. (X \ {c}) \ {x} = R
    OBVIOUS
  <2> QED
    BY <2>2, <2>3
<1>11. Total(F, X \ {x}) = F[c] + Total(F, R)
  <2>1. X \ {x} \in SUBSET X /\ X \ {x} # X /\ c \in X \ {x}
    BY <1>7, <1>9
  <2> QED
    BY <2>1, <1>5 DEF Fits
<1>12. Total(F, R) \in Int
  BY <1>4
<1> HIDE DEF R
<1>13. Total(F, X) = F[c] + (F[x] + Total(F, R))
  BY <1>8, <1>10
<1>14. F[x] + Total(F, X \ {x}) = F[x] + (F[c] + Total(F, R))
  BY <1>11
<1>15. Total(F, X) = F[x] + Total(F, X \ {x})
  BY <1>7, <1>12, <1>13, <1>14
<1> QED
  BY <1>6, <1>15

(* Adding an element; and no part has more than the whole.                *)
LEMMA TotalWithOneMore ==
  ASSUME NEW F, NEW S, IsFiniteSet(S), NEW x, x \notin S, \A y \in S \cup {x} : F[y] \in Int
  PROVE  Total(F, S \cup {x}) = F[x] + Total(F, S)
<1>1. IsFiniteSet(S \cup {x}) /\ (S \cup {x}) \ {x} = S
  BY FS_AddElement
<1> QED
  BY <1>1, TotalOfRest

\* The total of naturals is one.
LEMMA TotalIsNat ==
  ASSUME NEW F, NEW S, IsFiniteSet(S), \A x \in S : F[x] \in Nat
  PROVE  Total(F, S) \in Nat
<1> DEFINE D == {X \in SUBSET S : Total(F, X) \notin Nat}
<1> SUFFICES ASSUME Total(F, S) \notin Nat PROVE FALSE
  OBVIOUS
<1>1. S \in D /\ D \subseteq SUBSET S
  OBVIOUS
<1>2. PICK X \in D : \A Z \in D : Z \subseteq X => Z = X
  <2> HIDE DEF D
  <2> QED
    BY <1>1, LeastSet
<1>3. X \in SUBSET S /\ IsFiniteSet(X)
  BY <1>2, FS_Subset
<1>4. Total(F, X) = IF X = {} THEN 0 ELSE F[Pick(X)] + Total(F, X \ {Pick(X)})
  BY <1>3, TotalAdds
<1>5. X # {} => Pick(X) \in X
  BY PickIsMember
<1>6. X # {} => X \ {Pick(X)} \notin D /\ X \ {Pick(X)} \in SUBSET S
  BY <1>2, <1>3, <1>5
<1>7. X # {} => Total(F, X \ {Pick(X)}) \in Nat /\ F[Pick(X)] \in Nat
  BY <1>3, <1>5, <1>6
<1> QED
  BY <1>2, <1>4, <1>7

\* The total of naturals over a part is at most the total over the whole.
LEMMA TotalOfPart ==
  ASSUME NEW F, NEW S, IsFiniteSet(S), \A x \in S : F[x] \in Nat, NEW T \in SUBSET S
  PROVE  Total(F, T) <= Total(F, S)
<1> DEFINE D == {X \in SUBSET (S \ T) : ~(Total(F, T) <= Total(F, T \cup X))}
<1>0. IsFiniteSet(S \ T) /\ T \cup (S \ T) = S
  BY FS_Subset
<1> SUFFICES ASSUME ~(Total(F, T) <= Total(F, S)) PROVE FALSE
  OBVIOUS
<1>1. S \ T \in D /\ D \subseteq SUBSET (S \ T)
  BY <1>0
<1>2. PICK X \in D : \A Z \in D : Z \subseteq X => Z = X
  <2> HIDE DEF D
  <2> QED
    BY <1>0, <1>1, LeastSet
<1>3. Total(F, T) \in Nat
  BY FS_Subset, TotalIsNat
<1>4. CASE X = {}
  <2>1. T \cup X = T
    BY <1>4
  <2>2. Total(F, T \cup X) = Total(F, T)
    BY <2>1, Zenon
  <2>3. Total(F, T) <= Total(F, T \cup X)
    BY <1>3, <2>2
  <2> QED
    BY <1>2, <2>3
<1>5. CASE X # {}
  <2>1. PICK x \in X : TRUE
    BY <1>5
  <2> DEFINE Y == T \cup (X \ {x})
  <2>2. x \notin Y /\ Y \cup {x} = T \cup X /\ Y \in SUBSET S /\ x \in S
    BY <1>2, <2>1
  <2>3. IsFiniteSet(Y) /\ Total(F, Y) \in Nat
    BY <2>2, FS_Subset, TotalIsNat
  <2>4. X \ {x} \notin D
    BY <1>2, <2>1
  <2>5. Total(F, T) <= Total(F, Y)
    BY <2>4, <1>2
  <2> HIDE DEF Y
  <2>6. Total(F, Y \cup {x}) = F[x] + Total(F, Y)
    BY <2>2, <2>3, TotalWithOneMore
  <2>7. F[x] \in Nat
    BY <2>2
  <2>8. Total(F, T \cup X) = F[x] + Total(F, Y)
    BY <2>2, <2>6, Zenon
  <2>9. Total(F, T) <= Total(F, T \cup X)
    BY <1>3, <2>3, <2>5, <2>7, <2>8
  <2> QED
    BY <1>2, <2>9
<1> QED
  BY <1>4, <1>5

-----------------------------------------------------------------------------
(* Sums of the ledger                                                      *)

EarningRows == [order : Orders, rule : Nat, partner : Partners, cents : Nat]
ReversalRows == [order : Orders, rule : Nat, ref : Refs, gross : Nat, cents : Nat]
PayoutRows == [partner : Partners, period : Nat, cents : Nat,
               status : {"requested", "approved", "rejected", "paid"}]

\* What each row counts for.
EarnedBy == [e \in EarningRows |-> e.cents]
RefundedBy == [x \in ReversalRows |-> x.gross]
ReversedBy == [x \in ReversalRows |-> x.cents]
PaidBy == [k \in PayoutRows |-> k.cents]

\* The rows that the sums range over.
EarningsOf(p, at) == {e \in earnings : e.partner = p /\ Eligible(e.order, at)}
RefundsOf(o, r) == {x \in reversals : x.order = o /\ x.rule = r}
RefundsOfPartner(p, at) ==
  {x \in reversals : /\ Eligible(x.order, at)
                     /\ \E e \in earnings : e.order = x.order /\ e.rule = x.rule /\ e.partner = p}
PayoutsOf(p) == {k \in payouts : k.partner = p /\ k.status # "rejected"}

LedgerOK ==
  /\ earnings \subseteq EarningRows /\ IsFiniteSet(earnings)
  /\ reversals \subseteq ReversalRows /\ IsFiniteSet(reversals)
  /\ payouts \subseteq PayoutRows /\ IsFiniteSet(payouts)

(* A sum of the code, folded from a choice of the set, is a total.         *)
LEMMA SumOfCents ==
  ASSUME NEW F, NEW S, IsFiniteSet(S), \A x \in S : F[x] = x.cents
  PROVE  MapThenSumSet(LAMBDA x : x.cents, S) = Total(F, S)
<1> DEFINE Q(g) == g = [s \in SUBSET S |-> IF s = {} THEN 0 ELSE Pick(s).cents + g[s \ {Pick(s)}]]
           h == CHOOSE g : Q(g)
<1>1. \A s \in SUBSET S : s # {} => F[Pick(s)] = Pick(s).cents
  BY PickIsMember
<1>2. ASSUME NEW g
      PROVE  [s \in SUBSET S |-> IF s = {} THEN 0 ELSE Pick(s).cents + g[s \ {Pick(s)}]]
             = [s \in SUBSET S |-> IF s = {} THEN 0 ELSE F[Pick(s)] + g[s \ {Pick(s)}]]
  BY <1>1
<1>3. \A g : Q(g) <=> Adds(g, F, S)
  BY <1>2, Zenon DEF Adds
<1>4. \E g : Q(g)
  BY <1>3, SumExists
<1>5. Adds(h, F, S)
  <2>1. Q(h)
    BY <1>4, Zenon
  <2> HIDE DEF Q, h
  <2> QED
    BY <2>1, <1>3
<1>6. MapThenSumSet(LAMBDA x : x.cents, S) = h[S]
  BY Zenon DEF MapThenSumSet, MapThenFoldSet, Pick
<1> HIDE DEF h
<1> QED
  BY <1>5, <1>6, SumIsTotal

\* The gross amounts that are summed are a total.
LEMMA SumOfGross ==
  ASSUME NEW F, NEW S, IsFiniteSet(S), \A x \in S : F[x] = x.gross
  PROVE  MapThenSumSet(LAMBDA x : x.gross, S) = Total(F, S)
<1> DEFINE Q(g) == g = [s \in SUBSET S |-> IF s = {} THEN 0 ELSE Pick(s).gross + g[s \ {Pick(s)}]]
           h == CHOOSE g : Q(g)
<1>1. \A s \in SUBSET S : s # {} => F[Pick(s)] = Pick(s).gross
  BY PickIsMember
<1>2. ASSUME NEW g
      PROVE  [s \in SUBSET S |-> IF s = {} THEN 0 ELSE Pick(s).gross + g[s \ {Pick(s)}]]
             = [s \in SUBSET S |-> IF s = {} THEN 0 ELSE F[Pick(s)] + g[s \ {Pick(s)}]]
  BY <1>1
<1>3. \A g : Q(g) <=> Adds(g, F, S)
  BY <1>2, Zenon DEF Adds
<1>4. \E g : Q(g)
  BY <1>3, SumExists
<1>5. Adds(h, F, S)
  <2>1. Q(h)
    BY <1>4, Zenon
  <2> HIDE DEF Q, h
  <2> QED
    BY <2>1, <1>3
<1>6. MapThenSumSet(LAMBDA x : x.gross, S) = h[S]
  BY Zenon DEF MapThenSumSet, MapThenFoldSet, Pick
<1> HIDE DEF h
<1> QED
  BY <1>5, <1>6, SumIsTotal

\* The sums of the code are totals of rows.
SumsAreTotals ==
  LedgerOK =>
    /\ \A p, at : Earned(p, at) = Total(EarnedBy, EarningsOf(p, at))
    /\ \A p, at : Reversed(p, at) = Total(ReversedBy, RefundsOfPartner(p, at))
    /\ \A p : Reserved(p) = Total(PaidBy, PayoutsOf(p))
    /\ \A e : /\ RefundedGross(e) = Total(RefundedBy, RefundsOf(e.order, e.rule))
              /\ ReversedCents(e) = Total(ReversedBy, RefundsOf(e.order, e.rule))

\* Sums and totals agree in a state.
LEMMA TotalsNow == SumsAreTotals
<1> SUFFICES ASSUME LedgerOK PROVE SumsAreTotals
  BY DEF SumsAreTotals
<1>1. ASSUME NEW p, NEW at PROVE Earned(p, at) = Total(EarnedBy, EarningsOf(p, at))
  <2>1. /\ EarningsOf(p, at) \subseteq earnings /\ IsFiniteSet(EarningsOf(p, at))
        /\ \A e \in EarningsOf(p, at) : EarnedBy[e] = e.cents
    BY FS_Subset DEF LedgerOK, EarningsOf, EarnedBy
  <2>2. MapThenSumSet(LAMBDA x : x.cents, EarningsOf(p, at)) = Total(EarnedBy, EarningsOf(p, at))
    BY <2>1, SumOfCents, Zenon
  <2> QED
    BY <2>2, Zenon DEF Earned, EarningsOf
<1>2. ASSUME NEW p, NEW at PROVE Reversed(p, at) = Total(ReversedBy, RefundsOfPartner(p, at))
  <2>1. /\ RefundsOfPartner(p, at) \subseteq reversals /\ IsFiniteSet(RefundsOfPartner(p, at))
        /\ \A x \in RefundsOfPartner(p, at) : ReversedBy[x] = x.cents
    BY FS_Subset DEF LedgerOK, RefundsOfPartner, ReversedBy
  <2>2. MapThenSumSet(LAMBDA x : x.cents, RefundsOfPartner(p, at))
          = Total(ReversedBy, RefundsOfPartner(p, at))
    BY <2>1, SumOfCents, Zenon
  <2> QED
    BY <2>2, Zenon DEF Reversed, RefundsOfPartner
<1>3. ASSUME NEW p PROVE Reserved(p) = Total(PaidBy, PayoutsOf(p))
  <2>1. /\ PayoutsOf(p) \subseteq payouts /\ IsFiniteSet(PayoutsOf(p))
        /\ \A k \in PayoutsOf(p) : PaidBy[k] = k.cents
    BY FS_Subset DEF LedgerOK, PayoutsOf, PaidBy
  <2>2. MapThenSumSet(LAMBDA x : x.cents, PayoutsOf(p)) = Total(PaidBy, PayoutsOf(p))
    BY <2>1, SumOfCents, Zenon
  <2> QED
    BY <2>2, Zenon DEF Reserved, PayoutsOf
<1>4. ASSUME NEW e
      PROVE  /\ RefundedGross(e) = Total(RefundedBy, RefundsOf(e.order, e.rule))
             /\ ReversedCents(e) = Total(ReversedBy, RefundsOf(e.order, e.rule))
  <2> DEFINE S == RefundsOf(e.order, e.rule)
  <2>1. /\ S \subseteq reversals /\ IsFiniteSet(S)
        /\ \A x \in S : RefundedBy[x] = x.gross
        /\ \A x \in S : ReversedBy[x] = x.cents
    BY FS_Subset DEF LedgerOK, RefundsOf, ReversedBy, RefundedBy
  <2>2. S = ReversalsOf(e)
    BY DEF RefundsOf, ReversalsOf
  <2> HIDE DEF S
  <2>3. MapThenSumSet(LAMBDA x : x.gross, S) = Total(RefundedBy, S)
    BY <2>1, SumOfGross, Zenon
  <2>4. MapThenSumSet(LAMBDA x : x.cents, S) = Total(ReversedBy, S)
    BY <2>1, SumOfCents, Zenon
  <2>5. MapThenSumSet(LAMBDA x : x.gross, ReversalsOf(e)) = Total(RefundedBy, S)
    BY <2>2, <2>3, Zenon
  <2>6. MapThenSumSet(LAMBDA x : x.cents, ReversalsOf(e)) = Total(ReversedBy, S)
    BY <2>2, <2>4, Zenon
  <2>7. RefundedGross(e) = Total(RefundedBy, S)
    BY <2>5, Zenon DEF RefundedGross
  <2>8. ReversedCents(e) = Total(ReversedBy, S)
    BY <2>6, Zenon DEF ReversedCents
  <2> QED
    BY <2>7, <2>8 DEF S
<1> QED
  BY <1>1, <1>2, <1>3, <1>4, Zenon DEF SumsAreTotals

\* Sums and totals agree in the next state.
LEMMA TotalsNext == SumsAreTotals'
BY TotalsNow, PTL

-----------------------------------------------------------------------------
(* Refunds and payouts in hand                                             *)

Refunding(t) == tx[t].op = "refund"
Asking(t) == tx[t].op \in {"ask", "payout"}
Paying(t) == tx[t].op = "payout"

RefundInHand == [op : {"refund"}, order : Orders, rule : Nat, ref : Refs, gross : Nat, cents : Nat]

\* The commission on the whole order.
Whole(o) == Commission(Gross[o])

Refunded(o, r) == Total(RefundedBy, RefundsOf(o, r))
Undone(o, r) == Total(ReversedBy, RefundsOf(o, r))

\* Of order o, a gross amount can be refunded and cents of the commission undone.
Fits(o, gross, cents) ==
  gross <= Gross[o] /\ cents <= Whole(o) /\ (gross = Gross[o] => cents = Whole(o))

RefundFits(x) ==
  Fits(x.order, Refunded(x.order, x.rule) + x.gross, Undone(x.order, x.rule) + x.cents)

\* Whatever the rule, the refunds of an order fit into it, with the one that
\* holds the lock of its earning.
RefundsInv ==
  /\ \A e \in earnings : e.cents = Whole(e.order)
  /\ \A o \in Orders, r \in Nat : Fits(o, Refunded(o, r), Undone(o, r))
  /\ \A t \in Threads : Refunding(t) => tx[t] \in RefundInHand /\ RefundFits(tx[t])
  /\ \A s, t \in Threads :
       Refunding(s) /\ Refunding(t) /\ s # t => ~(tx[s].order = tx[t].order /\ tx[s].rule = tx[t].rule)

\* A request that has been summed is covered by what was earned by its clock.
Covered(x) == x.cents \in Nat /\ Reserved(x.partner) + x.cents <= Earned(x.partner, x.at)

\* One request per partner is in hand, and with it no more is requested than
\* was earned.
PayoutsInv ==
  /\ now \in Nat /\ paidAt \in [Orders -> Nat]
  /\ \A t \in Threads : Asking(t) => tx[t].partner \in Partners /\ tx[t].at \in Nat /\ tx[t].at <= now
  /\ \A t \in Threads : Paying(t) => Covered(tx[t])
  /\ \A s, t \in Threads : Paying(s) /\ Paying(t) /\ s # t => tx[s].partner # tx[t].partner
  /\ PaidOutWasEarned

AccountsInv == RewardsInv /\ LedgerOK /\ RefundsInv /\ PayoutsInv

\* A commission is never negative, and none is due on nothing.
LEMMA CommissionIsNat == Commission(0) = 0 /\ \A n \in Nat : Commission(n) \in Nat
<1>1. RateBps \in Nat
  BY ConstantsAssumption
<1>2. \A n \in Nat : n * RateBps \in Nat
  BY <1>1
<1>3. 0 * RateBps = 0
  BY <1>1
<1>4. \A x \in Nat : x \div 10000 \in Nat
  OBVIOUS
<1>5. 0 \div 10000 = 0
  OBVIOUS
<1> QED
  BY <1>2, <1>3, <1>4, <1>5 DEF Commission

\* Neither the gross amount nor the whole commission of an order is negative.
LEMMA WholeIsNat == \A o \in Orders : Gross[o] \in Nat /\ Whole(o) \in Nat
BY CommissionIsNat, ConstantsAssumption DEF Whole

(* Totals of the ledger are natural numbers.                               *)
LEMMA SumsAreNat ==
  ASSUME LedgerOK
  PROVE  /\ \A o, r : Refunded(o, r) \in Nat /\ Undone(o, r) \in Nat
         /\ \A p : Reserved(p) \in Nat
         /\ \A p, at : Earned(p, at) \in Nat /\ Reversed(p, at) \in Nat
<1>1. ASSUME NEW o, NEW r PROVE Refunded(o, r) \in Nat /\ Undone(o, r) \in Nat
  <2>1. RefundsOf(o, r) \subseteq reversals /\ IsFiniteSet(RefundsOf(o, r))
    BY FS_Subset DEF LedgerOK, RefundsOf
  <2>2. \A x \in RefundsOf(o, r) : RefundedBy[x] \in Nat /\ ReversedBy[x] \in Nat
    BY <2>1 DEF LedgerOK, RefundedBy, ReversedBy, ReversalRows
  <2> QED
    BY <2>1, <2>2, TotalIsNat DEF Refunded, Undone
<1>2. ASSUME NEW p PROVE Reserved(p) \in Nat
  <2>1. PayoutsOf(p) \subseteq payouts /\ IsFiniteSet(PayoutsOf(p))
    BY FS_Subset DEF LedgerOK, PayoutsOf
  <2>2. \A k \in PayoutsOf(p) : PaidBy[k] \in Nat
    BY <2>1 DEF LedgerOK, PaidBy, PayoutRows
  <2> QED
    BY <2>1, <2>2, TotalIsNat, TotalsNow DEF SumsAreTotals
<1>3. ASSUME NEW p, NEW at PROVE Earned(p, at) \in Nat
  <2>1. EarningsOf(p, at) \subseteq earnings /\ IsFiniteSet(EarningsOf(p, at))
    BY FS_Subset DEF LedgerOK, EarningsOf
  <2>2. \A e \in EarningsOf(p, at) : EarnedBy[e] \in Nat
    BY <2>1 DEF LedgerOK, EarnedBy, EarningRows
  <2> QED
    BY <2>1, <2>2, TotalIsNat, TotalsNow DEF SumsAreTotals
<1>4. ASSUME NEW p, NEW at PROVE Reversed(p, at) \in Nat
  <2>1. RefundsOfPartner(p, at) \subseteq reversals /\ IsFiniteSet(RefundsOfPartner(p, at))
    BY FS_Subset DEF LedgerOK, RefundsOfPartner
  <2>2. \A x \in RefundsOfPartner(p, at) : ReversedBy[x] \in Nat
    BY <2>1 DEF LedgerOK, ReversedBy, ReversalRows
  <2> QED
    BY <2>1, <2>2, TotalIsNat, TotalsNow DEF SumsAreTotals
<1> QED
  BY <1>1, <1>2, <1>3, <1>4

NaturalSums ==
  LedgerOK => (\A p : Reserved(p) \in Nat) /\ (\A p, at : Earned(p, at) \in Nat)

\* The sums over the reward ledger are naturals.
LEMMA SumsOfLedger == NaturalSums
BY SumsAreNat DEF NaturalSums

\* They are in the next state too.
LEMMA SumsOfNextLedger == NaturalSums'
BY SumsOfLedger, PTL

(* What was earned by a time is earned at a later one too.                 *)
LEMMA EarnedGrows ==
  ASSUME LedgerOK, LedgerOK', earnings \subseteq earnings',
         \A o \in Orders : paidAt[o] \in Nat,
         \A o \in Orders : paidAt[o] > 0 => paidAt'[o] = paidAt[o],
         NEW p, NEW at \in Nat, NEW later \in Nat, at <= later
  PROVE  Earned(p, at) <= Earned(p, later)'
<1>1. EarningsOf(p, at) \subseteq EarningsOf(p, later)'
  BY ConstantsAssumption DEF EarningsOf, Eligible, LedgerOK, EarningRows
<1>2. EarningsOf(p, later)' \subseteq earnings' /\ IsFiniteSet(EarningsOf(p, later)')
  BY FS_Subset DEF LedgerOK, EarningsOf
<1>3. \A e \in EarningsOf(p, later)' : EarnedBy[e] \in Nat
  BY <1>2 DEF LedgerOK, EarnedBy, EarningRows
<1>4. Total(EarnedBy, EarningsOf(p, at)) <= Total(EarnedBy, EarningsOf(p, later)')
  BY <1>1, <1>2, <1>3, TotalOfPart
<1> QED
  BY <1>4, TotalsNow, TotalsNext DEF SumsAreTotals

(* The sums depend on the rows that they range over only.                  *)
LEMMA EarnedStands ==
  ASSUME LedgerOK, LedgerOK', UNCHANGED <<earnings, paidAt>>
  PROVE  \A p, at : Earned(p, at)' = Earned(p, at)
<1> SUFFICES ASSUME NEW p, NEW at PROVE Earned(p, at)' = Earned(p, at)
  OBVIOUS
<1>1. EarningsOf(p, at)' = EarningsOf(p, at)
  BY DEF EarningsOf, Eligible
<1> QED
  BY <1>1, TotalsNow, TotalsNext DEF SumsAreTotals

\* What a payout has reserved only changes with the payouts.
LEMMA ReservedStands ==
  ASSUME LedgerOK, LedgerOK', UNCHANGED payouts
  PROVE  \A p : Reserved(p)' = Reserved(p)
<1> SUFFICES ASSUME NEW p PROVE Reserved(p)' = Reserved(p)
  OBVIOUS
<1>1. PayoutsOf(p)' = PayoutsOf(p)
  BY DEF PayoutsOf
<1> QED
  BY <1>1, TotalsNow, TotalsNext DEF SumsAreTotals

(* The clock of a step's end, as a constant.                               *)
LEMMA EarnedByThen ==
  ASSUME NEW later, later = now', \A p \in Partners : Reserved(p)' <= Earned(p, later)'
  PROVE  PaidOutWasEarned'
<1>1. \A p \in Partners : Earned(p, now)' = Earned(p, later)'
  BY DEF Earned, Eligible
<1> QED
  BY <1>1 DEF PaidOutWasEarned

(* A step that neither locks nor reverses an earning.                      *)
LEMMA RefundsStand ==
  ASSUME RefundsInv, UNCHANGED reversals, \A e \in earnings' : e.cents = Whole(e.order),
         \A t \in Threads : Refunding(t)' => tx'[t] = tx[t]
  PROVE  RefundsInv'
<1>1. \A o, r : Refunded(o, r)' = Refunded(o, r) /\ Undone(o, r)' = Undone(o, r)
  BY DEF Refunded, Undone, RefundsOf
<1>2. \A t \in Threads : Refunding(t)' => Refunding(t)
  BY DEF Refunding
<1> QED
  BY <1>1, <1>2 DEF RefundsInv, RefundFits, Fits, Whole

(* A step after which no partner has more requested, and that ends or      *)
(* starts no request of a payout but to ask for one.                       *)
LEMMA PayoutsStand ==
  ASSUME LedgerOK, LedgerOK', PayoutsInv, earnings \subseteq earnings',
         now' \in Nat, now <= now', paidAt' \in [Orders -> Nat],
         \A o \in Orders : paidAt[o] > 0 => paidAt'[o] = paidAt[o],
         \A p \in Partners : Reserved(p)' <= Reserved(p),
         \A t \in Threads : Paying(t)' => tx'[t] = tx[t],
         \A t \in Threads : Asking(t)' =>
           \/ tx'[t] = tx[t]
           \/ tx'[t].partner \in Partners /\ tx'[t].at \in Nat /\ tx'[t].at <= now'
  PROVE  PayoutsInv'
<1>1. \A o \in Orders : paidAt[o] \in Nat
  BY DEF PayoutsInv
<1>2. /\ \A p \in Partners : Reserved(p) \in Nat /\ Reserved(p)' \in Nat
      /\ \A p, at : Earned(p, at) \in Nat /\ Earned(p, at)' \in Nat
  BY SumsAreNat, SumsOfNextLedger DEF NaturalSums
<1>3. \A t \in Threads :
        Asking(t)' => tx'[t].partner \in Partners /\ tx'[t].at \in Nat /\ tx'[t].at <= now'
  <2> SUFFICES ASSUME NEW t \in Threads, Asking(t)'
               PROVE  tx'[t].partner \in Partners /\ tx'[t].at \in Nat /\ tx'[t].at <= now'
    OBVIOUS
  <2>1. CASE tx'[t] = tx[t]
    BY <2>1 DEF PayoutsInv, Asking
  <2> QED
    BY <2>1
<1>4. ASSUME NEW t \in Threads, Paying(t)' PROVE Covered(tx[t])'
  <2>1. tx'[t] = tx[t] /\ Paying(t) /\ Asking(t)
    BY <1>4 DEF Paying, Asking
  <2>2. PICK p, at : p = tx[t].partner /\ at = tx[t].at
    OBVIOUS
  <2>3. p \in Partners /\ at \in Nat /\ Covered(tx[t])
    BY <2>1, <2>2 DEF PayoutsInv
  <2>4. Reserved(p) + tx[t].cents <= Earned(p, at) /\ tx[t].cents \in Nat
    BY <2>2, <2>3 DEF Covered, Reserved, Earned, Eligible
  <2>5. Earned(p, at) <= Earned(p, at)'
    BY <1>1, <2>3, EarnedGrows
  <2>6. Reserved(p)' <= Reserved(p)
    BY <2>3
  <2>7. Reserved(p)' + tx[t].cents <= Earned(p, at)'
    BY <1>2, <2>3, <2>4, <2>5, <2>6
  <2>8. p = tx'[t].partner /\ at = tx'[t].at /\ tx'[t].cents = tx[t].cents
    BY <2>1, <2>2
  <2> QED
    BY <2>4, <2>7, <2>8 DEF Covered, Reserved, Earned, Eligible
<1>5. \A s, t \in Threads : Paying(s)' /\ Paying(t)' /\ s # t => tx'[s].partner # tx'[t].partner
  BY DEF PayoutsInv, Paying
<1>6. PaidOutWasEarned'
  <2> SUFFICES ASSUME NEW p \in Partners PROVE Reserved(p)' <= Earned(p, now)'
    BY DEF PaidOutWasEarned
  <2>1. PICK then, later : then = now /\ later = now'
    OBVIOUS
  <2>2. Earned(p, then) <= Earned(p, later)'
    BY <1>1, <2>1, EarnedGrows DEF PayoutsInv
  <2>3. Earned(p, later)' = Earned(p, now)'
    BY <2>1 DEF Earned
  <2>4. Reserved(p) <= Earned(p, then)
    BY <2>1 DEF PayoutsInv, PaidOutWasEarned
  <2> QED
    BY <1>2, <2>2, <2>3, <2>4
<1> QED
  BY <1>3, <1>4, <1>5, <1>6 DEF PayoutsInv

(* Connection t turns to r.                                                *)
LEMMA TransactionTurns ==
  ASSUME RewardsInv, NEW t \in Threads, NEW r, Goes(t, r)
  PROVE  \A s \in Threads : tx'[s] = IF s = t THEN r ELSE tx[s]
BY DEF Goes, RewardsInv, Shapes

(* What a refund reverses, computed under the lock of the earning.         *)
LEMMA AdjustmentFits ==
  ASSUME LedgerOK, RefundsInv, NEW e \in earnings, NEW cents \in Nat,
         AdjustedGross(e, cents) > 0, Reversal(e, cents) > 0
  PROVE  /\ AdjustedGross(e, cents) \in Nat /\ Reversal(e, cents) \in Nat
         /\ Fits(e.order, Refunded(e.order, e.rule) + AdjustedGross(e, cents),
                 Undone(e.order, e.rule) + Reversal(e, cents))
<1>1. e.order \in Orders /\ e.rule \in Nat /\ e.cents = Whole(e.order)
  BY DEF LedgerOK, EarningRows, RefundsInv
<1>2. PICK o, r, G, U, g, c :
        /\ o = e.order /\ r = e.rule /\ G = Refunded(o, r) /\ U = Undone(o, r)
        /\ g = AdjustedGross(e, cents) /\ c = Reversal(e, cents)
  OBVIOUS
<1>3. G \in Nat /\ U \in Nat /\ Gross[o] \in Nat /\ Whole(o) \in Nat /\ Fits(o, G, U)
  BY <1>1, <1>2, SumsAreNat, WholeIsNat DEF RefundsInv
<1>4. RefundedGross(e) = G /\ ReversedCents(e) = U
  BY <1>2, TotalsNow DEF SumsAreTotals, Refunded, Undone
<1>5. g = IF Gross[o] - G < cents THEN Gross[o] - G ELSE cents
  BY <1>2, <1>4, Zenon DEF AdjustedGross, Lesser
<1>6. g \in Nat /\ g > 0 /\ g <= Gross[o] - G
  BY <1>2, <1>3, <1>5 DEF Fits
<1>7. c = IF g = Gross[o] - G THEN Whole(o) - U
          ELSE IF Whole(o) - U < Commission(g) THEN Whole(o) - U ELSE Commission(g)
  BY <1>1, <1>2, <1>4, Zenon DEF Reversal, Lesser
<1>8. Commission(g) \in Nat
  BY <1>6, CommissionIsNat
<1>9. c \in Nat /\ c <= Whole(o) - U /\ (g = Gross[o] - G => c = Whole(o) - U)
  <2>1. c > 0
    BY <1>2
  <2>2. PICK m, n : m = Commission(g) /\ n = Whole(o)
    OBVIOUS
  <2> QED
    BY <1>3, <1>7, <1>8, <2>1, <2>2 DEF Fits
<1>10. Fits(o, G + g, U + c)
  BY <1>3, <1>6, <1>9 DEF Fits
<1> QED
  BY <1>2, <1>6, <1>9, <1>10

(* The lock of an earning admits one refund of it.                         *)
LEMMA LockedRefundFits ==
  ASSUME LedgerOK, RewardsInv, RefundsInv, NEW t \in Threads, NEW e \in earnings, NEW ref \in Refs,
         NEW cents \in Nat, LockEarning(t, e, ref, cents)
  PROVE  RefundsInv'
<1>1. PICK r : r = [op |-> "refund", order |-> e.order, rule |-> e.rule, ref |-> ref,
                    gross |-> AdjustedGross(e, cents), cents |-> Reversal(e, cents)]
  OBVIOUS
<1>2. /\ \A s \in Threads : tx'[s] = IF s = t THEN r ELSE tx[s]
      /\ ~EarningHeld(e.order, e.rule) /\ UNCHANGED <<earnings, reversals>>
  BY <1>1, TransactionTurns DEF LockEarning, ledger
<1>3. e.order \in Orders /\ e.rule \in Nat
  BY DEF LedgerOK, EarningRows
<1>4. r \in RefundInHand /\ r.order = e.order /\ r.rule = e.rule /\ RefundFits(r)
  BY <1>1, <1>3, AdjustmentFits DEF LockEarning, RefundInHand, RefundFits
<1>5. \A o, n : Refunded(o, n)' = Refunded(o, n) /\ Undone(o, n)' = Undone(o, n)
  BY <1>2 DEF Refunded, Undone, RefundsOf
<1>6. \A e1 \in earnings' : e1.cents = Whole(e1.order)
  BY <1>2 DEF RefundsInv
<1>7. \A o \in Orders, n \in Nat : Fits(o, Refunded(o, n)', Undone(o, n)')
  BY <1>5 DEF RefundsInv
<1>8. \A s \in Threads : Refunding(s)' => tx'[s] \in RefundInHand /\ RefundFits(tx'[s])
  BY <1>2, <1>4 DEF RefundsInv, Refunding
<1>9. \A s, u \in Threads : Refunding(s)' /\ Refunding(u)' /\ s # u
         => ~(tx'[s].order = tx'[u].order /\ tx'[s].rule = tx'[u].rule)
  BY <1>2, <1>4 DEF RefundsInv, Refunding, EarningHeld
<1>10. \A s \in Threads : Refunding(s)' => RefundFits(tx[s])'
  BY <1>5, <1>8 DEF RefundFits, Fits, Whole
<1> QED
  BY <1>6, <1>7, <1>8, <1>9, <1>10 DEF RefundsInv, Whole, Fits

(* The entry is what was set aside, or there is one of that reference.     *)
LEMMA InsertedRefundFits ==
  ASSUME LedgerOK, RewardsInv, RefundsInv, NEW t \in Threads, InsertReversal(t)
  PROVE  RefundsInv' /\ reversals' \subseteq ReversalRows /\ IsFiniteSet(reversals')
<1>1. PICK o, r, x : /\ o = tx[t].order /\ r = tx[t].rule
                     /\ x = [order |-> o, rule |-> r, ref |-> tx[t].ref,
                             gross |-> tx[t].gross, cents |-> tx[t].cents]
  OBVIOUS
<1>2. /\ Refunding(t) /\ UNCHANGED earnings
      /\ \A s \in Threads : tx'[s] = IF s = t THEN Idle ELSE tx[s]
  BY TransactionTurns DEF InsertReversal, Refunding
<1>3. tx[t] \in RefundInHand /\ RefundFits(tx[t])
  BY <1>2 DEF RefundsInv
<1>4. /\ o \in Orders /\ r \in Nat /\ x.order = o /\ x.rule = r /\ x \in ReversalRows
      /\ x.gross \in Nat /\ x.cents \in Nat
      /\ Fits(o, Refunded(o, r) + x.gross, Undone(o, r) + x.cents)
  BY <1>1, <1>3 DEF RefundInHand, ReversalRows, RefundFits
<1>5. CASE reversals' = reversals
  <2>1. \A s \in Threads : Refunding(s)' => tx'[s] = tx[s]
    BY <1>2 DEF Refunding, Idle
  <2>2. \A e \in earnings' : e.cents = Whole(e.order)
    BY <1>2 DEF RefundsInv
  <2> QED
    BY <1>5, <2>1, <2>2, RefundsStand DEF LedgerOK
<1>6. CASE reversals' = reversals \cup {x} /\ x \notin reversals
  <2>1. reversals' \subseteq ReversalRows /\ IsFiniteSet(reversals')
    BY <1>4, <1>6, FS_AddElement DEF LedgerOK
  <2>2. RefundsOf(o, r)' = RefundsOf(o, r) \cup {x} /\ x \notin RefundsOf(o, r)
    BY <1>4, <1>6 DEF RefundsOf
  <2>3. IsFiniteSet(RefundsOf(o, r)) /\ RefundsOf(o, r) \subseteq reversals
    BY FS_Subset DEF RefundsOf, LedgerOK
  <2>4. \A y \in RefundsOf(o, r) \cup {x} :
          RefundedBy[y] = y.gross /\ y.gross \in Nat /\ ReversedBy[y] = y.cents /\ y.cents \in Nat
    BY <1>4, <2>3 DEF RefundedBy, ReversedBy, ReversalRows, LedgerOK
  <2>5. Refunded(o, r)' = Refunded(o, r) + x.gross /\ Undone(o, r)' = Undone(o, r) + x.cents
    <3>1. PICK S : S = RefundsOf(o, r)
      OBVIOUS
    <3>2. /\ Total(RefundedBy, S \cup {x}) = RefundedBy[x] + Total(RefundedBy, S)
          /\ Total(ReversedBy, S \cup {x}) = ReversedBy[x] + Total(ReversedBy, S)
      BY <2>2, <2>3, <2>4, <3>1, TotalWithOneMore
    <3>3. Refunded(o, r) \in Nat /\ Undone(o, r) \in Nat
      BY SumsAreNat
    <3> QED
      BY <1>4, <2>2, <2>4, <3>1, <3>2, <3>3 DEF Refunded, Undone
  <2>6. ASSUME NEW p, NEW n, p # o \/ n # r
        PROVE  Refunded(p, n)' = Refunded(p, n) /\ Undone(p, n)' = Undone(p, n)
    <3>1. RefundsOf(p, n)' = RefundsOf(p, n)
      BY <1>4, <1>6, <2>6 DEF RefundsOf
    <3> QED
      BY <3>1 DEF Refunded, Undone
  <2>7. \A p \in Orders, n \in Nat : Fits(p, Refunded(p, n)', Undone(p, n)')
    <3> SUFFICES ASSUME NEW p \in Orders, NEW n \in Nat
                 PROVE  Fits(p, Refunded(p, n)', Undone(p, n)')
      OBVIOUS
    <3>1. CASE p = o /\ n = r
      BY <1>4, <2>5, <3>1
    <3>2. CASE p # o \/ n # r
      BY <2>6, <3>2 DEF RefundsInv
    <3> QED
      BY <3>1, <3>2
  <2>8. ASSUME NEW s \in Threads, Refunding(s)'
        PROVE  tx'[s] \in RefundInHand /\ RefundFits(tx[s])' /\ tx'[s] = tx[s] /\ s # t /\ Refunding(s)
    <3>1. tx'[s] = tx[s] /\ s # t /\ Refunding(s)
      BY <1>2, <2>8 DEF Refunding, Idle
    <3>2. PICK p, n : p = tx[s].order /\ n = tx[s].rule
      OBVIOUS
    <3>3. ~(p = o /\ n = r) /\ tx[s] \in RefundInHand /\ RefundFits(tx[s])
      BY <1>1, <1>2, <3>1, <3>2 DEF RefundsInv
    <3>4. Fits(p, Refunded(p, n)' + tx[s].gross, Undone(p, n)' + tx[s].cents)
      BY <2>6, <3>2, <3>3 DEF RefundFits
    <3>5. p = tx'[s].order /\ n = tx'[s].rule
      BY <3>1, <3>2
    <3> QED
      BY <3>1, <3>3, <3>4, <3>5 DEF RefundFits, Refunded, Undone, RefundsOf, Fits, Whole
  <2>9. \A s, u \in Threads : Refunding(s)' /\ Refunding(u)' /\ s # u
          => ~(tx'[s].order = tx'[u].order /\ tx'[s].rule = tx'[u].rule)
    BY <2>8 DEF RefundsInv
  <2>10. \A e \in earnings' : e.cents = Whole(e.order)
    BY <1>2 DEF RefundsInv
  <2> QED
    BY <2>1, <2>7, <2>8, <2>9, <2>10 DEF RefundsInv, Fits, Whole
<1>7. reversals' = reversals \/ (reversals' = reversals \cup {x} /\ x \notin reversals)
  BY <1>1 DEF InsertReversal
<1> QED
  BY <1>5, <1>6, <1>7

(* What is available of a partner's commissions was earned and is not      *)
(* asked for yet.                                                          *)
LEMMA SummedPayoutIsCovered ==
  ASSUME LedgerOK, RewardsInv, PayoutsInv, NEW t \in Threads, SumAvailable(t)
  PROVE  PayoutsInv'
<1>1. PICK p, at, c : p = tx[t].partner /\ at = tx[t].at /\ c = Available(p, at)
  OBVIOUS
<1>2. PICK r : r = [op |-> "payout", partner |-> p, at |-> at, cents |-> c]
  OBVIOUS
<1>3. /\ tx[t].op = "ask" /\ ~PayoutHeld(p)
      /\ UNCHANGED <<earnings, payouts, reversals, paidAt, now>>
      /\ Goes(t, Idle) \/ (Goes(t, r) /\ c >= Minimum)
  BY <1>1, <1>2 DEF SumAvailable, ledger
<1>4. p \in Partners /\ at \in Nat /\ at <= now
  BY <1>1, <1>3 DEF PayoutsInv, Asking
<1>5. LedgerOK' /\ now \in Nat /\ paidAt \in [Orders -> Nat]
  BY <1>3 DEF LedgerOK, PayoutsInv
<1>6. CASE Goes(t, Idle)
  <2>1. \A s \in Threads : tx'[s] = IF s = t THEN Idle ELSE tx[s]
    BY <1>6, TransactionTurns
  <2>2. \A q \in Partners : Reserved(q)' <= Reserved(q)
    BY <1>3, <1>5, SumsAreNat, ReservedStands
  <2>3. /\ \A s \in Threads : Paying(s)' => tx'[s] = tx[s]
        /\ \A s \in Threads : Asking(s)' => tx'[s] = tx[s]
    BY <2>1 DEF Paying, Asking, Idle
  <2> QED
    BY <1>3, <1>5, <2>2, <2>3, PayoutsStand
<1>7. CASE Goes(t, r) /\ c >= Minimum
  <2>1. /\ \A s \in Threads : tx'[s] = IF s = t THEN r ELSE tx[s]
        /\ r.op = "payout" /\ r.partner = p /\ r.at = at /\ r.cents = c
    BY <1>2, <1>7, TransactionTurns
  <2>2. /\ Earned(p, at) \in Nat /\ Reversed(p, at) \in Nat /\ Reserved(p) \in Nat
        /\ c = Earned(p, at) - Reversed(p, at) - Reserved(p)
    BY <1>1, SumsAreNat, Zenon DEF Available
  <2>3. c \in Nat /\ Reserved(p) + c <= Earned(p, at)
    BY <1>7, <2>2, ConstantsAssumption
  <2>4. \A q, then : Reserved(q)' = Reserved(q) /\ Earned(q, then)' = Earned(q, then)
    BY <1>3, <1>5, ReservedStands, EarnedStands
  <2>5. ASSUME NEW s \in Threads, Paying(s)' PROVE Covered(tx[s])'
    <3>1. PICK q, then, n : q = tx'[s].partner /\ then = tx'[s].at /\ n = tx'[s].cents
      OBVIOUS
    <3>2. n \in Nat /\ Reserved(q) + n <= Earned(q, then)
      <4>1. CASE s = t
        <5>1. q = p /\ then = at /\ n = c
          BY <2>1, <3>1, <4>1
        <5> QED
          BY <2>3, <5>1 DEF Reserved, Earned, Eligible
      <4>2. CASE s # t
        <5>1. q = tx[s].partner /\ then = tx[s].at /\ n = tx[s].cents /\ Paying(s)
          BY <2>1, <2>5, <3>1, <4>2 DEF Paying
        <5>2. Covered(tx[s])
          BY <5>1 DEF PayoutsInv
        <5> QED
          BY <5>1, <5>2 DEF Covered, Reserved, Earned, Eligible
      <4> QED
        BY <4>1, <4>2
    <3>3. n \in Nat /\ Reserved(q)' + n <= Earned(q, then)'
      BY <2>4, <3>2
    <3> QED
      BY <3>1, <3>3 DEF Covered, Reserved, Earned, Eligible
  <2>6. PaidOutWasEarned'
    <3>1. PICK later : later = now
      OBVIOUS
    <3>2. \A q \in Partners : Reserved(q) <= Earned(q, later)
      BY <3>1 DEF PayoutsInv, PaidOutWasEarned
    <3>3. \A q \in Partners : Reserved(q)' <= Earned(q, later)'
      BY <2>4, <3>2
    <3> QED
      BY <1>3, <3>1, <3>3, EarnedByThen
  <2>7. \A s \in Threads : Asking(s)' =>
          tx'[s].partner \in Partners /\ tx'[s].at \in Nat /\ tx'[s].at <= now'
    BY <1>3, <1>4, <2>1 DEF PayoutsInv, Asking
  <2>8. \A s, u \in Threads : Paying(s)' /\ Paying(u)' /\ s # u => tx'[s].partner # tx'[u].partner
    BY <1>3, <2>1 DEF PayoutsInv, Paying, PayoutHeld
  <2> QED
    BY <1>3, <1>5, <2>5, <2>6, <2>7, <2>8 DEF PayoutsInv
<1> QED
  BY <1>3, <1>6, <1>7

(* A request is inserted with the amount that was set aside for it.        *)
LEMMA InsertedPayoutIsCovered ==
  ASSUME LedgerOK, RewardsInv, PayoutsInv, NEW t \in Threads, InsertPayout(t)
  PROVE  PayoutsInv' /\ LedgerOK'
<1>1. PICK p, at, k : /\ p = tx[t].partner /\ at = tx[t].at
                      /\ k = [partner |-> p, period |-> Month(at), cents |-> tx[t].cents,
                              status |-> "requested"]
  OBVIOUS
<1>2. /\ Paying(t) /\ UNCHANGED <<earnings, reversals, paidAt, now>>
      /\ \A s \in Threads : tx'[s] = IF s = t THEN Idle ELSE tx[s]
      /\ payouts' = payouts \/ (payouts' = payouts \cup {k} /\ ~RequestedIn(p, Month(at)))
  BY <1>1, TransactionTurns DEF InsertPayout, Paying
<1>3. p \in Partners /\ at \in Nat /\ at <= now /\ tx[t].cents \in Nat
  BY <1>1, <1>2 DEF PayoutsInv, Paying, Asking, Covered
<1>4. Reserved(p) + tx[t].cents <= Earned(p, at)
  <2>1. Covered(tx[t])
    BY <1>2 DEF PayoutsInv
  <2> QED
    BY <1>1, <2>1 DEF Covered, Reserved, Earned, Eligible
<1>5. Month(at) \in Nat
  BY <1>3, ConstantsAssumption DEF Month
<1>6. /\ k \in PayoutRows /\ k.partner = p /\ k.period = Month(at) /\ k.cents = tx[t].cents
      /\ k.status # "rejected"
  BY <1>1, <1>3, <1>5 DEF PayoutRows
<1>7. LedgerOK' /\ now \in Nat /\ paidAt \in [Orders -> Nat]
  BY <1>2, <1>6, FS_AddElement DEF LedgerOK, PayoutsInv
<1>8. /\ \A s \in Threads : Paying(s)' => tx'[s] = tx[s] /\ s # t /\ Paying(s)
      /\ \A s \in Threads : Asking(s)' => tx'[s] = tx[s]
  BY <1>2 DEF Paying, Asking, Idle
<1>9. CASE payouts' = payouts
  <2>1. \A q \in Partners : Reserved(q)' <= Reserved(q)
    BY <1>7, <1>9, SumsAreNat, ReservedStands
  <2> QED
    BY <1>2, <1>7, <1>8, <2>1, PayoutsStand
<1>10. CASE payouts' = payouts \cup {k} /\ ~RequestedIn(p, Month(at))
  <2>1. PayoutsOf(p)' = PayoutsOf(p) \cup {k} /\ k \notin PayoutsOf(p)
    BY <1>6, <1>10 DEF PayoutsOf, RequestedIn
  <2>2. IsFiniteSet(PayoutsOf(p)) /\ PayoutsOf(p) \subseteq payouts
    BY FS_Subset DEF PayoutsOf, LedgerOK
  <2>3. \A y \in PayoutsOf(p) \cup {k} : PaidBy[y] = y.cents /\ y.cents \in Nat
    BY <1>6, <2>2 DEF PaidBy, PayoutRows, LedgerOK
  <2>4. Reserved(p)' = Reserved(p) + k.cents
    <3>1. PICK S : S = PayoutsOf(p)
      OBVIOUS
    <3>2. Total(PaidBy, S \cup {k}) = PaidBy[k] + Total(PaidBy, S)
      BY <2>1, <2>2, <2>3, <3>1, TotalWithOneMore
    <3>3. Reserved(p) = Total(PaidBy, S) /\ Reserved(p)' = Total(PaidBy, S \cup {k})
      BY <1>7, <2>1, <3>1, TotalsNow, TotalsNext DEF SumsAreTotals
    <3>4. Reserved(p) \in Nat /\ k.cents \in Nat /\ PaidBy[k] = k.cents
      BY <2>3, SumsAreNat
    <3> QED
      BY <3>2, <3>3, <3>4
  <2>5. ASSUME NEW q \in Partners, q # p PROVE Reserved(q)' = Reserved(q)
    <3>1. PayoutsOf(q)' = PayoutsOf(q)
      BY <1>6, <1>10, <2>5 DEF PayoutsOf
    <3> QED
      BY <1>7, <3>1, TotalsNow, TotalsNext DEF SumsAreTotals
  <2>6. \A q, then : Earned(q, then)' = Earned(q, then)
    BY <1>2, <1>7, EarnedStands
  <2>7. ASSUME NEW s \in Threads, Paying(s)' PROVE Covered(tx[s])'
    <3>1. PICK q, then, n : q = tx[s].partner /\ then = tx[s].at /\ n = tx[s].cents
      OBVIOUS
    <3>2. q \in Partners /\ q # p /\ Covered(tx[s])
      BY <1>1, <1>2, <1>8, <2>7, <3>1 DEF PayoutsInv, Paying, Asking
    <3>3. n \in Nat /\ Reserved(q) + n <= Earned(q, then)
      BY <3>1, <3>2 DEF Covered, Reserved, Earned, Eligible
    <3>4. n \in Nat /\ Reserved(q)' + n <= Earned(q, then)'
      BY <2>5, <2>6, <3>2, <3>3
    <3>5. q = tx'[s].partner /\ then = tx'[s].at /\ n = tx'[s].cents
      BY <1>8, <2>7, <3>1
    <3> QED
      BY <3>4, <3>5 DEF Covered, Reserved, Earned, Eligible
  <2>8. PICK later : later = now
    OBVIOUS
  <2>9. PaidOutWasEarned'
    <3>1. \A q \in Partners : Reserved(q) <= Earned(q, later)
      BY <2>8 DEF PayoutsInv, PaidOutWasEarned
    <3>2. \A o \in Orders : paidAt[o] \in Nat /\ paidAt'[o] = paidAt[o]
      BY <1>2, <1>7
    <3>3. Earned(p, at) <= Earned(p, later)' /\ Earned(p, later)' = Earned(p, later)
      BY <1>2, <1>3, <1>7, <2>6, <2>8, <3>2, EarnedGrows
    <3>4. Reserved(p) + k.cents <= Earned(p, at)
      BY <1>4, <1>6
    <3>5. Reserved(p)' <= Earned(p, later)'
      <4>1. Reserved(p) \in Nat /\ k.cents \in Nat /\ Earned(p, at) \in Nat /\ Earned(p, later) \in Nat
        BY <1>3, <1>6, SumsAreNat
      <4> QED
        BY <2>4, <3>3, <3>4, <4>1
    <3>6. \A q \in Partners : Reserved(q)' <= Earned(q, later)'
      BY <2>5, <2>6, <3>1, <3>5
    <3> QED
      BY <1>2, <2>8, <3>6, EarnedByThen
  <2>10. /\ \A s \in Threads : Asking(s)' =>
              tx'[s].partner \in Partners /\ tx'[s].at \in Nat /\ tx'[s].at <= now'
         /\ \A s, u \in Threads : Paying(s)' /\ Paying(u)' /\ s # u => tx'[s].partner # tx'[u].partner
    BY <1>2, <1>8 DEF PayoutsInv, Asking, Paying
  <2> QED
    BY <1>2, <1>7, <2>7, <2>9, <2>10 DEF PayoutsInv
<1> QED
  BY <1>2, <1>9, <1>10

(* A decision never makes more of a request: a rejected one is given back. *)
LEMMA DecidedPayoutIsCovered ==
  ASSUME LedgerOK, RewardsInv, PayoutsInv, NEW k \in payouts, NEW status, DecidePayout(k, status)
  PROVE  PayoutsInv' /\ LedgerOK'
<1>1. PICK n : n = [k EXCEPT !.status = status]
  OBVIOUS
<1>2. /\ k \in PayoutRows /\ k.status # "rejected" /\ status \in {"approved", "rejected", "paid"}
      /\ payouts' = (payouts \ {k}) \cup {n} /\ UNCHANGED <<earnings, reversals, paidAt, now, tx>>
  BY <1>1 DEF DecidePayout, LedgerOK
<1>3. n \in PayoutRows /\ n.partner = k.partner /\ n.cents = k.cents
  BY <1>1, <1>2 DEF PayoutRows
<1>4. IsFiniteSet(payouts')
  BY <1>2, FS_AddElement, FS_RemoveElement DEF LedgerOK
<1>5. LedgerOK'
  BY <1>2, <1>3, <1>4 DEF LedgerOK
<1>6. ASSUME NEW p \in Partners PROVE Reserved(p)' <= Reserved(p)
  <2>1. PICK S, R : S = PayoutsOf(p) /\ R = PayoutsOf(p)'
    OBVIOUS
  <2>2. IsFiniteSet(S) /\ IsFiniteSet(R) /\ S \subseteq PayoutRows /\ R \subseteq PayoutRows
    BY <1>5, <2>1, FS_Subset DEF PayoutsOf, LedgerOK
  <2>3. Reserved(p) = Total(PaidBy, S) /\ Reserved(p)' = Total(PaidBy, R)
    BY <1>5, <2>1, TotalsNow, TotalsNext DEF SumsAreTotals
  <2>4. \A y \in PayoutRows : PaidBy[y] = y.cents /\ y.cents \in Nat
    BY DEF PaidBy, PayoutRows
  <2>5. CASE n \notin R
    <3>1. R \subseteq S
      BY <1>2, <2>1, <2>5 DEF PayoutsOf
    <3> QED
      BY <2>2, <2>3, <2>4, <3>1, TotalOfPart
  <2>6. CASE n \in R
    <3>1. k \in S /\ R \ {n} \subseteq S \ {k}
      BY <1>2, <1>3, <2>1, <2>6 DEF PayoutsOf
    <3>2. /\ Total(PaidBy, S) = PaidBy[k] + Total(PaidBy, S \ {k})
          /\ Total(PaidBy, R) = PaidBy[n] + Total(PaidBy, R \ {n})
      BY <2>2, <2>4, <2>6, <3>1, TotalOfRest
    <3>3. IsFiniteSet(S \ {k}) /\ IsFiniteSet(R \ {n})
      BY <2>2, FS_Subset
    <3>4. Total(PaidBy, R \ {n}) <= Total(PaidBy, S \ {k})
      BY <2>2, <2>4, <3>1, <3>3, TotalOfPart
    <3>5. Total(PaidBy, R \ {n}) \in Nat /\ Total(PaidBy, S \ {k}) \in Nat
      BY <2>2, <2>4, <3>3, TotalIsNat
    <3> QED
      BY <1>2, <1>3, <2>3, <2>4, <3>2, <3>4, <3>5
  <2> QED
    BY <2>5, <2>6
<1>7. now \in Nat /\ paidAt \in [Orders -> Nat]
  BY DEF PayoutsInv
<1>8. /\ \A t \in Threads : Paying(t)' => tx'[t] = tx[t]
      /\ \A t \in Threads : Asking(t)' => tx'[t] = tx[t]
  BY <1>2
<1> QED
  BY <1>2, <1>5, <1>6, <1>7, <1>8, PayoutsStand

(* The commissions of a batch enter the ledger together.                   *)
LEMMA CommittedEarnings ==
  ASSUME LedgerOK, RewardsInv, RefundsInv, NEW t \in Threads, CommitProjection(t)
  PROVE  /\ LedgerOK' /\ earnings \subseteq earnings'
         /\ \A e \in earnings' : e.cents = Whole(e.order)
<1> DEFINE row(o) == [order |-> o, rule |-> tx[t].rule, partner |-> bound[Buyer[o]],
                      cents |-> Commission(Gross[o])]
           f == [o \in tx[t].earned |-> row(o)]
           new == {row(o) : o \in tx[t].earned}
<1>1. /\ Projecting(t) /\ UNCHANGED <<reversals, payouts>>
      /\ earnings' = earnings \cup new
  BY DEF CommitProjection, Projecting
<1>2. tx[t] \in Projections /\ SoundProjection(tx[t])
  BY <1>1 DEF RewardsInv, Shapes
<1>3. \A o \in tx[t].earned : o \in Orders /\ bound[Buyer[o]] \in Partners
  BY <1>2 DEF Projections, SoundProjection
<1>4. \A o \in tx[t].earned : row(o) \in EarningRows /\ row(o).cents = Whole(row(o).order)
  <2>1. \A o \in Orders : Commission(Gross[o]) \in Nat
    BY WholeIsNat DEF Whole
  <2> QED
    BY <1>2, <1>3, <2>1 DEF EarningRows, Projections, Whole
<1>5. IsFiniteSet(new)
  <2>1. IsFiniteSet(tx[t].earned)
    BY <1>3, ConstantsAssumption, FS_Subset
  <2>2. f \in Surjection(tx[t].earned, new)
    BY DEF Surjection
  <2> QED
    BY <2>1, <2>2, FS_Surjection
<1>6. \A e \in new : e \in EarningRows /\ e.cents = Whole(e.order)
  BY <1>4
<1> HIDE DEF new
<1>7. IsFiniteSet(earnings')
  BY <1>1, <1>5, FS_Union DEF LedgerOK
<1> QED
  BY <1>1, <1>6, <1>7 DEF LedgerOK, RefundsInv

\* The invariant of the accounts holds at the start.
LEMMA StartsAccounts == ASSUME Init PROVE AccountsInv
<1>1. LedgerOK
  BY FS_EmptySet DEF Init, LedgerOK
<1>2. \A t \in Threads : ~Refunding(t) /\ ~Paying(t) /\ ~Asking(t)
  BY DEF Init, Idle, Refunding, Paying, Asking
<1>3. RefundsInv
  <2>1. ASSUME NEW o \in Orders, NEW r \in Nat PROVE Fits(o, Refunded(o, r), Undone(o, r))
    <3>1. RefundsOf(o, r) = {}
      BY DEF Init, RefundsOf
    <3>2. Refunded(o, r) = 0 /\ Undone(o, r) = 0
      BY <3>1, FS_EmptySet, TotalAdds DEF Refunded, Undone
    <3>3. Gross[o] = 0 => Whole(o) = 0
      BY CommissionIsNat DEF Whole
    <3> QED
      BY <3>2, <3>3, WholeIsNat DEF Fits
  <2> QED
    BY <1>2, <2>1 DEF Init, RefundsInv
<1>4. PayoutsInv
  <2>1. ASSUME NEW p \in Partners PROVE Reserved(p) <= Earned(p, now)
    <3>1. PayoutsOf(p) = {} /\ EarningsOf(p, now) = {}
      BY DEF Init, PayoutsOf, EarningsOf
    <3>2. Reserved(p) = Total(PaidBy, PayoutsOf(p)) /\ Earned(p, now) = Total(EarnedBy, EarningsOf(p, now))
      BY <1>1, TotalsNow DEF SumsAreTotals
    <3>3. Total(PaidBy, {}) = 0 /\ Total(EarnedBy, {}) = 0
      BY FS_EmptySet, TotalAdds
    <3>4. Reserved(p) = 0 /\ Earned(p, now) = 0
      BY <3>1, <3>2, <3>3, Zenon
    <3> QED
      BY <3>4
  <2> QED
    BY <1>2, <2>1 DEF Init, PayoutsInv, PaidOutWasEarned
<1> QED
  BY <1>1, <1>3, <1>4, Starts DEF AccountsInv

(* A step that leaves the ledger alone, and in which connection t turns to *)
(* a transaction that neither refunds nor pays.                            *)
LEMMA AccountsStand ==
  ASSUME AccountsInv, RewardsInv', UNCHANGED ledger, now' \in Nat, now <= now',
         paidAt' \in [Orders -> Nat], \A o \in Orders : paidAt[o] > 0 => paidAt'[o] = paidAt[o],
         \A t \in Threads : Refunding(t)' => tx'[t] = tx[t],
         \A t \in Threads : Paying(t)' => tx'[t] = tx[t],
         \A t \in Threads : Asking(t)' =>
           \/ tx'[t] = tx[t]
           \/ tx'[t].partner \in Partners /\ tx'[t].at \in Nat /\ tx'[t].at <= now'
  PROVE  AccountsInv'
<1>1. /\ LedgerOK /\ LedgerOK' /\ RefundsInv /\ PayoutsInv
      /\ UNCHANGED <<earnings, reversals, payouts>> /\ earnings \subseteq earnings'
  BY DEF AccountsInv, LedgerOK, ledger
<1>2. \A e \in earnings' : e.cents = Whole(e.order)
  BY <1>1 DEF RefundsInv
<1>3. RefundsInv'
  BY <1>1, <1>2, RefundsStand
<1>4. \A p \in Partners : Reserved(p)' <= Reserved(p)
  BY <1>1, ReservedStands, SumsAreNat
<1>5. PayoutsInv'
  BY <1>1, <1>4, PayoutsStand
<1> QED
  BY <1>1, <1>3, <1>5 DEF AccountsInv

(* What connection t turns to is neither a refund nor a request of a       *)
(* payout that was summed.                                                 *)
LEMMA QuietTurn ==
  ASSUME AccountsInv, RewardsInv', UNCHANGED <<ledger, paidAt, now>>,
         NEW t \in Threads, NEW r, Goes(t, r),
         r.op \in {"none", "project"} \/ (r.op = "ask" /\ r.partner \in Partners /\ r.at = now)
  PROVE  AccountsInv'
<1>1. \A s \in Threads : tx'[s] = IF s = t THEN r ELSE tx[s]
  BY TransactionTurns DEF AccountsInv
<1>2. now \in Nat /\ paidAt \in [Orders -> Nat]
  BY DEF AccountsInv, PayoutsInv
<1>3. \A s \in Threads : Refunding(s)' => tx'[s] = tx[s]
  BY <1>1 DEF Refunding
<1>4. \A s \in Threads : Paying(s)' => tx'[s] = tx[s]
  BY <1>1 DEF Paying
<1>5. \A s \in Threads : Asking(s)' =>
        \/ tx'[s] = tx[s]
        \/ tx'[s].partner \in Partners /\ tx'[s].at \in Nat /\ tx'[s].at <= now'
  BY <1>1, <1>2 DEF Asking
<1> QED
  BY <1>2, <1>3, <1>4, <1>5, AccountsStand

\* A step of a thread keeps the invariant of the accounts.
LEMMA WorkKeepsAccounts ==
  ASSUME AccountsInv, RewardsInv', NEW t \in Threads, Work(t)
  PROVE  AccountsInv'
<1> USE DEF ledger
<1>0. RewardsInv /\ LedgerOK /\ RefundsInv /\ PayoutsInv
  BY DEF AccountsInv
<1>1. ASSUME NEW batch, SelectOrders(t, batch) PROVE AccountsInv'
  <2> DEFINE r == [op |-> "project", rule |-> rule, orders |-> batch, todo |-> batch,
                   held |-> {}, claimed |-> {}, earned |-> {}]
  <2>1. Goes(t, r) /\ r.op = "project" /\ UNCHANGED <<ledger, paidAt, now>>
    BY <1>1 DEF SelectOrders
  <2> HIDE DEF r
  <2> QED
    BY <2>1, QuietTurn
<1>2. ASSUME NEW o \in Orders, ProjectOrder(t, o) PROVE AccountsInv'
  <2> DEFINE u == Buyer[o]
             r == [tx[t] EXCEPT !.todo = @ \ {o}, !.held = @ \cup {u},
                                !.claimed = IF claim[u] = None THEN @ \cup {u} ELSE @,
                                !.earned = IF Claimant(u) = bound[u] /\ Commission(Gross[o]) > 0
                                             THEN @ \cup {o} ELSE @]
  <2>1. Goes(t, r) /\ Projecting(t) /\ UNCHANGED <<ledger, paidAt, now>>
    BY <1>2 DEF ProjectOrder, Projecting
  <2>2. tx[t] \in Projections
    BY <1>0, <2>1 DEF RewardsInv, Shapes
  <2>3. r.op = "project"
    BY <2>2 DEF Projections
  <2> HIDE DEF r
  <2> QED
    BY <2>1, <2>3, QuietTurn
<1>3. CASE CommitProjection(t)
  <2>1. /\ LedgerOK' /\ earnings \subseteq earnings' /\ \A e \in earnings' : e.cents = Whole(e.order)
    BY <1>0, <1>3, CommittedEarnings
  <2>2. /\ \A s \in Threads : tx'[s] = IF s = t THEN Idle ELSE tx[s]
        /\ UNCHANGED <<reversals, payouts, paidAt, now>>
    BY <1>0, <1>3, TransactionTurns DEF CommitProjection
  <2>3. /\ \A s \in Threads : Refunding(s)' => tx'[s] = tx[s]
        /\ \A s \in Threads : Paying(s)' => tx'[s] = tx[s]
        /\ \A s \in Threads : Asking(s)' => tx'[s] = tx[s]
    BY <2>2 DEF Refunding, Paying, Asking, Idle
  <2>4. RefundsInv'
    BY <1>0, <2>1, <2>2, <2>3, RefundsStand
  <2>5. now \in Nat /\ paidAt \in [Orders -> Nat]
    BY <1>0 DEF PayoutsInv
  <2>6. \A p \in Partners : Reserved(p)' <= Reserved(p)
    BY <1>0, <2>1, <2>2, ReservedStands, SumsAreNat
  <2>7. PayoutsInv'
    BY <1>0, <2>1, <2>2, <2>3, <2>5, <2>6, PayoutsStand
  <2> QED
    BY <2>1, <2>4, <2>7 DEF AccountsInv
<1>4. ASSUME NEW e, NEW ref, RepeatedRefund(t, e, ref) PROVE AccountsInv'
  <2>1. UNCHANGED <<ledger, paidAt, now, tx>>
    BY <1>4 DEF RepeatedRefund
  <2>2. now \in Nat /\ paidAt \in [Orders -> Nat]
    BY <1>0 DEF PayoutsInv
  <2> QED
    BY <2>1, <2>2, AccountsStand
<1>5. ASSUME NEW e \in LatestEarnings, NEW ref \in Refs, NEW cents \in RefundCents,
             LockEarning(t, e, ref, cents)
      PROVE  AccountsInv'
  <2>1. e \in earnings /\ cents \in Nat
    BY ConstantsAssumption DEF LatestEarnings
  <2>2. RefundsInv'
    BY <1>0, <1>5, <2>1, LockedRefundFits
  <2> DEFINE r == [op |-> "refund", order |-> e.order, rule |-> e.rule, ref |-> ref,
                   gross |-> AdjustedGross(e, cents), cents |-> Reversal(e, cents)]
  <2>3. Goes(t, r) /\ r.op = "refund" /\ UNCHANGED <<earnings, reversals, payouts, paidAt, now>>
    BY <1>5 DEF LockEarning
  <2> HIDE DEF r
  <2>4. \A s \in Threads : tx'[s] = IF s = t THEN r ELSE tx[s]
    BY <1>0, <2>3, TransactionTurns
  <2>5. /\ \A s \in Threads : Paying(s)' => tx'[s] = tx[s]
        /\ \A s \in Threads : Asking(s)' => tx'[s] = tx[s]
    BY <2>3, <2>4 DEF Paying, Asking
  <2>6. LedgerOK' /\ now \in Nat /\ paidAt \in [Orders -> Nat]
    BY <1>0, <2>3 DEF LedgerOK, PayoutsInv
  <2>7. \A p \in Partners : Reserved(p)' <= Reserved(p)
    BY <1>0, <2>3, <2>6, ReservedStands, SumsAreNat
  <2>8. PayoutsInv'
    BY <1>0, <2>3, <2>5, <2>6, <2>7, PayoutsStand
  <2> QED
    BY <2>2, <2>6, <2>8 DEF AccountsInv
<1>6. CASE InsertReversal(t)
  <2>1. RefundsInv' /\ reversals' \subseteq ReversalRows /\ IsFiniteSet(reversals')
    BY <1>0, <1>6, InsertedRefundFits
  <2>2. /\ \A s \in Threads : tx'[s] = IF s = t THEN Idle ELSE tx[s]
        /\ UNCHANGED <<earnings, payouts, paidAt, now>>
    BY <1>0, <1>6, TransactionTurns DEF InsertReversal
  <2>3. LedgerOK' /\ now \in Nat /\ paidAt \in [Orders -> Nat]
    BY <1>0, <2>1, <2>2 DEF LedgerOK, PayoutsInv
  <2>4. /\ \A s \in Threads : Paying(s)' => tx'[s] = tx[s]
        /\ \A s \in Threads : Asking(s)' => tx'[s] = tx[s]
    BY <2>2 DEF Paying, Asking, Idle
  <2>5. \A p \in Partners : Reserved(p)' <= Reserved(p)
    BY <1>0, <2>2, <2>3, ReservedStands, SumsAreNat
  <2>6. PayoutsInv'
    BY <1>0, <2>2, <2>3, <2>4, <2>5, PayoutsStand
  <2> QED
    BY <2>1, <2>3, <2>6 DEF AccountsInv
<1>7. ASSUME NEW p \in Partners, AskPayout(t, p) PROVE AccountsInv'
  <2> DEFINE r == [op |-> "ask", partner |-> p, at |-> now]
  <2>1. Goes(t, r) /\ r.op = "ask" /\ r.partner = p /\ r.at = now /\ UNCHANGED <<ledger, paidAt, now>>
    BY <1>7 DEF AskPayout
  <2> HIDE DEF r
  <2> QED
    BY <2>1, QuietTurn
<1>8. CASE SumAvailable(t)
  <2>1. PayoutsInv' /\ UNCHANGED ledger
    BY <1>0, <1>8, SummedPayoutIsCovered DEF SumAvailable
  <2>2. PICK r : Goes(t, r) /\ r.op \in {"none", "payout"}
    BY <1>8 DEF SumAvailable, Idle
  <2>3. \A s \in Threads : tx'[s] = IF s = t THEN r ELSE tx[s]
    BY <1>0, <2>2, TransactionTurns
  <2>4. \A s \in Threads : Refunding(s)' => tx'[s] = tx[s]
    BY <2>2, <2>3 DEF Refunding
  <2>5. LedgerOK' /\ RefundsInv'
    BY <1>0, <2>1, <2>4, RefundsStand DEF LedgerOK, RefundsInv
  <2> QED
    BY <2>1, <2>5 DEF AccountsInv
<1>9. CASE InsertPayout(t)
  <2>1. PayoutsInv' /\ LedgerOK'
    BY <1>0, <1>9, InsertedPayoutIsCovered
  <2>2. /\ \A s \in Threads : tx'[s] = IF s = t THEN Idle ELSE tx[s]
        /\ UNCHANGED <<earnings, reversals>>
    BY <1>0, <1>9, TransactionTurns DEF InsertPayout
  <2>3. \A s \in Threads : Refunding(s)' => tx'[s] = tx[s]
    BY <2>2 DEF Refunding, Idle
  <2>4. RefundsInv'
    BY <1>0, <2>2, <2>3, RefundsStand DEF RefundsInv
  <2> QED
    BY <2>1, <2>4 DEF AccountsInv
<1>10. CASE Abort(t)
  <2>1. Goes(t, Idle) /\ Idle.op = "none" /\ UNCHANGED <<ledger, paidAt, now>>
    BY <1>10 DEF Abort, Idle
  <2> QED
    BY <2>1, QuietTurn
<1> QED
  BY <1>1, <1>2, <1>3, <1>4, <1>5, <1>6, <1>7, <1>8, <1>9, <1>10 DEF Work

\* Every step keeps the invariant of the accounts.
LEMMA StepsKeepAccounts ==
  ASSUME AccountsInv, [Next]_vars
  PROVE  AccountsInv'
<1> USE DEF ledger, people
<1>0. /\ RewardsInv /\ RewardsInv' /\ LedgerOK /\ RefundsInv /\ PayoutsInv
      /\ now \in Nat /\ paidAt \in [Orders -> Nat]
  BY StepsKeepRewards DEF AccountsInv, PayoutsInv
<1> DEFINE Quiet == UNCHANGED <<ledger, paidAt, now, tx>>
<1>1. ASSUME Quiet PROVE AccountsInv'
  BY <1>0, <1>1, AccountsStand
<1>2. CASE UNCHANGED vars
  BY <1>1, <1>2 DEF vars
<1>3. CASE SwitchActivity
  BY <1>1, <1>3 DEF SwitchActivity
<1>4. CASE Tick
  <2>1. UNCHANGED <<ledger, paidAt, tx>> /\ now' = now + 1
    BY <1>4 DEF Tick
  <2>2. now' \in Nat /\ now <= now' /\ paidAt' \in [Orders -> Nat]
    BY <1>0, <2>1
  <2> QED
    BY <1>0, <2>1, <2>2, AccountsStand
<1>5. CASE NewRule
  BY <1>1, <1>5 DEF NewRule
<1>6. ASSUME NEW p \in Partners, Join(p) PROVE AccountsInv'
  BY <1>1, <1>6 DEF Join
<1>7. ASSUME NEW u \in Users, NEW l, NEW active, BindUser(u, l, active) PROVE AccountsInv'
  BY <1>1, <1>7 DEF BindUser
<1>8. ASSUME NEW u \in Users, ActivateReferral(u) PROVE AccountsInv'
  BY <1>1, <1>8 DEF ActivateReferral
<1>9. ASSUME NEW o \in Orders, PayOrder(o) PROVE AccountsInv'
  <2>1. /\ UNCHANGED <<ledger, tx, now>> /\ paidAt' \in [Orders -> Nat]
        /\ \A q \in Orders : paidAt[q] > 0 => paidAt'[q] = paidAt[q]
    BY <1>0, <1>9 DEF PayOrder
  <2>2. now' \in Nat /\ now <= now'
    BY <1>0, <2>1
  <2> QED
    BY <1>0, <2>1, <2>2, AccountsStand
<1>10. ASSUME NEW k \in payouts, NEW status, DecidePayout(k, status) PROVE AccountsInv'
  <2>1. PayoutsInv' /\ LedgerOK'
    BY <1>0, <1>10, DecidedPayoutIsCovered
  <2>2. UNCHANGED <<earnings, reversals, tx>>
    BY <1>10 DEF DecidePayout
  <2>3. RefundsInv'
    BY <1>0, <2>2, RefundsStand DEF RefundsInv
  <2> QED
    BY <1>0, <2>1, <2>3 DEF AccountsInv
<1>11. ASSUME NEW t \in Threads, Work(t) PROVE AccountsInv'
  BY <1>0, <1>11, WorkKeepsAccounts
<1> QED
  BY <1>2, <1>3, <1>4, <1>5, <1>6, <1>7, <1>8, <1>9, <1>10, <1>11 DEF Next

(* Every behaviour keeps the accounts.                                     *)
THEOREM AccountsHold == Spec => []AccountsInv
BY StartsAccounts, StepsKeepAccounts, PTL DEF Spec

(* However refunds of an order meet, under whatever references and over    *)
(* whatever releases, no more of a commission is reversed than was earned, *)
(* and nothing of it is left once the order is refunded (record_refund).   *)
THEOREM RefundsAreBounded == Spec => []RefundsFit
<1>1. ASSUME AccountsInv PROVE RefundsFit
  <2> SUFFICES ASSUME NEW e \in earnings
               PROVE  /\ RefundedGross(e) <= Gross[e.order] /\ ReversedCents(e) <= e.cents
                      /\ RefundedGross(e) = Gross[e.order] => ReversedCents(e) = e.cents
    BY DEF RefundsFit
  <2>1. LedgerOK /\ e.order \in Orders /\ e.rule \in Nat /\ e.cents = Whole(e.order)
    BY <1>1 DEF AccountsInv, RefundsInv, LedgerOK, EarningRows
  <2>2. Fits(e.order, Refunded(e.order, e.rule), Undone(e.order, e.rule))
    BY <1>1, <2>1 DEF AccountsInv, RefundsInv
  <2>3. /\ RefundedGross(e) = Refunded(e.order, e.rule)
        /\ ReversedCents(e) = Undone(e.order, e.rule)
    BY <2>1, TotalsNow DEF SumsAreTotals, Refunded, Undone
  <2> QED
    BY <2>1, <2>2, <2>3 DEF Fits
<1> QED
  BY <1>1, AccountsHold, PTL

(* Whatever is paid out or asked for was earned and past its hold, through *)
(* requests of any months that cross each other, refunds, rejections and   *)
(* aborted transactions (request_payout).                                  *)
THEOREM PayoutsAreEarned == Spec => []PaidOutWasEarned
<1>1. AccountsInv => PaidOutWasEarned
  BY DEF AccountsInv, PayoutsInv
<1> QED
  BY <1>1, AccountsHold, PTL

\* What TypeOK says beyond the accounts.
RecordsOK ==
  /\ open \in BOOLEAN /\ rule \in 1..MaxRule /\ answered \subseteq Orders \X Refs
  /\ \A e \in earnings : e.rule \in 1..MaxRule
  /\ \A x \in reversals : x.rule \in 1..MaxRule
  /\ tx \in [Threads -> Transactions]

\* Every step keeps what TypeOK says beyond the accounts.
LEMMA StepsKeepRecords ==
  ASSUME AccountsInv, AccountsInv', RecordsOK, [Next]_vars
  PROVE  RecordsOK'
<1> USE DEF ledger, people
<1>0. /\ earnings \subseteq EarningRows /\ \A t \in Threads : tx[t] \in Transactions
      /\ \A t \in Threads : Goes(t, Idle) => tx' \in [Threads -> Transactions]
  BY DEF AccountsInv, LedgerOK, RecordsOK, Goes, Transactions
<1>1. ASSUME NEW t \in Threads, NEW r \in Transactions, Goes(t, r)
      PROVE  tx' \in [Threads -> Transactions]
  BY <1>1 DEF Goes, RecordsOK
<1> DEFINE Rest == UNCHANGED <<open, rule, answered, earnings, reversals>>
<1>2. ASSUME Rest, tx' \in [Threads -> Transactions] PROVE RecordsOK'
  BY <1>2 DEF RecordsOK
<1>3. ASSUME NEW t \in Threads, Work(t) PROVE RecordsOK'
  <2>1. ASSUME NEW batch, SelectOrders(t, batch) PROVE RecordsOK'
    <3> DEFINE r == [op |-> "project", rule |-> rule, orders |-> batch, todo |-> batch,
                     held |-> {}, claimed |-> {}, earned |-> {}]
    <3>1. batch \in SUBSET Orders /\ Goes(t, r) /\ Rest
      BY <2>1 DEF SelectOrders, Unprojected
    <3>2. r \in Transactions
      BY <3>1 DEF RecordsOK, Transactions
    <3> HIDE DEF r
    <3> QED
      BY <1>1, <1>2, <3>1, <3>2
  <2>2. ASSUME NEW o \in Orders, ProjectOrder(t, o) PROVE RecordsOK'
    <3>1. PICK r : /\ r = [tx[t] EXCEPT !.todo = @ \ {o}, !.held = @ \cup {Buyer[o]},
                             !.claimed = IF claim[Buyer[o]] = None THEN @ \cup {Buyer[o]} ELSE @,
                             !.earned = IF Claimant(Buyer[o]) = bound[Buyer[o]]
                                           /\ Commission(Gross[o]) > 0
                                          THEN @ \cup {o} ELSE @]
                   /\ Goes(t, r)
      BY <2>2 DEF ProjectOrder
    <3>2. tx[t].op = "project" /\ Buyer[o] \in Users /\ Rest
      BY <2>2, ConstantsAssumption DEF ProjectOrder
    <3>3. tx[t] \in [op : {"project"}, rule : 1..MaxRule, orders : SUBSET Orders, todo : SUBSET Orders,
                     held : SUBSET Users, claimed : SUBSET Users, earned : SUBSET Orders]
      BY <1>0, <3>2 DEF Transactions, Idle
    <3>4. r \in [op : {"project"}, rule : 1..MaxRule, orders : SUBSET Orders, todo : SUBSET Orders,
                 held : SUBSET Users, claimed : SUBSET Users, earned : SUBSET Orders]
      BY <3>1, <3>2, <3>3
    <3>5. r \in Transactions
      BY <3>4, Zenon DEF Transactions
    <3> QED
      BY <1>1, <1>2, <3>1, <3>2, <3>5
  <2>3. CASE CommitProjection(t)
    <3>1. tx[t].op = "project" /\ tx[t].rule \in 1..MaxRule
      BY <1>0, <2>3 DEF CommitProjection, Transactions, Idle
    <3>2. \A e \in earnings' : e \in earnings \/ e.rule = tx[t].rule
      BY <2>3 DEF CommitProjection
    <3>3. UNCHANGED <<open, rule, answered, reversals>> /\ Goes(t, Idle)
      BY <2>3 DEF CommitProjection
    <3> QED
      BY <1>0, <3>1, <3>2, <3>3 DEF RecordsOK
  <2>4. ASSUME NEW e \in LatestEarnings, NEW ref \in Refs, RepeatedRefund(t, e, ref) PROVE RecordsOK'
    <3>1. e.order \in Orders
      BY <1>0 DEF LatestEarnings, EarningRows
    <3> QED
      BY <2>4, <3>1 DEF RepeatedRefund, RecordsOK
  <2>5. ASSUME NEW e \in LatestEarnings, NEW ref \in Refs, NEW cents \in RefundCents,
               LockEarning(t, e, ref, cents)
        PROVE  RecordsOK'
    <3> DEFINE g == AdjustedGross(e, cents)
               c == Reversal(e, cents)
               r == [op |-> "refund", order |-> e.order, rule |-> e.rule, ref |-> ref,
                     gross |-> g, cents |-> c]
    <3>1. e \in earnings /\ e.order \in Orders /\ e.rule \in 1..MaxRule
      BY <1>0 DEF LatestEarnings, EarningRows, RecordsOK
    <3>2. g \in Nat /\ c \in Nat
      BY <2>5, <3>1, AdjustmentFits, ConstantsAssumption DEF LockEarning, AccountsInv
    <3> HIDE DEF g, c
    <3>3. r \in Transactions
      BY <3>1, <3>2 DEF Transactions
    <3>4. Goes(t, r) /\ Rest
      BY <2>5 DEF LockEarning, g, c
    <3> HIDE DEF r
    <3> QED
      BY <1>1, <1>2, <3>3, <3>4
  <2>6. CASE InsertReversal(t)
    <3>1. tx[t].op = "refund" /\ tx[t].order \in Orders /\ tx[t].rule \in 1..MaxRule /\ tx[t].ref \in Refs
      BY <1>0, <2>6 DEF InsertReversal, Transactions, Idle
    <3>2. \A x \in reversals' : x \in reversals \/ x.rule = tx[t].rule
      BY <2>6 DEF InsertReversal
    <3>3. /\ UNCHANGED <<open, rule, earnings>> /\ Goes(t, Idle)
          /\ answered' = answered \cup {<<tx[t].order, tx[t].ref>>}
      BY <2>6 DEF InsertReversal
    <3> QED
      BY <1>0, <3>1, <3>2, <3>3 DEF RecordsOK
  <2>7. ASSUME NEW p \in Partners, AskPayout(t, p) PROVE RecordsOK'
    <3> DEFINE r == [op |-> "ask", partner |-> p, at |-> now]
    <3>1. r \in Transactions
      BY DEF AccountsInv, PayoutsInv, Transactions
    <3>2. Goes(t, r) /\ Rest
      BY <2>7 DEF AskPayout
    <3> HIDE DEF r
    <3> QED
      BY <1>1, <1>2, <3>1, <3>2
  <2>8. CASE SumAvailable(t)
    <3> DEFINE p == tx[t].partner
               at == tx[t].at
               c == Available(p, at)
               r == [op |-> "payout", partner |-> p, at |-> at, cents |-> c]
    <3>1. p \in Partners /\ at \in Nat
      BY <1>0, <2>8 DEF SumAvailable, Transactions, Idle
    <3>2. Rest /\ (Goes(t, Idle) \/ (Goes(t, r) /\ c >= Minimum))
      BY <2>8 DEF SumAvailable
    <3>3. /\ Earned(p, at) \in Nat /\ Reversed(p, at) \in Nat /\ Reserved(p) \in Nat
          /\ c = Earned(p, at) - Reversed(p, at) - Reserved(p)
      BY SumsAreNat, Zenon DEF Available, AccountsInv
    <3> HIDE DEF c, p, at
    <3>4. c >= Minimum => c \in Nat
      BY <3>3, ConstantsAssumption
    <3>5. c >= Minimum => r \in Transactions
      BY <3>1, <3>4 DEF Transactions
    <3> HIDE DEF r
    <3> QED
      BY <1>0, <1>1, <1>2, <3>2, <3>5
  <2>9. CASE InsertPayout(t)
    BY <1>0, <1>2, <2>9 DEF InsertPayout
  <2>10. CASE Abort(t)
    BY <1>0, <1>2, <2>10 DEF Abort
  <2> QED
    BY <1>3, <2>1, <2>2, <2>3, <2>4, <2>5, <2>6, <2>7, <2>8, <2>9, <2>10 DEF Work
<1>4. CASE Rest /\ UNCHANGED tx
  BY <1>2, <1>4 DEF RecordsOK
<1>5. CASE UNCHANGED vars
  BY <1>4, <1>5 DEF vars
<1>6. CASE SwitchActivity
  BY <1>6 DEF SwitchActivity, RecordsOK
<1>7. CASE Tick
  BY <1>4, <1>7 DEF Tick
<1>8. CASE NewRule
  <2>1. rule' \in 1..MaxRule
    BY <1>8, ConstantsAssumption DEF NewRule, RecordsOK
  <2> QED
    BY <1>8, <2>1 DEF NewRule, RecordsOK
<1>9. ASSUME NEW p \in Partners, Join(p) PROVE RecordsOK'
  BY <1>4, <1>9 DEF Join
<1>10. ASSUME NEW u \in Users, NEW l, NEW active, BindUser(u, l, active) PROVE RecordsOK'
  BY <1>4, <1>10 DEF BindUser
<1>11. ASSUME NEW u \in Users, ActivateReferral(u) PROVE RecordsOK'
  BY <1>4, <1>11 DEF ActivateReferral
<1>12. ASSUME NEW o \in Orders, PayOrder(o) PROVE RecordsOK'
  BY <1>4, <1>12 DEF PayOrder
<1>13. ASSUME NEW k \in payouts, NEW status, DecidePayout(k, status) PROVE RecordsOK'
  BY <1>4, <1>13 DEF DecidePayout
<1> QED
  BY <1>3, <1>5, <1>6, <1>7, <1>8, <1>9, <1>10, <1>11, <1>12, <1>13 DEF Next

(* Every table and transaction keeps its type.                             *)
THEOREM TypeCorrect == Spec => []TypeOK
<1>1. Init => RecordsOK
  BY ConstantsAssumption DEF Init, RecordsOK, Transactions
<1>2. ASSUME AccountsInv, RecordsOK PROVE TypeOK
  <2>1. /\ joined \subseteq Partners /\ activated \subseteq Users /\ rule \in Nat
        /\ bound \in [Users -> Partners \cup {None, Direct}] /\ claim \in [Users -> Rewards]
        /\ now \in Nat /\ paidAt \in [Orders -> Nat]
    BY <1>2 DEF AccountsInv, RewardsInv, Shapes, PayoutsInv
  <2>2. /\ earnings \subseteq [order : Orders, rule : 1..MaxRule, partner : Partners, cents : Nat]
        /\ reversals \subseteq [order : Orders, rule : 1..MaxRule, ref : Refs, gross : Nat, cents : Nat]
        /\ payouts \subseteq PayoutRows
    BY <1>2 DEF AccountsInv, LedgerOK, RecordsOK, EarningRows, ReversalRows
  <2> QED
    BY <1>2, <2>1, <2>2 DEF RecordsOK, TypeOK, PayoutRows
<1>3. AccountsInv /\ AccountsInv' /\ RecordsOK /\ [Next]_vars => RecordsOK'
  BY StepsKeepRecords
<1> QED
  BY <1>1, <1>2, <1>3, AccountsHold, PTL DEF Spec
===============================================================================
