---------------------------- MODULE PartnerProgram ----------------------------
(***************************************************************************)
(* The partner programme and its rival, points for referrals: who acquired *)
(* a user, the commission on the orders the user pays, its reversal by     *)
(* refunds, and the monthly payouts.                                       *)
(*                                                                         *)
(* Every call is one transaction of PostgreSQL at READ COMMITTED.  A       *)
(* transaction whose statements another one's commit can come between is   *)
(* split there and keeps in tx what it has read, written and locked; the   *)
(* others are one action, which waits for the rows that a split one holds. *)
(* Orders here are those of acquired users within the programme's window;  *)
(* partners are none of their buyers.                                      *)
(***************************************************************************)
EXTENDS Integers, FiniteSets, FiniteSetsExt

CONSTANTS
  Users,        \* users that somebody acquired
  Partners,     \* users who may join the programme
  Orders,
  Buyer,        \* Buyer[o]: whose order it is
  Gross,        \* Gross[o]: what it costs, in cents
  RateBps,      \* the commission's rate, in ten thousandths
  Refs,         \* references under which refunds are recorded
  RefundCents,  \* the amounts of refunds
  Minimum,      \* the least amount that is paid out
  HoldTicks,    \* how long a commission is held back for refunds
  MonthTicks,   \* the length of a settlement period
  MaxNow,       \* bound on the clock
  MaxRule,      \* bound on the version of the commission rule
  Threads,      \* connections at work at the same time
  None, Direct, Points

ASSUME ConstantsAssumption ==
  /\ IsFiniteSet(Users) /\ IsFiniteSet(Orders)
  /\ Buyer \in [Orders -> Users] /\ Gross \in [Orders -> Nat]
  /\ RateBps \in 1..10000 /\ Minimum \in Nat \ {0}
  /\ HoldTicks \in Nat /\ MonthTicks \in Nat \ {0} /\ MaxNow \in Nat /\ MaxRule \in Nat \ {0}
  /\ RefundCents \subseteq Nat \ {0}
  /\ None # Direct /\ None # Points /\ Direct # Points
  /\ Partners \cap {None, Direct, Points} = {}

VARIABLES
  open,       \* partner_program_settings.enabled
  joined,     \* partner_profiles: all active, nothing suspends one
  bound,      \* promotion_identity_bindings: the partner whose link a user came by
  claim,      \* growth_acquisition_reward_claims: Points, or the partner who is paid in cash
  activated,  \* growth_referral_activations: users for whom points were credited
  paidAt,     \* billing_checkout_orders.paid_at_ms, 0 while unpaid
  earnings, reversals, payouts,  \* partner_commission_ledger, partner_payout_requests
  rule,       \* partner_commission_rule_version of the running release
  now,        \* the clock
  tx,         \* the transaction that each connection is in
  answered    \* history: the refunds that were answered with success

ledger == <<earnings, reversals, payouts>>
people == <<open, joined, bound, claim, activated>>
vars == <<people, paidAt, ledger, rule, now, tx, answered>>

-----------------------------------------------------------------------------
Idle == [op |-> "none"]

Goes(t, next) == tx' = [tx EXCEPT ![t] = next]

\* Rows and advisory locks that uncommitted transactions hold.
ClaimHeld(s, u) == tx[s].op = "project" /\ u \in tx[s].held
OrderHeld(o) == \E s \in Threads : tx[s].op = "project" /\ o \in tx[s].orders
EarningHeld(o, r) ==
  \E s \in Threads : tx[s].op = "refund" /\ tx[s].order = o /\ tx[s].rule = r
PayoutHeld(p) == \E s \in Threads : tx[s].op = "payout" /\ tx[s].partner = p

Commission(cents) == (cents * RateBps) \div 10000

Eligible(order, at) == paidAt[order] > 0 /\ paidAt[order] + HoldTicks <= at

Month(at) == at \div MonthTicks

Earned(p, at) ==
  MapThenSumSet(LAMBDA e : e.cents, {e \in earnings : e.partner = p /\ Eligible(e.order, at)})

Reversed(p, at) ==
  MapThenSumSet(LAMBDA x : x.cents,
    {x \in reversals : /\ Eligible(x.order, at)
                       /\ \E e \in earnings : e.order = x.order /\ e.rule = x.rule /\ e.partner = p})

Reserved(p) ==
  MapThenSumSet(LAMBDA k : k.cents, {k \in payouts : k.partner = p /\ k.status # "rejected"})

Available(p, at) == Earned(p, at) - Reversed(p, at) - Reserved(p)

-----------------------------------------------------------------------------
Init ==
  /\ open = TRUE /\ joined = {} /\ activated = {}
  /\ bound = [u \in Users |-> None] /\ claim = [u \in Users |-> None]
  /\ paidAt = [o \in Orders |-> 0]
  /\ earnings = {} /\ reversals = {} /\ payouts = {}
  /\ rule = 1 /\ now = 1
  /\ tx = [t \in Threads |-> Idle]
  /\ answered = {}

SwitchActivity ==
  /\ open' = ~open
  /\ UNCHANGED <<joined, bound, claim, activated, paidAt, ledger, rule, now, tx, answered>>

Join(p) ==
  /\ open /\ p \notin joined
  /\ joined' = joined \cup {p}
  /\ UNCHANGED <<open, bound, claim, activated, paidAt, ledger, rule, now, tx, answered>>

\* claim_identity: the first claim of a user binds the last visit there was, of
\* a partner's link or of none, for good; it takes the reward claim if the link
\* is still active and nobody has it.
BindUser(u, l, active) ==
  /\ bound[u] = None /\ l \in joined \cup {Direct}
  /\ bound' = [bound EXCEPT ![u] = l]
  /\ claim' = IF l # Direct /\ active /\ claim[u] = None
                THEN [claim EXCEPT ![u] = l] ELSE claim
  /\ UNCHANGED <<open, joined, activated, paidAt, ledger, rule, now, tx, answered>>

\* activate_referral, under the locks of both users: the claim is inserted, or
\* found; both credits are posted only if it is for points.
ActivateReferral(u) ==
  /\ u \notin activated /\ \A t \in Threads : ~ClaimHeld(t, u)
  /\ claim[u] \in {None, Points}
  /\ claim' = [claim EXCEPT ![u] = Points]
  /\ activated' = activated \cup {u}
  /\ UNCHANGED <<open, joined, bound, paidAt, ledger, rule, now, tx, answered>>

PayOrder(o) ==
  /\ paidAt[o] = 0
  /\ paidAt' = [paidAt EXCEPT ![o] = now]
  /\ UNCHANGED <<people, ledger, rule, now, tx, answered>>

Tick ==
  /\ now < MaxNow /\ now' = now + 1
  /\ UNCHANGED <<people, paidAt, ledger, rule, tx, answered>>

\* A release with another commission rule.
NewRule ==
  /\ rule < MaxRule /\ rule' = rule + 1
  /\ UNCHANGED <<people, paidAt, ledger, now, tx, answered>>

(***************************************************************************)
(* project_paid_orders, by the analytics worker or by an administrator: a  *)
(* batch of orders is selected and locked, skipping those that another     *)
(* projection has locked; the claim of each buyer is inserted, or found,   *)
(* and locked; an earning is inserted if it is the same partner's.         *)
(***************************************************************************)
Unprojected ==
  {o \in Orders : /\ paidAt[o] > 0 /\ ~OrderHeld(o)
                  /\ bound[Buyer[o]] \in joined /\ claim[Buyer[o]] # Points
                  /\ \A e \in earnings : ~(e.order = o /\ e.rule = rule)}

SelectOrders(t, batch) ==
  /\ tx[t] = Idle /\ batch # {} /\ batch \subseteq Unprojected
  /\ Goes(t, [op |-> "project", rule |-> rule, orders |-> batch, todo |-> batch,
              held |-> {}, claimed |-> {}, earned |-> {}])
  /\ UNCHANGED <<people, paidAt, ledger, rule, now, answered>>

\* What a projection finds of a claim after its own insert.
Claimant(u) == IF claim[u] = None THEN bound[u] ELSE claim[u]

\* Mutant: the claim is taken for granted once the order was selected.
ProjectAsSelected(t, o) ==
  LET u == Buyer[o] IN
  /\ tx[t].op = "project" /\ o \in tx[t].todo
  /\ \A s \in Threads \ {t} : ~ClaimHeld(s, u)
  /\ Goes(t, [tx[t] EXCEPT !.todo = @ \ {o}, !.held = @ \cup {u},
                           !.claimed = IF claim[u] = None THEN @ \cup {u} ELSE @,
                           !.earned = IF Commission(Gross[o]) > 0 THEN @ \cup {o} ELSE @])
  /\ UNCHANGED <<people, paidAt, ledger, rule, now, answered>>

ProjectOrder(t, o) ==
  LET u == Buyer[o] IN
  /\ tx[t].op = "project" /\ o \in tx[t].todo
  /\ \A s \in Threads \ {t} : ~ClaimHeld(s, u)
  /\ Goes(t, [tx[t] EXCEPT !.todo = @ \ {o}, !.held = @ \cup {u},
                           !.claimed = IF claim[u] = None THEN @ \cup {u} ELSE @,
                           !.earned = IF Claimant(u) = bound[u] /\ Commission(Gross[o]) > 0
                                        THEN @ \cup {o} ELSE @])
  /\ UNCHANGED <<people, paidAt, ledger, rule, now, answered>>

CommitProjection(t) ==
  /\ tx[t].op = "project" /\ tx[t].todo = {}
  /\ claim' = [u \in Users |-> IF u \in tx[t].claimed THEN bound[u] ELSE claim[u]]
  /\ earnings' = earnings \cup
       {[order |-> o, rule |-> tx[t].rule, partner |-> bound[Buyer[o]],
         cents |-> Commission(Gross[o])] : o \in tx[t].earned}
  /\ Goes(t, Idle)
  /\ UNCHANGED <<open, joined, bound, activated, paidAt, reversals, payouts, rule, now, answered>>

(***************************************************************************)
(* record_refund: the latest earning of the order is locked; a reference   *)
(* that is known is answered from its entry, if it is this order's.        *)
(* Otherwise the rest of the receipt and of the commission bound what is   *)
(* reversed (refund_adjustment).  The entry is keyed by its reference; if  *)
(* another one got there first, that one is returned.                      *)
(***************************************************************************)
LatestEarnings ==
  {e \in earnings : \A other \in earnings : other.order = e.order => other.rule <= e.rule}

ReversalsOf(e) == {x \in reversals : x.order = e.order /\ x.rule = e.rule}
RefundedGross(e) == MapThenSumSet(LAMBDA x : x.gross, ReversalsOf(e))
ReversedCents(e) == MapThenSumSet(LAMBDA x : x.cents, ReversalsOf(e))

Lesser(a, b) == IF a < b THEN a ELSE b

AdjustedGross(e, cents) == Lesser(Gross[e.order] - RefundedGross(e), cents)

Reversal(e, cents) ==
  LET remaining == e.cents - ReversedCents(e)
      adjusted == AdjustedGross(e, cents)
  IN IF adjusted = Gross[e.order] - RefundedGross(e) THEN remaining
     ELSE Lesser(remaining, Commission(adjusted))

RepeatedRefund(t, e, ref) ==
  /\ tx[t] = Idle /\ ~EarningHeld(e.order, e.rule)
  /\ \E x \in reversals : x.ref = ref /\ x.rule = e.rule /\ x.order = e.order
  /\ answered' = answered \cup {<<e.order, ref>>}
  /\ UNCHANGED <<people, paidAt, ledger, rule, now, tx>>

\* Mutant: the earning is read without FOR UPDATE.
LockEarningUnlocked(t, e, ref, cents) ==
  /\ tx[t] = Idle
  /\ \A x \in reversals : ~(x.ref = ref /\ x.rule = e.rule)
  /\ AdjustedGross(e, cents) > 0 /\ Reversal(e, cents) > 0
  /\ Goes(t, [op |-> "refund", order |-> e.order, rule |-> e.rule, ref |-> ref,
              gross |-> AdjustedGross(e, cents), cents |-> Reversal(e, cents)])
  /\ UNCHANGED <<people, paidAt, ledger, rule, now, answered>>

LockEarning(t, e, ref, cents) ==
  /\ tx[t] = Idle /\ ~EarningHeld(e.order, e.rule)
  /\ \A x \in reversals : ~(x.ref = ref /\ x.rule = e.rule)
  /\ AdjustedGross(e, cents) > 0 /\ Reversal(e, cents) > 0
  /\ Goes(t, [op |-> "refund", order |-> e.order, rule |-> e.rule, ref |-> ref,
              gross |-> AdjustedGross(e, cents), cents |-> Reversal(e, cents)])
  /\ UNCHANGED <<people, paidAt, ledger, rule, now, answered>>

InsertReversal(t) ==
  LET entry == [order |-> tx[t].order, rule |-> tx[t].rule, ref |-> tx[t].ref,
                gross |-> tx[t].gross, cents |-> tx[t].cents] IN
  /\ tx[t].op = "refund"
  /\ reversals' = IF \E x \in reversals : x.ref = entry.ref /\ x.rule = entry.rule
                    THEN reversals ELSE reversals \cup {entry}
  /\ answered' = answered \cup {<<entry.order, entry.ref>>}
  /\ Goes(t, Idle)
  /\ UNCHANGED <<people, paidAt, earnings, payouts, rule, now>>

(***************************************************************************)
(* request_payout: the month follows from a clock that is read before the  *)
(* partner's lock is taken; under the lock everything that is available is *)
(* requested, once a month.                                                *)
(***************************************************************************)
AskPayout(t, p) ==
  /\ tx[t] = Idle /\ p \in joined
  /\ Goes(t, [op |-> "ask", partner |-> p, at |-> now])
  /\ UNCHANGED <<people, paidAt, ledger, rule, now, answered>>

RequestedIn(p, month) == \E k \in payouts : k.partner = p /\ k.period = month

\* Mutant: no advisory lock.
SumUnlocked(t) ==
  LET p == tx[t].partner  at == tx[t].at IN
  /\ tx[t].op = "ask"
  /\ Goes(t, IF ~RequestedIn(p, Month(at)) /\ Available(p, at) >= Minimum
               THEN [op |-> "payout", partner |-> p, at |-> at, cents |-> Available(p, at)]
               ELSE Idle)
  /\ UNCHANGED <<people, paidAt, ledger, rule, now, answered>>

SumAvailable(t) ==
  LET p == tx[t].partner  at == tx[t].at IN
  /\ tx[t].op = "ask" /\ ~PayoutHeld(p)
  /\ Goes(t, IF ~RequestedIn(p, Month(at)) /\ Available(p, at) >= Minimum
               THEN [op |-> "payout", partner |-> p, at |-> at, cents |-> Available(p, at)]
               ELSE Idle)
  /\ UNCHANGED <<people, paidAt, ledger, rule, now, answered>>

\* A second request of the month would break the table's unique key.
InsertPayout(t) ==
  LET request == [partner |-> tx[t].partner, period |-> Month(tx[t].at),
                  cents |-> tx[t].cents, status |-> "requested"] IN
  /\ tx[t].op = "payout"
  /\ payouts' = IF RequestedIn(request.partner, request.period) THEN payouts
                ELSE payouts \cup {request}
  /\ Goes(t, Idle)
  /\ UNCHANGED <<people, paidAt, earnings, reversals, rule, now, answered>>

\* transition_payout, on the locked row; a rejection gives the amount back.
DecidePayout(k, status) ==
  /\ \/ k.status = "requested" /\ status \in {"approved", "rejected"}
     \/ k.status = "approved" /\ status \in {"paid", "rejected"}
  /\ payouts' = (payouts \ {k}) \cup {[k EXCEPT !.status = status]}
  /\ UNCHANGED <<people, paidAt, earnings, reversals, rule, now, tx, answered>>

\* A connection breaks, a statement times out or closes a cycle of waiting
\* transactions: everything is rolled back.
Abort(t) ==
  /\ tx[t] # Idle
  /\ Goes(t, Idle)
  /\ UNCHANGED <<people, paidAt, ledger, rule, now, answered>>

-----------------------------------------------------------------------------
Work(t) ==
  \/ (\E batch \in SUBSET Unprojected : SelectOrders(t, batch))
  \/ (\E o \in Orders : ProjectOrder(t, o)) \/ CommitProjection(t)
  \/ \E e \in LatestEarnings, ref \in Refs :
       RepeatedRefund(t, e, ref) \/ \E cents \in RefundCents : LockEarning(t, e, ref, cents)
  \/ InsertReversal(t)
  \/ (\E p \in Partners : AskPayout(t, p)) \/ SumAvailable(t) \/ InsertPayout(t)
  \/ Abort(t)

Next ==
  \/ SwitchActivity \/ Tick \/ NewRule
  \/ \E p \in Partners : Join(p)
  \/ \E u \in Users :
       (\E l \in Partners \cup {Direct}, active \in BOOLEAN : BindUser(u, l, active))
       \/ ActivateReferral(u)
  \/ \E o \in Orders : PayOrder(o)
  \/ \E k \in payouts, status \in {"approved", "rejected", "paid"} : DecidePayout(k, status)
  \/ \E t \in Threads : Work(t)

Spec == Init /\ [][Next]_vars

-----------------------------------------------------------------------------
Rewards == Partners \cup {None, Points}

Transactions ==
  {Idle}
  \cup [op : {"project"}, rule : 1..MaxRule, orders : SUBSET Orders, todo : SUBSET Orders,
        held : SUBSET Users, claimed : SUBSET Users, earned : SUBSET Orders]
  \cup [op : {"refund"}, order : Orders, rule : 1..MaxRule, ref : Refs, gross : Nat, cents : Nat]
  \cup [op : {"ask"}, partner : Partners, at : Nat]
  \cup [op : {"payout"}, partner : Partners, at : Nat, cents : Nat]

\* Every table and transaction has its type.
TypeOK ==
  /\ open \in BOOLEAN /\ joined \subseteq Partners /\ activated \subseteq Users
  /\ bound \in [Users -> Partners \cup {None, Direct}] /\ claim \in [Users -> Rewards]
  /\ paidAt \in [Orders -> Nat] /\ rule \in Nat /\ now \in Nat
  /\ earnings \subseteq [order : Orders, rule : 1..MaxRule, partner : Partners, cents : Nat]
  /\ reversals \subseteq [order : Orders, rule : 1..MaxRule, ref : Refs, gross : Nat, cents : Nat]
  /\ payouts \subseteq [partner : Partners, period : Nat, cents : Nat,
                        status : {"requested", "approved", "rejected", "paid"}]
  /\ tx \in [Threads -> Transactions]
  /\ answered \subseteq Orders \X Refs

\* A user is rewarded under one programme and for one partner: who got points
\* earns nobody a commission, and commissions are those of the partner who has
\* the claim, in whatever order activations and projections meet.
OneReward ==
  /\ \A u \in activated : claim[u] = Points
  /\ \A e \in earnings : claim[Buyer[e.order]] = e.partner

\* However refunds of an order overlap, no more is reversed than was earned,
\* and an order refunded in full leaves nothing of its commission.
RefundsFit ==
  \A e \in earnings :
    /\ RefundedGross(e) <= Gross[e.order] /\ ReversedCents(e) <= e.cents
    /\ RefundedGross(e) = Gross[e.order] => ReversedCents(e) = e.cents

\* What has been paid out or is asked for was earned and past its hold, once:
\* requests of two months cannot take the same commission.
PaidOutWasEarned == \A p \in Partners : Reserved(p) <= Earned(p, now)

\* A refund that was answered with success is in the ledger, under its order.
AnsweredRefundIsRecorded ==
  \A a \in answered : \E x \in reversals : x.order = a[1] /\ x.ref = a[2]

\* An order that was refunded in full contributes no commission.
RefundedEarnsNothing ==
  \A e \in earnings :
    RefundedGross(e) = Gross[e.order] =>
      \A other \in earnings : other.order = e.order => ReversedCents(other) = other.cents
=============================================================================
