------------------------------ MODULE Checkout ------------------------------
(***************************************************************************)
(* Official checkout of one user: orders, the payment notices a provider   *)
(* sends about them (duplicated, reordered, forged, short, after expiry),  *)
(* the administrator's reconciliation, and the membership timeline that    *)
(* paid passes and administrator grants share.                             *)
(*                                                                         *)
(* Every database transaction is one action; between two of them a thread  *)
(* can die, and any other thread can run.                                  *)
(***************************************************************************)
EXTENDS Integers, FiniteSets

CONSTANTS
  Orders,      \* order ids, one per idempotency key
  PassOrders,  \* those for a time pass; the others are points packs
  Provider,    \* the provider each order was created with
  Grants,      \* administrator time grants, by reference id
  Days,        \* duration of each pass order and of each grant
  Events,      \* payment notices, by fingerprint
  Notice,      \* [verdict, order, provider, trade, full] of each notice
  Handlers,    \* threads serving notices, checkouts and reconciliations
  MaxNow,      \* bound on the clock
  MaxFailures, \* bound on crashes and failed transactions
  None

ASSUME ConstantsAssumption ==
  /\ PassOrders \subseteq Orders /\ Orders \cap Grants = {}
  /\ Days \in [PassOrders \cup Grants -> Nat \ {0}]
  /\ \A e \in Events : Notice[e].verdict \in {"forged", "unpaid", "paid"}
  /\ \A e \in Events : Notice[e].full \in BOOLEAN /\ Notice[e].trade # None
  /\ None \notin Orders \cup Events
  /\ MaxNow \in Nat /\ MaxFailures \in Nat

VARIABLES
  orders,     \* billing_checkout_orders: status, trade number, payment action
  due,        \* pending orders whose expires_at_ms has passed
  callbacks,  \* billing_payment_callback_events: the outcome of each notice
  issues,     \* billing_reconciliation_issues: <<type, event>>
  credits,    \* purchase_credit entries of each order in the points ledger
  timeline,   \* both entitlement tables: [source, from, to]
  granting,   \* the now each administrator grant took, or -1
  handler,    \* what each thread is doing
  answered,   \* notices the provider was told are done with
  now,
  failures

vars == <<orders, due, callbacks, issues, credits, timeline, granting, handler,
          answered, now, failures>>

-----------------------------------------------------------------------------
Free == [pc |-> "free", event |-> None, order |-> None, at |-> 0, outcome |-> "none"]

Rejections == {"unknown_order", "amount_mismatch", "provider_mismatch",
               "processing_failure", "invalid_signature"}

\* Mutant: a membership starts now, whatever is still running.
ExtendFromNow(source, at) ==
  timeline' = timeline \cup {[source |-> source, from |-> at, to |-> at + Days[source]]}

\* A membership starts where the last one ends, or at the time at.
Extend(source, at) ==
  \E from \in {at} \cup {m.to : m \in timeline} :
    /\ \A t \in {at} \cup {m.to : m \in timeline} : t <= from
    /\ timeline' = timeline \cup
                     {[source |-> source, from |-> from, to |-> from + Days[source]]}

OnTimeline(source) == \E m \in timeline : m.source = source

\* provider_trade_no is unique among the orders that have one.
TradeTaken(o, trade) == \E other \in Orders \ {o} : orders[other].trade = trade

Concluded(h, outcome) ==
  handler' = [handler EXCEPT ![h] = [@ EXCEPT !.pc = "concluded", !.outcome = outcome]]

-----------------------------------------------------------------------------
Init ==
  /\ orders = [o \in Orders |-> [status |-> "none", trade |-> None, action |-> "none"]]
  /\ due = {}
  /\ callbacks = [e \in Events |-> "none"]
  /\ issues = {}
  /\ credits = [o \in Orders |-> 0]
  /\ timeline = {}
  /\ granting = [g \in Grants |-> -1]
  /\ handler = [h \in Handlers |-> Free]
  /\ answered = {}
  /\ now = 0
  /\ failures = 0

(***************************************************************************)
(* Checkout: the order is inserted, or found by its idempotency key; then  *)
(* the provider is asked for a payment url. (An order found to be another  *)
(* provider's is returned as it is: nothing changes.)                      *)
(***************************************************************************)
CreateOrder(h, o) ==
  /\ handler[h] = Free
  /\ orders' = IF orders[o].status = "none"
                 THEN [orders EXCEPT ![o] =
                         [status |-> "payment_pending", trade |-> None, action |-> "stub"]]
                 ELSE orders
  /\ handler' = [handler EXCEPT ![h] = [Free EXCEPT !.pc = "created", !.order = o]]
  /\ UNCHANGED <<due, callbacks, issues, credits, timeline, granting, answered, now, failures>>

\* The new url and its expiry are written whatever the order's status.
ReplaceAction(h) ==
  /\ handler[h].pc = "created"
  /\ orders' = [orders EXCEPT ![handler[h].order].action = "payable"]
  /\ due' = due \ {handler[h].order}
  /\ handler' = [handler EXCEPT ![h] = Free]
  /\ UNCHANGED <<callbacks, issues, credits, timeline, granting, answered, now, failures>>

\* Only WeChat has to be asked; the others' urls are computed.
MarkFailed(h) ==
  LET o == handler[h].order IN
  /\ handler[h].pc = "created" /\ Provider[o] = "wechat"
  /\ orders' = IF orders[o].status = "payment_pending"
                 THEN [orders EXCEPT ![o] =
                         [status |-> "failed", trade |-> @.trade, action |-> "unavailable"]]
                 ELSE orders
  /\ handler' = [handler EXCEPT ![h] = Free]
  /\ UNCHANGED <<due, callbacks, issues, credits, timeline, granting, answered, now, failures>>

\* expires_at_ms passes.
Lapse(o) ==
  /\ orders[o].status = "payment_pending" /\ o \notin due
  /\ due' = due \cup {o}
  /\ UNCHANGED <<orders, callbacks, issues, credits, timeline, granting, handler,
                 answered, now, failures>>

\* Whoever reads an order, the billing page or the report expires first: one
\* order or all of them.
ExpireOrders(S) ==
  /\ S # {}
  /\ \A o \in S : o \in due /\ orders[o].status = "payment_pending"
  /\ orders' = [o \in Orders |-> IF o \in S THEN [orders[o] EXCEPT !.status = "expired"]
                                          ELSE orders[o]]
  /\ UNCHANGED <<due, callbacks, issues, credits, timeline, granting, handler,
                 answered, now, failures>>

(***************************************************************************)
(* process_payment_notification. A notice can arrive again at any time, on *)
(* any thread, and is then handled from the start, whatever its outcome.   *)
(***************************************************************************)
\* Mutant: a notice that was recorded before is not handled again.
RecordCallbackOnce(h, e) ==
  /\ handler[h] = Free /\ callbacks[e] = "none"
  /\ callbacks' = [callbacks EXCEPT ![e] = "received"]
  /\ handler' = [handler EXCEPT ![h] =
                   [Free EXCEPT !.pc = "recorded", !.event = e, !.order = Notice[e].order]]
  /\ UNCHANGED <<orders, due, issues, credits, timeline, granting, answered, now, failures>>

RecordCallback(h, e) ==
  /\ handler[h] = Free
  /\ callbacks' = [callbacks EXCEPT ![e] = IF @ = "none" THEN "received" ELSE @]
  /\ handler' = [handler EXCEPT ![h] =
                   [Free EXCEPT !.pc = "recorded", !.event = e, !.order = Notice[e].order]]
  /\ UNCHANGED <<orders, due, issues, credits, timeline, granting, answered, now, failures>>

Known(o) == o \in Orders /\ orders[o].status # "none"

\* The verdict on the notice, then a plain read of its order.
Judge(h) ==
  LET n == Notice[handler[h].event] IN
  /\ handler[h].pc = "recorded"
  /\ \/ n.verdict = "forged" /\ Concluded(h, "invalid_signature")
     \/ n.verdict = "unpaid" /\ Concluded(h, "ignored_not_paid")
     \/ n.verdict = "paid" /\ ~Known(n.order) /\ Concluded(h, "unknown_order")
     \/ /\ n.verdict = "paid" /\ Known(n.order) /\ n.provider # Provider[n.order]
        /\ Concluded(h, "provider_mismatch")
     \/ /\ n.verdict = "paid" /\ Known(n.order) /\ n.provider = Provider[n.order]
        /\ handler' = [handler EXCEPT ![h] = [@ EXCEPT !.pc = "confirm", !.at = now]]
  /\ UNCHANGED <<orders, due, callbacks, issues, credits, timeline, granting,
                 answered, now, failures>>

(***************************************************************************)
(* The transaction of confirm_checkout_paid, under the order's row lock    *)
(* and, to pay out, the user's advisory lock: its four ends.               *)
(***************************************************************************)
AlreadyPaid(o) ==
  orders[o].status = "paid" /\ UNCHANGED <<orders, credits, timeline>>

\* Mutant: the amount is compared before the status.
RejectShortFirst(o, n) ==
  /\ ~n.full /\ ~TradeTaken(o, n.trade)
  /\ orders' = [orders EXCEPT ![o] =
                  [status |-> "failed", trade |-> n.trade, action |-> @.action]]
  /\ UNCHANGED <<credits, timeline>>

RejectShort(o, n) ==
  /\ orders[o].status # "paid"
  /\ ~n.full /\ ~TradeTaken(o, n.trade)
  /\ orders' = [orders EXCEPT ![o] =
                  [status |-> "failed", trade |-> n.trade, action |-> @.action]]
  /\ UNCHANGED <<credits, timeline>>

\* Mutant: a notice pays out again, under a reference of its own.
PayOutAgain(o, n, at) ==
  /\ n.full /\ ~TradeTaken(o, n.trade)
  /\ orders' = [orders EXCEPT ![o] =
                  [status |-> "paid", trade |-> n.trade, action |-> @.action]]
  /\ IF o \in PassOrders
       THEN /\ IF OnTimeline(o) THEN UNCHANGED timeline ELSE Extend(o, at)
            /\ UNCHANGED credits
       ELSE /\ credits' = [credits EXCEPT ![o] = @ + 1]
            /\ UNCHANGED timeline

PayOut(o, n, at) ==
  /\ orders[o].status # "paid"
  /\ n.full /\ ~TradeTaken(o, n.trade)
  /\ orders' = [orders EXCEPT ![o] =
                  [status |-> "paid", trade |-> n.trade, action |-> @.action]]
  /\ IF o \in PassOrders
       THEN /\ IF OnTimeline(o) THEN UNCHANGED timeline ELSE Extend(o, at)
            /\ UNCHANGED credits
       ELSE /\ credits' = [credits EXCEPT ![o] = IF @ = 0 THEN 1 ELSE @]
            /\ UNCHANGED timeline

\* The unique index on provider_trade_no refuses the write.
TradeRefused(o, n) ==
  /\ orders[o].status # "paid" /\ TradeTaken(o, n.trade)
  /\ UNCHANGED <<orders, credits, timeline>>

Confirm(h) ==
  LET o == handler[h].order
      n == Notice[handler[h].event] IN
  /\ handler[h].pc = "confirm"
  /\ \/ (AlreadyPaid(o) \/ PayOut(o, n, handler[h].at)) /\ Concluded(h, "paid")
     \/ RejectShort(o, n) /\ Concluded(h, "amount_mismatch")
     \/ TradeRefused(o, n) /\ Concluded(h, "processing_failure")
  /\ UNCHANGED <<due, callbacks, issues, granting, answered, now, failures>>

\* Any other database error in that transaction.
ConfirmFails(h) ==
  /\ handler[h].pc = "confirm" /\ failures < MaxFailures
  /\ failures' = failures + 1
  /\ Concluded(h, "processing_failure")
  /\ UNCHANGED <<orders, due, callbacks, issues, credits, timeline, granting, answered, now>>

RaiseIssue(h) ==
  /\ handler[h].pc = "concluded" /\ handler[h].outcome \in Rejections
  /\ issues' = issues \cup {<<handler[h].outcome, handler[h].event>>}
  /\ handler' = [handler EXCEPT ![h].pc = "raised"]
  /\ UNCHANGED <<orders, due, callbacks, credits, timeline, granting, answered, now, failures>>

\* Mutant: the outcome is recorded first, the issue after it.
DoneOnceConcluded(h) == handler[h].pc = "concluded"

\* All that is left is to record the outcome.
Done(h) ==
  \/ handler[h].pc = "raised"
  \/ handler[h].pc = "concluded" /\ handler[h].outcome \notin Rejections

\* Mutant: the provider is told of success whatever the outcome.
AcceptedAlways(h) == TRUE

\* Only mzfpay is asked to send an unpaid notice again.
Accepted(h) ==
  \/ handler[h].outcome = "paid"
  \/ /\ handler[h].outcome = "ignored_not_paid"
     /\ Notice[handler[h].event].provider # "mzfpay"

CompleteCallback(h) ==
  LET e == handler[h].event IN
  /\ Done(h)
  /\ callbacks' = [callbacks EXCEPT ![e] = handler[h].outcome]
  /\ answered' = IF Accepted(h) THEN answered \cup {e} ELSE answered
  /\ handler' = [handler EXCEPT ![h] = Free]
  /\ UNCHANGED <<orders, due, issues, credits, timeline, granting, now, failures>>

(***************************************************************************)
(* The administrator: reconciliation with the provider's word that an      *)
(* order was paid in full, and membership time granted by hand.            *)
(***************************************************************************)
Authority(e, o) ==
  /\ Notice[e].verdict = "paid" /\ Notice[e].order = o
  /\ Notice[e].full /\ Notice[e].provider = Provider[o]

BeginReconcile(h, e) ==
  LET o == Notice[e].order IN
  /\ handler[h] = Free
  /\ Known(o) /\ orders[o].status # "paid"
  /\ Provider[o] = "alipay" /\ Authority(e, o)
  /\ handler' = [handler EXCEPT ![h] =
                   [Free EXCEPT !.pc = "reconcile", !.event = e, !.order = o, !.at = now]]
  /\ UNCHANGED <<orders, due, callbacks, issues, credits, timeline, granting, answered,
                 now, failures>>

Reconcile(h) ==
  LET o == handler[h].order
      n == Notice[handler[h].event] IN
  /\ handler[h].pc = "reconcile"
  /\ AlreadyPaid(o) \/ PayOut(o, n, handler[h].at) \/ TradeRefused(o, n)
  /\ handler' = [handler EXCEPT ![h] = Free]
  /\ UNCHANGED <<due, callbacks, issues, granting, answered, now, failures>>

BeginGrant(g) ==
  /\ granting[g] = -1
  /\ granting' = [granting EXCEPT ![g] = now]
  /\ UNCHANGED <<orders, due, callbacks, issues, credits, timeline, handler, answered,
                 now, failures>>

CommitGrant(g) ==
  /\ granting[g] # -1 /\ ~OnTimeline(g)
  /\ Extend(g, granting[g])
  /\ UNCHANGED <<orders, due, callbacks, issues, credits, granting, handler, answered,
                 now, failures>>

-----------------------------------------------------------------------------
\* The process dies under a thread: what it committed stays.
Crash(h) ==
  /\ handler[h] # Free /\ failures < MaxFailures
  /\ failures' = failures + 1
  /\ handler' = [handler EXCEPT ![h] = Free]
  /\ UNCHANGED <<orders, due, callbacks, issues, credits, timeline, granting, answered, now>>

Tick ==
  /\ now < MaxNow
  /\ now' = now + 1
  /\ UNCHANGED <<orders, due, callbacks, issues, credits, timeline, granting, handler,
                 answered, failures>>

Step(h) ==
  \/ ReplaceAction(h) \/ MarkFailed(h)
  \/ Judge(h) \/ Confirm(h) \/ RaiseIssue(h) \/ CompleteCallback(h)
  \/ Reconcile(h)

Next ==
  \/ \E h \in Handlers, o \in Orders : CreateOrder(h, o)
  \/ \E h \in Handlers, e \in Events : RecordCallback(h, e) \/ BeginReconcile(h, e)
  \/ \E h \in Handlers : Step(h) \/ ConfirmFails(h) \/ Crash(h)
  \/ \E o \in Orders : Lapse(o)
  \/ \E S \in SUBSET Orders : ExpireOrders(S)
  \/ \E g \in Grants : BeginGrant(g) \/ CommitGrant(g)
  \/ Tick

Spec == Init /\ [][Next]_vars

\* A thread that can go on goes on, and the provider sends a notice again
\* until it is told of success.
Redelivered(e) == e \notin answered /\ \E h \in Handlers : RecordCallback(h, e)

FairSpec ==
  /\ Spec
  /\ \A h \in Handlers : WF_vars(Step(h))
  /\ \A e \in Events : SF_vars(Redelivered(e))

-----------------------------------------------------------------------------
Statuses == {"none", "payment_pending", "paid", "failed", "expired"}

\* What a thread remembers agrees with the tables.
HandlerIsSound(h) ==
  /\ handler[h].pc \in {"recorded", "confirm", "reconcile", "concluded", "raised"} =>
       handler[h].event \in Events /\ handler[h].order = Notice[handler[h].event].order
  /\ handler[h].pc = "created" => handler[h].order \in Orders
  /\ handler[h].pc \in {"confirm", "reconcile"} => Known(handler[h].order)

HandlersAreSound == \A h \in Handlers : HandlerIsSound(h)

OrderRows == [status : Statuses, trade : {Notice[e].trade : e \in Events} \cup {None},
              action : {"none", "stub", "payable", "unavailable"}]

Calls == [pc : {"free", "created", "recorded", "confirm", "concluded", "raised", "reconcile"},
          event : Events \cup {None},
          order : Orders \cup {Notice[e].order : e \in Events} \cup {None},
          at : Nat,
          outcome : {"none", "paid", "ignored_not_paid"} \cup Rejections]

(* Every variable has the shape of the table or the call it stands for,    *)
(* and what a thread remembers of an order is still true.                  *)
TypeOK ==
  /\ orders \in [Orders -> OrderRows]
  /\ due \subseteq Orders
  /\ callbacks \in [Events -> {"none", "received", "paid", "ignored_not_paid"} \cup Rejections]
  /\ issues \subseteq Rejections \X Events
  /\ credits \in [Orders -> Nat]
  /\ timeline \subseteq [source : PassOrders \cup Grants, from : Nat, to : Nat]
  /\ granting \in [Grants -> Nat \cup {-1}]
  /\ handler \in [Handlers -> Calls]
  /\ answered \subseteq Events
  /\ now \in Nat /\ failures \in Nat
  /\ HandlersAreSound

Memberships(source) == {m \in timeline : m.source = source}

(* An order's benefit, points or time, is granted when the order is paid   *)
(* and only then, and once: through duplicated, short and late notices,    *)
(* expiry, failed checkouts, reconciliation and crashes anywhere between.  *)
GrantedOncePaid ==
  \A o \in Orders :
    credits[o] + Cardinality(Memberships(o)) = IF orders[o].status = "paid" THEN 1 ELSE 0

(* Paid passes and administrator grants make one membership timeline: none *)
(* overlaps another, though each start was computed from a clock reading   *)
(* older than the lock, and each lasts the days it was sold or granted     *)
(* for.                                                                    *)
OneTimeline ==
  /\ \A m \in timeline : m.to = m.from + Days[m.source]
  /\ \A m, n \in timeline : m = n \/ m.to <= n.from \/ n.to <= m.from

(* A provider that was told of success need not send again: the order of   *)
(* that notice is paid.                                                    *)
AnsweredIsPaid ==
  \A e \in answered : Notice[e].verdict = "paid" => orders[Notice[e].order].status = "paid"

(* A notice whose recorded outcome is a rejection left an open issue for   *)
(* the operators, wherever its handling was cut short.                     *)
RejectionsAreRaised ==
  \A e \in Events : callbacks[e] \in Rejections => <<callbacks[e], e>> \in issues

(* A verified notice whose amount differs from the order's raises an       *)
(* amount_mismatch issue, as the reconciliation spec has it: it is not     *)
(* closed as paid without one.                                             *)
ShortPaymentIsRaised ==
  \A e \in Events :
    Notice[e].verdict = "paid" /\ ~Notice[e].full /\ callbacks[e] = "paid" =>
      <<"amount_mismatch", e>> \in issues

(* No expiry, failed checkout, short notice or second notice takes a paid  *)
(* order back, or rewrites the trade it was paid with.                     *)
PaidIsFinal ==
  [][\A o \in Orders : orders[o].status = "paid" =>
       orders'[o].status = "paid" /\ orders'[o].trade = orders[o].trade]_vars

Genuine(e) ==
  /\ Notice[e].order \in Orders /\ Authority(e, Notice[e].order)
  /\ \A f \in Events : Notice[f].trade = Notice[e].trade => Notice[f].order = Notice[e].order

(* A genuine payment is paid out in the end, whatever failed before it:    *)
(* the provider keeps sending a notice until it is told of success, and    *)
(* handling a notice again is safe at every point it can be cut short.     *)
EveryPaymentIsPaidOut ==
  \A e \in {f \in Events : Genuine(f)} :
    orders[Notice[e].order].status # "none"
      ~> orders[Notice[e].order].status = "paid"
=============================================================================
