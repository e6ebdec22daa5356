--------------------------- MODULE CheckoutProofs ---------------------------
(***************************************************************************)
(* What holds of Checkout for every set of orders, grants, notices and     *)
(* threads, and for every bound on the clock and on failures.              *)
(***************************************************************************)
EXTENDS Checkout, FiniteSetTheorems, TLAPS

\* No step forgets an order that was created.
OrdersStayKnown == \A r \in Orders : orders[r].status # "none" => orders'[r].status # "none"

ThreadsSound == handler \in [Handlers -> Calls] /\ HandlersAreSound

\* One order's row gets a status and a trade number.
LEMMA RowIsWritten ==
  ASSUME TypeOK, NEW o \in Orders, NEW status \in Statuses \ {"none"}, NEW e \in Events,
         orders' = [orders EXCEPT ![o] =
                      [status |-> status, trade |-> Notice[e].trade, action |-> @.action]]
  PROVE  /\ orders' \in [Orders -> OrderRows]
         /\ OrdersStayKnown
<1>1. orders \in [Orders -> OrderRows]
  BY DEF TypeOK
<1>2. orders[o].action \in {"none", "stub", "payable", "unavailable"}
  BY <1>1 DEF OrderRows
<1> DEFINE row == [status |-> status, trade |-> Notice[e].trade, action |-> orders[o].action]
<1>3. orders' = [orders EXCEPT ![o] = row]
  OBVIOUS
<1>4. row \in OrderRows /\ row.status # "none"
  BY <1>2 DEF OrderRows
<1> HIDE DEF row
<1>5. orders' \in [Orders -> OrderRows]
  BY <1>1, <1>3, <1>4
<1>6. OrdersStayKnown
  BY <1>1, <1>3, <1>4 DEF OrdersStayKnown
<1>7. QED
  BY <1>5, <1>6

\* What confirm_checkout_paid can do to the tables.
LEMMA PaymentKeepsTypes ==
  ASSUME TypeOK, NEW o \in Orders, NEW e \in Events, NEW at \in Nat,
         \/ AlreadyPaid(o) \/ RejectShort(o, Notice[e]) \/ PayOut(o, Notice[e], at)
         \/ TradeRefused(o, Notice[e])
  PROVE  /\ orders' \in [Orders -> OrderRows]
         /\ credits' \in [Orders -> Nat]
         /\ timeline' \subseteq [source : PassOrders \cup Grants, from : Nat, to : Nat]
         /\ OrdersStayKnown
<1>1. CASE AlreadyPaid(o) \/ TradeRefused(o, Notice[e])
  BY <1>1 DEF AlreadyPaid, TradeRefused, TypeOK, OrdersStayKnown
<1>2. CASE RejectShort(o, Notice[e])
  BY <1>2, RowIsWritten DEF RejectShort, TypeOK, Statuses
<1>3. CASE PayOut(o, Notice[e], at)
  <2>1. orders' \in [Orders -> OrderRows] /\ OrdersStayKnown
    BY <1>3, RowIsWritten DEF PayOut, Statuses
  <2>2. credits' \in [Orders -> Nat]
    BY <1>3 DEF PayOut, TypeOK
  <2>3. ASSUME o \in PassOrders, Extend(o, at)
        PROVE  timeline' \subseteq [source : PassOrders \cup Grants, from : Nat, to : Nat]
    <3>1. PICK from \in {at} \cup {m.to : m \in timeline} :
            timeline' = timeline \cup
              {[source |-> o, from |-> from, to |-> from + Days[o]]}
      BY <2>3 DEF Extend
    <3>2. from \in Nat /\ from + Days[o] \in Nat
      BY <2>3, <3>1, ConstantsAssumption DEF TypeOK
    <3>3. QED
      BY <2>3, <3>1, <3>2 DEF TypeOK
  <2>4. timeline' \subseteq [source : PassOrders \cup Grants, from : Nat, to : Nat]
    BY <1>3, <2>3 DEF PayOut, TypeOK
  <2>5. QED
    BY <2>1, <2>2, <2>4
<1>4. QED
  BY <1>1, <1>2, <1>3

\* A thread that is freed, or that goes on with what it remembers, stays sound.
LEMMA ThreadStaysSound ==
  ASSUME TypeOK, NEW h \in Handlers, NEW call \in Calls,
         handler' = [handler EXCEPT ![h] = call],
         OrdersStayKnown,
         call.pc \in {"recorded", "confirm", "reconcile", "concluded", "raised"} =>
           call.event \in Events /\ call.order = Notice[call.event].order,
         call.pc = "created" => call.order \in Orders,
         call.pc \in {"confirm", "reconcile"} => Known(call.order)
  PROVE  ThreadsSound'
<1>1. handler \in [Handlers -> Calls] /\ HandlersAreSound
  BY DEF TypeOK
<1>2. /\ handler' \in [Handlers -> Calls] /\ handler'[h] = call
      /\ \A t \in Handlers \ {h} : handler'[t] = handler[t]
  BY <1>1
<1>3. \A o : Known(o) => Known(o)'
  BY DEF Known, OrdersStayKnown
<1>4. HandlerIsSound(h)'
  BY <1>2, <1>3 DEF HandlerIsSound
<1>5. ASSUME NEW t \in Handlers, t # h PROVE HandlerIsSound(t)'
  <2>1. HandlerIsSound(t) /\ handler'[t] = handler[t]
    BY <1>1, <1>2, <1>5 DEF HandlersAreSound
  <2>2. QED
    BY <1>3, <2>1 DEF HandlerIsSound
<1>6. QED
  BY <1>2, <1>4, <1>5 DEF ThreadsSound, HandlersAreSound

(* The tables keep their shape, and a thread about to confirm an order     *)
(* knows it, through every transaction of billing_service's checkout       *)
(* methods, the notify handlers and adjust_time.                           *)
THEOREM TypeCorrect == Spec => []TypeOK
<1>1. Init => TypeOK
  BY ConstantsAssumption
     DEF Init, TypeOK, OrderRows, Statuses, Calls, Free, HandlersAreSound, HandlerIsSound
<1>2. TypeOK /\ [Next]_vars => TypeOK'
  <2> SUFFICES ASSUME TypeOK, [Next]_vars PROVE TypeOK'
    OBVIOUS
  <2>a. Free \in Calls /\ Free.pc = "free"
    BY DEF Free, Calls
  <2>b. ASSUME NEW h \in Handlers, handler' = [handler EXCEPT ![h] = Free],
               OrdersStayKnown
        PROVE  ThreadsSound'
    BY <2>a, <2>b, ThreadStaysSound
  <2>c. ASSUME UNCHANGED handler, OrdersStayKnown
        PROVE  ThreadsSound'
    BY <2>c DEF TypeOK, ThreadsSound, HandlersAreSound, HandlerIsSound, Known, OrdersStayKnown
  <2>d. ASSUME UNCHANGED orders
        PROVE  /\ orders' \in [Orders -> OrderRows]
               /\ OrdersStayKnown
    BY <2>d DEF TypeOK, OrdersStayKnown
  <2>e. ASSUME NEW h \in Handlers, NEW outcome \in {"paid", "ignored_not_paid"} \cup Rejections,
               Concluded(h, outcome), handler[h].pc \in {"recorded", "confirm"},
               OrdersStayKnown
        PROVE  ThreadsSound'
    <3> DEFINE call == [handler[h] EXCEPT !.pc = "concluded", !.outcome = outcome]
    <3>1. call \in Calls /\ call.pc = "concluded"
          /\ call.event = handler[h].event /\ call.order = handler[h].order
      BY DEF TypeOK, Calls
    <3>2. handler[h].event \in Events /\ handler[h].order = Notice[handler[h].event].order
      BY <2>e DEF TypeOK, HandlersAreSound, HandlerIsSound
    <3>3. handler' = [handler EXCEPT ![h] = call]
      BY <2>e DEF Concluded, TypeOK, Calls
    <3> HIDE DEF call
    <3>4. QED
      BY <2>e, <3>1, <3>2, <3>3, ThreadStaysSound
  <2>1. ASSUME NEW h \in Handlers, NEW o \in Orders, CreateOrder(h, o) PROVE TypeOK'
    <3> DEFINE call == [Free EXCEPT !.pc = "created", !.order = o]
    <3>1. call \in Calls /\ call.pc = "created" /\ call.order = o
      BY DEF Free, Calls
    <3>2. /\ orders' \in [Orders -> OrderRows]
          /\ OrdersStayKnown
      BY <2>1 DEF CreateOrder, TypeOK, OrderRows, Statuses, OrdersStayKnown
    <3>3. handler' = [handler EXCEPT ![h] = call]
      BY <2>1 DEF CreateOrder
    <3> HIDE DEF call
    <3>4. ThreadsSound'
      BY <3>1, <3>2, <3>3, ThreadStaysSound
    <3>5. QED
      BY <2>1, <3>2, <3>4 DEF CreateOrder, TypeOK, ThreadsSound
  <2>2. ASSUME NEW h \in Handlers, ReplaceAction(h) \/ MarkFailed(h) PROVE TypeOK'
    <3>1. handler[h].order \in Orders
      BY <2>2 DEF ReplaceAction, MarkFailed, TypeOK, HandlersAreSound, HandlerIsSound
    <3>2. /\ orders' \in [Orders -> OrderRows]
          /\ OrdersStayKnown
      <4>1. CASE ReplaceAction(h)
        <5>1. orders' = [orders EXCEPT ![handler[h].order].action = "payable"]
          BY <4>1 DEF ReplaceAction
        <5>2. QED
          BY <3>1, <5>1 DEF TypeOK, OrderRows, OrdersStayKnown
      <4>2. CASE MarkFailed(h)
        <5> DEFINE o == handler[h].order
                   row == [status |-> "failed", trade |-> orders[o].trade,
                           action |-> "unavailable"]
        <5>1. orders' = IF orders[o].status = "payment_pending"
                          THEN [orders EXCEPT ![o] = row] ELSE orders
          BY <4>2 DEF MarkFailed
        <5>2. row \in OrderRows /\ row.status # "none"
          BY <3>1 DEF TypeOK, OrderRows, Statuses
        <5> HIDE DEF row
        <5>3. QED
          BY <3>1, <5>1, <5>2 DEF TypeOK, OrdersStayKnown
      <4>3. QED
        BY <2>2, <4>1, <4>2
    <3>3. ThreadsSound' /\ due' \subseteq Orders
      BY <2>2, <2>b, <3>2 DEF ReplaceAction, MarkFailed, TypeOK
    <3>4. QED
      BY <2>2, <3>2, <3>3 DEF ReplaceAction, MarkFailed, TypeOK, ThreadsSound
  <2>3. ASSUME NEW o \in Orders, Lapse(o) PROVE TypeOK'
    BY <2>3, <2>c, <2>d DEF Lapse, TypeOK, ThreadsSound
  <2>4. ASSUME NEW S \in SUBSET Orders, ExpireOrders(S) PROVE TypeOK'
    <3>1. /\ orders' \in [Orders -> OrderRows]
          /\ OrdersStayKnown
      BY <2>4 DEF ExpireOrders, TypeOK, OrderRows, Statuses, OrdersStayKnown
    <3>2. QED
      BY <2>4, <2>c, <3>1 DEF ExpireOrders, TypeOK, ThreadsSound
  <2>5. ASSUME NEW h \in Handlers, NEW e \in Events, RecordCallback(h, e) PROVE TypeOK'
    <3> DEFINE call == [Free EXCEPT !.pc = "recorded", !.event = e, !.order = Notice[e].order]
    <3>1. call \in Calls /\ call.pc = "recorded" /\ call.event = e
          /\ call.order = Notice[e].order
      BY DEF Free, Calls
    <3>2. handler' = [handler EXCEPT ![h] = call] /\ UNCHANGED orders
      BY <2>5 DEF RecordCallback
    <3> HIDE DEF call
    <3>3. ThreadsSound'
      BY <2>d, <3>1, <3>2, ThreadStaysSound
    <3>4. callbacks' \in [Events -> {"none", "received", "paid", "ignored_not_paid"}
                                     \cup Rejections]
      BY <2>5 DEF RecordCallback, TypeOK
    <3>5. QED
      BY <2>5, <2>d, <3>3, <3>4 DEF RecordCallback, TypeOK, ThreadsSound
  <2>6. ASSUME NEW h \in Handlers, Judge(h) PROVE TypeOK'
    <3> DEFINE e == handler[h].event
               call == [handler[h] EXCEPT !.pc = "confirm", !.at = now]
    <3>1. /\ UNCHANGED orders /\ handler[h].pc = "recorded"
          /\ handler[h].pc \in {"recorded", "confirm"}
          /\ e \in Events /\ handler[h].order = Notice[e].order
      BY <2>6 DEF Judge, TypeOK, HandlersAreSound, HandlerIsSound
    <3>2. OrdersStayKnown
      BY <2>d, <3>1
    <3>3. ASSUME NEW outcome \in {"paid", "ignored_not_paid"} \cup Rejections,
                 Concluded(h, outcome)
          PROVE  ThreadsSound'
      BY <2>e, <3>1, <3>2, <3>3
    <3>4. ASSUME Known(Notice[e].order),
                 handler' = [handler EXCEPT ![h] = [@ EXCEPT !.pc = "confirm", !.at = now]]
          PROVE  ThreadsSound'
      <4>1. call \in Calls /\ call.pc = "confirm" /\ call.event = e
            /\ call.order = Notice[e].order
        BY <3>1 DEF TypeOK, Calls
      <4>2. handler' = [handler EXCEPT ![h] = call]
        BY <3>4
      <4>3. call.event \in Events /\ call.order = Notice[call.event].order
            /\ Known(call.order)
        BY <3>1, <3>4, <4>1
      <4>4. call.pc # "created"
        BY <4>1
      <4> HIDE DEF call, e
      <4>5. QED
        BY <3>2, <4>1, <4>2, <4>3, <4>4, ThreadStaysSound
    <3>5. \/ \E outcome \in {"paid", "ignored_not_paid"} \cup Rejections :
               Concluded(h, outcome)
          \/ /\ Known(Notice[e].order)
             /\ handler' = [handler EXCEPT ![h] = [@ EXCEPT !.pc = "confirm", !.at = now]]
      <4>1. {"invalid_signature", "unknown_order", "provider_mismatch"} \subseteq Rejections
        BY DEF Rejections
      <4>2. QED
        BY <2>6, <4>1 DEF Judge
    <3>6. ThreadsSound'
      BY <3>3, <3>4, <3>5
    <3>7. QED
      BY <2>6, <2>d, <3>6 DEF Judge, TypeOK, ThreadsSound
  <2>7. ASSUME NEW h \in Handlers, Confirm(h) PROVE TypeOK'
    <3>1. /\ handler[h].pc = "confirm" /\ handler[h].event \in Events
          /\ handler[h].order \in Orders /\ handler[h].at \in Nat
      BY <2>7 DEF Confirm, TypeOK, HandlersAreSound, HandlerIsSound, Known, Calls
    <3>2. /\ orders' \in [Orders -> OrderRows]
          /\ credits' \in [Orders -> Nat]
          /\ timeline' \subseteq [source : PassOrders \cup Grants, from : Nat, to : Nat]
          /\ OrdersStayKnown
      BY <2>7, <3>1, PaymentKeepsTypes DEF Confirm
    <3>3. \E outcome \in {"paid", "ignored_not_paid"} \cup Rejections : Concluded(h, outcome)
      BY <2>7 DEF Confirm, Rejections
    <3>4. ThreadsSound'
      BY <2>e, <3>1, <3>2, <3>3
    <3>5. QED
      BY <2>7, <3>2, <3>4 DEF Confirm, TypeOK, ThreadsSound
  <2>8. ASSUME NEW h \in Handlers, ConfirmFails(h) PROVE TypeOK'
    <3>1. ThreadsSound'
      BY <2>8, <2>d, <2>e DEF ConfirmFails, Rejections
    <3>2. QED
      BY <2>8, <2>d, <3>1 DEF ConfirmFails, TypeOK, ThreadsSound
  <2>9. ASSUME NEW h \in Handlers, RaiseIssue(h) PROVE TypeOK'
    <3> DEFINE call == [handler[h] EXCEPT !.pc = "raised"]
    <3>1. handler[h].event \in Events /\ handler[h].order = Notice[handler[h].event].order
      BY <2>9 DEF RaiseIssue, TypeOK, HandlersAreSound, HandlerIsSound
    <3>2. call \in Calls /\ call.pc = "raised" /\ call.event = handler[h].event
          /\ call.order = handler[h].order
      BY DEF TypeOK, Calls
    <3>3. handler' = [handler EXCEPT ![h] = call] /\ UNCHANGED orders
      BY <2>9 DEF RaiseIssue, TypeOK, Calls
    <3> HIDE DEF call
    <3>4. ThreadsSound'
      BY <2>d, <3>1, <3>2, <3>3, ThreadStaysSound
    <3>5. issues' \subseteq Rejections \X Events
      BY <2>9, <3>1 DEF RaiseIssue, TypeOK
    <3>6. QED
      BY <2>9, <2>d, <3>4, <3>5 DEF RaiseIssue, TypeOK, ThreadsSound
  <2>10. ASSUME NEW h \in Handlers, CompleteCallback(h) PROVE TypeOK'
    <3>1. handler[h].event \in Events /\ handler[h].outcome \in
            {"none", "paid", "ignored_not_paid"} \cup Rejections
      BY <2>10 DEF CompleteCallback, Done, TypeOK, HandlersAreSound, HandlerIsSound, Calls
    <3>2. callbacks' \in [Events -> {"none", "received", "paid", "ignored_not_paid"}
                                     \cup Rejections]
      BY <2>10, <3>1 DEF CompleteCallback, TypeOK
    <3>3. answered' \subseteq Events
      BY <2>10, <3>1 DEF CompleteCallback, TypeOK
    <3>4. ThreadsSound'
      BY <2>10, <2>b, <2>d DEF CompleteCallback
    <3>5. QED
      BY <2>10, <2>d, <3>2, <3>3, <3>4 DEF CompleteCallback, TypeOK, ThreadsSound
  <2>11. ASSUME NEW h \in Handlers, NEW e \in Events, BeginReconcile(h, e) PROVE TypeOK'
    <3> DEFINE call == [Free EXCEPT !.pc = "reconcile", !.event = e,
                                    !.order = Notice[e].order, !.at = now]
    <3>1. call \in Calls /\ call.pc = "reconcile" /\ call.event = e
          /\ call.order = Notice[e].order
      BY DEF Free, Calls, TypeOK
    <3>2. handler' = [handler EXCEPT ![h] = call] /\ UNCHANGED orders
          /\ Known(Notice[e].order)
      BY <2>11 DEF BeginReconcile
    <3> HIDE DEF call
    <3>3. ThreadsSound'
      BY <2>d, <3>1, <3>2, ThreadStaysSound
    <3>4. QED
      BY <2>11, <2>d, <3>3 DEF BeginReconcile, TypeOK, ThreadsSound
  <2>12. ASSUME NEW h \in Handlers, Reconcile(h) PROVE TypeOK'
    <3>1. /\ handler[h].event \in Events
          /\ handler[h].order \in Orders /\ handler[h].at \in Nat
      BY <2>12 DEF Reconcile, TypeOK, HandlersAreSound, HandlerIsSound, Known, Calls
    <3>2. /\ orders' \in [Orders -> OrderRows]
          /\ credits' \in [Orders -> Nat]
          /\ timeline' \subseteq [source : PassOrders \cup Grants, from : Nat, to : Nat]
          /\ OrdersStayKnown
      BY <2>12, <3>1, PaymentKeepsTypes DEF Reconcile
    <3>3. ThreadsSound'
      BY <2>12, <2>b, <3>2 DEF Reconcile
    <3>4. QED
      BY <2>12, <3>2, <3>3 DEF Reconcile, TypeOK, ThreadsSound
  <2>13. ASSUME NEW g \in Grants, BeginGrant(g) PROVE TypeOK'
    <3>1. granting' \in [Grants -> Nat \cup {-1}]
      BY <2>13 DEF BeginGrant, TypeOK
    <3>2. QED
      BY <2>13, <2>c, <2>d, <3>1 DEF BeginGrant, TypeOK, ThreadsSound
  <2>14. ASSUME NEW g \in Grants, CommitGrant(g) PROVE TypeOK'
    <3>1. PICK from \in {granting[g]} \cup {m.to : m \in timeline} :
            timeline' = timeline \cup
              {[source |-> g, from |-> from, to |-> from + Days[g]]}
      BY <2>14 DEF CommitGrant, Extend
    <3>2. from \in Nat /\ from + Days[g] \in Nat
      BY <2>14, <3>1, ConstantsAssumption DEF CommitGrant, TypeOK
    <3>3. timeline' \subseteq [source : PassOrders \cup Grants, from : Nat, to : Nat]
      BY <3>1, <3>2 DEF TypeOK
    <3>4. QED
      BY <2>14, <2>c, <2>d, <3>3 DEF CommitGrant, TypeOK, ThreadsSound
  <2>15. ASSUME NEW h \in Handlers, Crash(h) PROVE TypeOK'
    <3>1. UNCHANGED orders /\ handler' = [handler EXCEPT ![h] = Free]
      BY <2>15 DEF Crash
    <3>2. ThreadsSound' /\ orders' \in [Orders -> OrderRows]
      BY <2>b, <2>d, <3>1
    <3>3. failures' \in Nat
      BY <2>15 DEF Crash, TypeOK
    <3>4. QED
      BY <2>15, <3>2, <3>3 DEF Crash, TypeOK, ThreadsSound
  <2>16. CASE Tick
    BY <2>16, <2>c, <2>d DEF Tick, TypeOK, ThreadsSound
  <2>17. CASE UNCHANGED vars
    BY <2>17, <2>c, <2>d DEF vars, TypeOK, ThreadsSound
  <2>18. QED
    BY <2>1, <2>2, <2>3, <2>4, <2>5, <2>6, <2>7, <2>8, <2>9, <2>10, <2>11, <2>12, <2>13,
       <2>14, <2>15, <2>16, <2>17 DEF Next, Step
<1>3. QED
  BY <1>1, <1>2, PTL DEF Spec

-----------------------------------------------------------------------------
\* What one step can do to the timeline: nothing, or one extension.
LEMMA TimelineMoves ==
  ASSUME TypeOK, [Next]_vars
  PROVE  \/ UNCHANGED timeline
         \/ \E source \in PassOrders \cup Grants, at \in Nat : Extend(source, at)
<1> DEFINE Goal == \/ UNCHANGED timeline
                   \/ \E source \in PassOrders \cup Grants, at \in Nat : Extend(source, at)
<1>1. ASSUME NEW o, NEW n, NEW at \in Nat, PayOut(o, n, at) PROVE Goal
  BY <1>1 DEF PayOut
<1>2. ASSUME NEW h \in Handlers, Confirm(h) \/ Reconcile(h) PROVE Goal
  <2>1. handler[h].at \in Nat
    BY DEF TypeOK, Calls
  <2>2. QED
    BY <1>1, <1>2, <2>1 DEF Confirm, Reconcile, AlreadyPaid, RejectShort, TradeRefused
<1>3. ASSUME NEW g \in Grants, CommitGrant(g) PROVE Goal
  BY <1>3 DEF CommitGrant, TypeOK
<1>4. ASSUME NEW h \in Handlers,
             \/ \E o \in Orders : CreateOrder(h, o)
             \/ \E e \in Events : RecordCallback(h, e) \/ BeginReconcile(h, e)
             \/ ReplaceAction(h) \/ MarkFailed(h) \/ Judge(h) \/ RaiseIssue(h)
             \/ CompleteCallback(h) \/ ConfirmFails(h) \/ Crash(h)
      PROVE  UNCHANGED timeline
  BY <1>4 DEF CreateOrder, RecordCallback, BeginReconcile, ReplaceAction, MarkFailed, Judge,
              RaiseIssue, CompleteCallback, ConfirmFails, Crash
<1>5. ASSUME \/ \E o \in Orders : Lapse(o)
             \/ \E S \in SUBSET Orders : ExpireOrders(S)
             \/ \E g \in Grants : BeginGrant(g)
             \/ Tick
      PROVE  UNCHANGED timeline
  BY <1>5 DEF Lapse, ExpireOrders, BeginGrant, Tick
<1>6. QED
  BY <1>2, <1>3, <1>4, <1>5 DEF Next, Step, vars

(* Memberships never overlap and each keeps its length: every extension is *)
(* computed under the user's advisory lock from the end of all that is     *)
(* there, by confirm_checkout_paid and by adjust_time alike, so a clock    *)
(* reading taken before the lock can only be behind.                       *)
THEOREM MembershipsDoNotOverlap == Spec => []OneTimeline
<1>1. Init => OneTimeline
  BY DEF Init, OneTimeline
<1>2. TypeOK /\ OneTimeline /\ [Next]_vars => OneTimeline'
  <2> SUFFICES ASSUME TypeOK, OneTimeline, [Next]_vars PROVE OneTimeline'
    OBVIOUS
  <2>1. CASE UNCHANGED timeline
    BY <2>1 DEF OneTimeline
  <2>2. ASSUME NEW source \in PassOrders \cup Grants, NEW at \in Nat, Extend(source, at)
        PROVE  OneTimeline'
    <3>1. PICK from \in {at} \cup {m.to : m \in timeline} :
            /\ \A t \in {at} \cup {m.to : m \in timeline} : t <= from
            /\ timeline' = timeline \cup
                 {[source |-> source, from |-> from, to |-> from + Days[source]]}
      BY <2>2 DEF Extend
    <3> DEFINE new == [source |-> source, from |-> from, to |-> from + Days[source]]
    <3>2. \A m \in timeline : m.to <= new.from
      BY <3>1
    <3>3. \A m \in timeline' : m.to = m.from + Days[m.source]
      BY <3>1 DEF OneTimeline
    <3>4. \A m, n \in timeline' : m = n \/ m.to <= n.from \/ n.to <= m.from
      BY <3>1, <3>2 DEF OneTimeline
    <3>5. QED
      BY <3>3, <3>4 DEF OneTimeline
  <2>3. QED
    BY <2>1, <2>2, TimelineMoves
<1>3. QED
  BY <1>1, <1>2, TypeCorrect, PTL DEF Spec
-----------------------------------------------------------------------------
\* No order is paid or unpaid by the step, and paid ones keep their trade.
PaidOrdersKeep ==
  \A o \in Orders :
    /\ orders'[o].status = "paid" <=> orders[o].status = "paid"
    /\ orders[o].status = "paid" => orders'[o].trade = orders[o].trade

\* One step pays one order out, grants administrator time, or leaves benefits
\* and paid orders as they are.
LEMMA BenefitMoves ==
  ASSUME TypeOK, [Next]_vars
  PROVE  \/ PaidOrdersKeep /\ UNCHANGED <<credits, timeline>>
         \/ \E o \in Orders, e \in Events, at \in Nat : PayOut(o, Notice[e], at)
         \/ \E g \in Grants : CommitGrant(g)
<1>a. orders \in [Orders -> OrderRows]
  BY DEF TypeOK
<1>b. ASSUME UNCHANGED orders PROVE PaidOrdersKeep
  BY <1>b DEF PaidOrdersKeep
<1>1. ASSUME NEW h \in Handlers, NEW o \in Orders, CreateOrder(h, o)
      PROVE  PaidOrdersKeep /\ UNCHANGED <<credits, timeline>>
  BY <1>1, <1>a DEF CreateOrder, PaidOrdersKeep
<1>2. ASSUME NEW h \in Handlers, ReplaceAction(h) \/ MarkFailed(h)
      PROVE  PaidOrdersKeep /\ UNCHANGED <<credits, timeline>>
  <2>1. handler[h].order \in Orders
    BY <1>2 DEF ReplaceAction, MarkFailed, TypeOK, HandlersAreSound, HandlerIsSound
  <2>2. CASE ReplaceAction(h)
    <3>1. orders' = [orders EXCEPT ![handler[h].order].action = "payable"]
      BY <2>2 DEF ReplaceAction
    <3>2. PaidOrdersKeep
      BY <1>a, <2>1, <3>1 DEF PaidOrdersKeep, OrderRows
    <3>3. QED
      BY <2>2, <3>2 DEF ReplaceAction
  <2>3. CASE MarkFailed(h)
    <3> DEFINE o == handler[h].order
               row == [status |-> "failed", trade |-> orders[o].trade,
                       action |-> "unavailable"]
    <3>1. orders' = IF orders[o].status = "payment_pending"
                      THEN [orders EXCEPT ![o] = row] ELSE orders
      BY <2>3 DEF MarkFailed
    <3>2. row.status = "failed"
      OBVIOUS
    <3> HIDE DEF row
    <3>3. PaidOrdersKeep
      BY <1>a, <2>1, <3>1, <3>2 DEF PaidOrdersKeep
    <3>4. QED
      BY <2>3, <3>3 DEF MarkFailed
  <2>4. QED
    BY <1>2, <2>2, <2>3
<1>3. ASSUME NEW S \in SUBSET Orders, ExpireOrders(S)
      PROVE  PaidOrdersKeep /\ UNCHANGED <<credits, timeline>>
  BY <1>3, <1>a DEF ExpireOrders, PaidOrdersKeep, OrderRows
<1>4. ASSUME NEW h \in Handlers, Confirm(h) \/ Reconcile(h)
      PROVE  \/ PaidOrdersKeep /\ UNCHANGED <<credits, timeline>>
             \/ \E o \in Orders, e \in Events, at \in Nat : PayOut(o, Notice[e], at)
  <2> DEFINE o == handler[h].order
             n == Notice[handler[h].event]
  <2>1. handler[h].event \in Events /\ o \in Orders /\ handler[h].at \in Nat
    BY <1>4 DEF Confirm, Reconcile, TypeOK, HandlersAreSound, HandlerIsSound, Known, Calls
  <2>2. CASE AlreadyPaid(o) \/ TradeRefused(o, n)
    BY <1>b, <2>2 DEF AlreadyPaid, TradeRefused
  <2>3. CASE RejectShort(o, n)
    <3> DEFINE row == [status |-> "failed", trade |-> n.trade, action |-> orders[o].action]
    <3>1. orders' = [orders EXCEPT ![o] = row] /\ orders[o].status # "paid"
      BY <2>3 DEF RejectShort
    <3>2. row.status = "failed"
      OBVIOUS
    <3> HIDE DEF row
    <3>3. PaidOrdersKeep
      BY <1>a, <2>1, <3>1, <3>2 DEF PaidOrdersKeep
    <3>4. QED
      BY <2>3, <3>3 DEF RejectShort
  <2>4. CASE PayOut(o, n, handler[h].at)
    BY <2>1, <2>4
  <2>5. QED
    BY <1>4, <2>2, <2>3, <2>4 DEF Confirm, Reconcile
<1>5. ASSUME NEW h \in Handlers,
             \/ \E e \in Events : RecordCallback(h, e) \/ BeginReconcile(h, e)
             \/ Judge(h) \/ RaiseIssue(h) \/ CompleteCallback(h) \/ ConfirmFails(h) \/ Crash(h)
      PROVE  UNCHANGED <<orders, credits, timeline>>
  BY <1>5 DEF RecordCallback, BeginReconcile, Judge, RaiseIssue, CompleteCallback,
              ConfirmFails, Crash
<1>6. ASSUME \/ \E o \in Orders : Lapse(o)
             \/ \E g \in Grants : BeginGrant(g)
             \/ Tick
      PROVE  UNCHANGED <<orders, credits, timeline>>
  BY <1>6 DEF Lapse, BeginGrant, Tick
<1>7. QED
  BY <1>b, <1>1, <1>2, <1>3, <1>4, <1>5, <1>6 DEF Next, Step, vars

\* What paying an order does to the orders: that one is paid, no other changes.
LEMMA PayOutPaysOne ==
  ASSUME TypeOK, NEW o \in Orders, NEW n, NEW at, PayOut(o, n, at)
  PROVE  /\ orders[o].status # "paid" /\ orders'[o].status = "paid"
         /\ \A other \in Orders \ {o} : orders'[other] = orders[other]
<1> DEFINE row == [status |-> "paid", trade |-> n.trade, action |-> orders[o].action]
<1>1. orders' = [orders EXCEPT ![o] = row] /\ orders[o].status # "paid"
  BY DEF PayOut
<1>2. row.status = "paid"
  OBVIOUS
<1> HIDE DEF row
<1>3. QED
  BY <1>1, <1>2 DEF TypeOK

(* A paid order stays paid, with the trade number it was paid with.        *)
LEMMA PaidStays ==
  ASSUME TypeOK, [Next]_vars
  PROVE  \A o \in Orders : orders[o].status = "paid" =>
           orders'[o].status = "paid" /\ orders'[o].trade = orders[o].trade
<1>1. CASE PaidOrdersKeep
  BY <1>1 DEF PaidOrdersKeep
<1>2. CASE \E o \in Orders, e \in Events, at \in Nat : PayOut(o, Notice[e], at)
  BY <1>2, PayOutPaysOne
<1>3. CASE \E g \in Grants : CommitGrant(g)
  BY <1>3 DEF CommitGrant
<1>4. QED
  BY <1>1, <1>2, <1>3, BenefitMoves

(* A paid order stays paid, by the trade it was paid with: the statements  *)
(* of mark_checkout_failed and expire_checkout_orders spare it, and        *)
(* confirm_checkout_paid returns before it compares amounts.               *)
THEOREM PaymentsAreFinal == Spec => PaidIsFinal
<1>1. ASSUME TypeOK, [Next]_vars
      PROVE  [\A o \in Orders : orders[o].status = "paid" =>
                orders'[o].status = "paid" /\ orders'[o].trade = orders[o].trade]_vars
  BY <1>1, PaidStays
<1>2. QED
  BY <1>1, TypeCorrect, PTL DEF Spec, PaidIsFinal

-----------------------------------------------------------------------------
\* What the count of benefits needs: the timeline is a finite set.
BenefitInv == IsFiniteSet(timeline) /\ GrantedOncePaid

(* The memberships an order has bought can be counted, and there are none  *)
(* exactly when the count is zero.                                         *)
LEMMA MembershipsAreFinite ==
  ASSUME IsFiniteSet(timeline)
  PROVE  \A source : /\ IsFiniteSet(Memberships(source))
                     /\ Cardinality(Memberships(source)) \in Nat
                     /\ Cardinality(Memberships(source)) = 0 <=> Memberships(source) = {}
<1> TAKE source
<1>1. Memberships(source) \in SUBSET timeline
  BY DEF Memberships
<1>2. IsFiniteSet(Memberships(source))
  BY <1>1, FS_Subset
<1>3. QED
  BY <1>2, FS_CardinalityType, FS_EmptySet

\* An extension adds one membership of its source, and none of another's.
LEMMA ExtensionAddsOne ==
  ASSUME IsFiniteSet(timeline), NEW source, NEW at, Extend(source, at), ~OnTimeline(source)
  PROVE  /\ IsFiniteSet(timeline')
         /\ Cardinality(Memberships(source)') = 1
         /\ \A other : other # source => Memberships(other)' = Memberships(other)
<1>1. PICK from \in {at} \cup {m.to : m \in timeline} :
        timeline' = timeline \cup {[source |-> source, from |-> from, to |-> from + Days[source]]}
  BY DEF Extend
<1> DEFINE new == [source |-> source, from |-> from, to |-> from + Days[source]]
<1>2. timeline' = timeline \cup {new} /\ new.source = source
  BY <1>1
<1> HIDE DEF new
<1>3. IsFiniteSet(timeline')
  BY <1>2, FS_AddElement
<1>4. Memberships(source)' = {new}
  BY <1>2 DEF Memberships, OnTimeline
<1>5. \A other : other # source => Memberships(other)' = Memberships(other)
  BY <1>2 DEF Memberships
<1>6. QED
  BY <1>3, <1>4, <1>5, FS_Singleton

(* An order gives its points or its time exactly once, when it is paid:    *)
(* the status, the purchase_credit entry and the entitlement row are       *)
(* written by one transaction under the order's row lock.                  *)
THEOREM BenefitsGrantedOnce == Spec => []GrantedOncePaid
<1>1. Init => BenefitInv
  <2> SUFFICES ASSUME Init PROVE BenefitInv
    OBVIOUS
  <2>1. timeline = {} /\ \A o \in Orders : credits[o] = 0 /\ orders[o].status = "none"
    BY DEF Init
  <2>2. IsFiniteSet(timeline) /\ \A o : Memberships(o) = {}
    BY <2>1, FS_EmptySet DEF Memberships
  <2>3. QED
    BY <2>1, <2>2, FS_EmptySet DEF BenefitInv, GrantedOncePaid
<1>2. TypeOK /\ BenefitInv /\ [Next]_vars => BenefitInv'
  <2> SUFFICES ASSUME TypeOK, BenefitInv, [Next]_vars PROVE BenefitInv'
    OBVIOUS
  <2>0. \A o \in Orders : credits[o] \in Nat
    BY DEF TypeOK
  <2>1. CASE PaidOrdersKeep /\ UNCHANGED <<credits, timeline>>
    <3>1. \A o \in Orders : Memberships(o)' = Memberships(o) /\ credits'[o] = credits[o]
      BY <2>1 DEF Memberships
    <3>2. QED
      BY <2>1, <3>1 DEF BenefitInv, GrantedOncePaid, PaidOrdersKeep
  <2>2. ASSUME NEW o \in Orders, NEW e \in Events, NEW at \in Nat, PayOut(o, Notice[e], at)
        PROVE  BenefitInv'
    <3>1. /\ orders[o].status # "paid" /\ orders'[o].status = "paid"
          /\ \A other \in Orders \ {o} : orders'[other] = orders[other]
      BY <2>2, PayOutPaysOne
    <3>2. credits[o] = 0 /\ Memberships(o) = {} /\ Cardinality(Memberships(o)) = 0
      BY <2>0, <3>1, MembershipsAreFinite DEF BenefitInv, GrantedOncePaid
    <3>3. ~OnTimeline(o)
      BY <3>2 DEF OnTimeline, Memberships
    <3>4. CASE o \in PassOrders
      <4>1. Extend(o, at) /\ UNCHANGED credits
        BY <2>2, <3>3, <3>4 DEF PayOut
      <4>2. /\ IsFiniteSet(timeline') /\ Cardinality(Memberships(o)') = 1
            /\ \A other : other # o => Memberships(other)' = Memberships(other)
        BY <3>3, <4>1, ExtensionAddsOne DEF BenefitInv
      <4>3. QED
        BY <2>0, <3>1, <3>2, <4>1, <4>2 DEF BenefitInv, GrantedOncePaid
    <3>5. CASE o \notin PassOrders
      <4>1. credits' = [credits EXCEPT ![o] = IF @ = 0 THEN 1 ELSE @] /\ UNCHANGED timeline
        BY <2>2, <3>5 DEF PayOut
      <4>2. credits'[o] = 1 /\ \A other \in Orders \ {o} : credits'[other] = credits[other]
        BY <3>2, <4>1 DEF TypeOK
      <4>3. \A other : Memberships(other)' = Memberships(other)
        BY <4>1 DEF Memberships
      <4>4. credits'[o] + Cardinality(Memberships(o)') = 1
        BY <3>2, <4>2, <4>3
      <4>5. ASSUME NEW other \in Orders \ {o}
            PROVE  credits'[other] + Cardinality(Memberships(other)') =
                     IF orders'[other].status = "paid" THEN 1 ELSE 0
        <5>1. Cardinality(Memberships(other)') = Cardinality(Memberships(other))
          BY <4>3
        <5>2. QED
          BY <3>1, <4>2, <5>1 DEF BenefitInv, GrantedOncePaid
      <4>6. GrantedOncePaid'
        BY <3>1, <4>4, <4>5 DEF GrantedOncePaid
      <4>7. QED
        BY <4>1, <4>6 DEF BenefitInv
    <3>6. QED
      BY <3>4, <3>5
  <2>3. ASSUME NEW g \in Grants, CommitGrant(g) PROVE BenefitInv'
    <3>1. ~OnTimeline(g) /\ Extend(g, granting[g]) /\ UNCHANGED <<orders, credits>>
      BY <2>3 DEF CommitGrant
    <3>2. /\ IsFiniteSet(timeline')
          /\ \A other : other # g => Memberships(other)' = Memberships(other)
      BY <3>1, ExtensionAddsOne DEF BenefitInv
    <3>3. \A o \in Orders : Memberships(o)' = Memberships(o)
      BY <3>2, ConstantsAssumption
    <3>4. QED
      BY <3>1, <3>2, <3>3 DEF BenefitInv, GrantedOncePaid
  <2>4. QED
    BY <2>1, <2>2, <2>3, BenefitMoves
<1>3. BenefitInv => GrantedOncePaid
  BY DEF BenefitInv
<1>4. QED
  BY <1>1, <1>2, <1>3, TypeCorrect, PTL DEF Spec

-----------------------------------------------------------------------------
PaidFor(e) == Notice[e].order \in Orders /\ orders[Notice[e].order].status = "paid"

\* What a thread's outcome says is so.
OutcomeHolds(h) ==
  /\ handler[h].outcome = "paid" => PaidFor(handler[h].event)
  /\ handler[h].outcome = "ignored_not_paid" => Notice[handler[h].event].verdict # "paid"

Finishing(h) == handler[h].pc \in {"concluded", "raised"}

RaisedHasIssue(h) ==
  handler[h].pc = "raised" => <<handler[h].outcome, handler[h].event>> \in issues

\* A thread that finishes is the one of the last step, or finished before it.
LEMMA FinishingMoves ==
  ASSUME TypeOK, [Next]_vars, NEW h \in Handlers, Finishing(h)'
  PROVE  \/ handler'[h] = handler[h]
         \/ Judge(h) \/ Confirm(h) \/ ConfirmFails(h) \/ RaiseIssue(h)
<1> DEFINE Goal == \/ handler'[h] = handler[h]
                   \/ Judge(h) \/ Confirm(h) \/ ConfirmFails(h) \/ RaiseIssue(h)
<1>a. handler \in [Handlers -> Calls]
  BY DEF TypeOK
<1>1. CASE UNCHANGED handler
  BY <1>1
<1>2. ASSUME NEW t \in Handlers, NEW call, call.pc \notin {"concluded", "raised"},
             handler' = [handler EXCEPT ![t] = call]
      PROVE  Goal
  BY <1>2, <1>a DEF Finishing
<1>3. ASSUME NEW t \in Handlers,
             \/ ReplaceAction(t) \/ MarkFailed(t) \/ CompleteCallback(t) \/ Reconcile(t)
             \/ Crash(t)
      PROVE  Goal
  <2>1. handler' = [handler EXCEPT ![t] = Free]
    BY <1>3 DEF ReplaceAction, MarkFailed, CompleteCallback, Reconcile, Crash
  <2>2. QED
    BY <1>2, <2>1 DEF Free
<1>4. ASSUME NEW t \in Handlers, NEW o \in Orders, CreateOrder(t, o) PROVE Goal
  <2>1. handler' = [handler EXCEPT ![t] = [Free EXCEPT !.pc = "created", !.order = o]]
    BY <1>4 DEF CreateOrder
  <2>2. [Free EXCEPT !.pc = "created", !.order = o].pc = "created"
    BY DEF Free
  <2>3. QED
    BY <1>2, <2>1, <2>2
<1>5. ASSUME NEW t \in Handlers, NEW e \in Events, RecordCallback(t, e) PROVE Goal
  <2>1. handler' = [handler EXCEPT ![t] =
                      [Free EXCEPT !.pc = "recorded", !.event = e, !.order = Notice[e].order]]
    BY <1>5 DEF RecordCallback
  <2>2. [Free EXCEPT !.pc = "recorded", !.event = e, !.order = Notice[e].order].pc = "recorded"
    BY DEF Free
  <2>3. QED
    BY <1>2, <2>1, <2>2
<1>6. ASSUME NEW t \in Handlers, NEW e \in Events, BeginReconcile(t, e) PROVE Goal
  <2>1. handler' = [handler EXCEPT ![t] = [Free EXCEPT !.pc = "reconcile", !.event = e,
                      !.order = Notice[e].order, !.at = now]]
    BY <1>6 DEF BeginReconcile
  <2>2. [Free EXCEPT !.pc = "reconcile", !.event = e, !.order = Notice[e].order,
                     !.at = now].pc = "reconcile"
    BY DEF Free
  <2>3. QED
    BY <1>2, <2>1, <2>2
<1>7. ASSUME NEW t \in Handlers, Judge(t) \/ Confirm(t) \/ ConfirmFails(t) \/ RaiseIssue(t)
      PROVE  Goal
  <2>1. CASE t = h
    BY <1>7, <2>1
  <2>2. CASE t # h
    BY <1>7, <1>a, <2>2 DEF Judge, Confirm, ConfirmFails, RaiseIssue, Concluded
  <2>3. QED
    BY <2>1, <2>2
<1>8. ASSUME \/ \E o \in Orders : Lapse(o)
             \/ \E S \in SUBSET Orders : ExpireOrders(S)
             \/ \E g \in Grants : BeginGrant(g) \/ CommitGrant(g)
             \/ Tick
      PROVE  UNCHANGED handler
  BY <1>8 DEF Lapse, ExpireOrders, BeginGrant, CommitGrant, Tick
<1>9. QED
  BY <1>1, <1>3, <1>4, <1>5, <1>6, <1>7, <1>8 DEF Next, Step, vars

\* What the tables of notices can become in a step.
LEMMA NoticeMoves ==
  ASSUME TypeOK, [Next]_vars
  PROVE  /\ issues \subseteq issues'
         /\ \/ UNCHANGED <<callbacks, answered>>
            \/ \E h \in Handlers : CompleteCallback(h)
            \/ /\ UNCHANGED answered
               /\ \A e \in Events : callbacks'[e] = callbacks[e] \/ callbacks'[e] = "received"
<1>1. ASSUME NEW h \in Handlers, NEW e \in Events, RecordCallback(h, e)
      PROVE  /\ UNCHANGED <<answered, issues>>
             /\ \A f \in Events : callbacks'[f] = callbacks[f] \/ callbacks'[f] = "received"
  BY <1>1 DEF RecordCallback, TypeOK
<1>2. ASSUME NEW h \in Handlers, CompleteCallback(h)
      PROVE  UNCHANGED issues
  BY <1>2 DEF CompleteCallback
<1>3. ASSUME NEW h \in Handlers,
             \/ \E o \in Orders : CreateOrder(h, o)
             \/ \E e \in Events : BeginReconcile(h, e)
             \/ ReplaceAction(h) \/ MarkFailed(h) \/ Judge(h) \/ Confirm(h) \/ RaiseIssue(h)
             \/ Reconcile(h) \/ ConfirmFails(h) \/ Crash(h)
      PROVE  UNCHANGED <<callbacks, answered>> /\ issues \subseteq issues'
  BY <1>3 DEF CreateOrder, BeginReconcile, ReplaceAction, MarkFailed, Judge, Confirm,
              RaiseIssue, Reconcile, ConfirmFails, Crash
<1>4. ASSUME \/ \E o \in Orders : Lapse(o)
             \/ \E S \in SUBSET Orders : ExpireOrders(S)
             \/ \E g \in Grants : BeginGrant(g) \/ CommitGrant(g)
             \/ Tick
      PROVE  UNCHANGED <<callbacks, answered, issues>>
  BY <1>4 DEF Lapse, ExpireOrders, BeginGrant, CommitGrant, Tick
<1>5. QED
  BY <1>1, <1>2, <1>3, <1>4 DEF Next, Step, vars

RejectionInv == RejectionsAreRaised /\ \A h \in Handlers : RaisedHasIssue(h)

(* No rejection is recorded without its issue: process_payment_notification *)
(* creates the issue in a transaction before the one that records the      *)
(* outcome, and issues are only closed, never dropped.                     *)
THEOREM RejectionsLeaveIssues == Spec => []RejectionsAreRaised
<1>1. Init => RejectionInv
  BY DEF Init, Free, RejectionInv, RejectionsAreRaised, RaisedHasIssue, Rejections
<1>2. TypeOK /\ RejectionInv /\ [Next]_vars => RejectionInv'
  <2> SUFFICES ASSUME TypeOK, RejectionInv, [Next]_vars PROVE RejectionInv'
    OBVIOUS
  <2>1. issues \subseteq issues'
    BY NoticeMoves
  <2>2. ASSUME NEW h \in Handlers PROVE RaisedHasIssue(h)'
    <3>1. CASE handler'[h] = handler[h]
      BY <2>1, <3>1 DEF RejectionInv, RaisedHasIssue
    <3>2. CASE RaiseIssue(h)
      <4>1. /\ handler'[h].outcome = handler[h].outcome
            /\ handler'[h].event = handler[h].event
            /\ <<handler[h].outcome, handler[h].event>> \in issues'
        BY <3>2 DEF RaiseIssue, TypeOK, Calls
      <4>2. QED
        BY <4>1 DEF RaisedHasIssue
    <3>3. CASE Judge(h) \/ Confirm(h) \/ ConfirmFails(h)
      <4>1. ASSUME NEW outcome, Concluded(h, outcome) PROVE handler'[h].pc = "concluded"
        BY <4>1 DEF Concluded, TypeOK, Calls
      <4>2. ASSUME handler' = [handler EXCEPT ![h] = [@ EXCEPT !.pc = "confirm", !.at = now]]
            PROVE  handler'[h].pc = "confirm"
        BY <4>2 DEF TypeOK, Calls
      <4>3. handler'[h].pc # "raised"
        BY <3>3, <4>1, <4>2 DEF Judge, Confirm, ConfirmFails
      <4>4. QED
        BY <4>3 DEF RaisedHasIssue
    <3>4. QED
      BY <3>1, <3>2, <3>3, FinishingMoves DEF Finishing, RaisedHasIssue
  <2>3. RejectionsAreRaised'
    <3>1. ASSUME NEW h \in Handlers, CompleteCallback(h), NEW e \in Events,
                 callbacks'[e] \in Rejections
          PROVE  <<callbacks'[e], e>> \in issues'
      <4>1. CASE e = handler[h].event
        <5>1. callbacks'[e] = handler[h].outcome
          BY <3>1, <4>1 DEF CompleteCallback, TypeOK
        <5>2. handler[h].pc = "raised"
          BY <3>1, <5>1 DEF CompleteCallback, Done
        <5>3. <<handler[h].outcome, handler[h].event>> \in issues
          BY <5>2 DEF RejectionInv, RaisedHasIssue
        <5>4. QED
          BY <2>1, <4>1, <5>1, <5>3
      <4>2. CASE e # handler[h].event
        <5>1. callbacks'[e] = callbacks[e]
          BY <3>1, <4>2 DEF CompleteCallback, TypeOK
        <5>2. QED
          BY <2>1, <3>1, <5>1 DEF RejectionInv, RejectionsAreRaised
      <4>3. QED
        BY <4>1, <4>2
    <3>2. ASSUME \A e \in Events : callbacks'[e] = callbacks[e] \/ callbacks'[e] = "received",
                 NEW e \in Events, callbacks'[e] \in Rejections
          PROVE  <<callbacks'[e], e>> \in issues'
      BY <2>1, <3>2 DEF RejectionInv, RejectionsAreRaised, Rejections
    <3>3. QED
      BY <3>1, <3>2, NoticeMoves DEF RejectionsAreRaised
  <2>4. QED
    BY <2>2, <2>3 DEF RejectionInv
<1>3. RejectionInv => RejectionsAreRaised
  BY DEF RejectionInv
<1>4. QED
  BY <1>1, <1>2, <1>3, TypeCorrect, PTL DEF Spec

-----------------------------------------------------------------------------
AnswerInv ==
  /\ \A e \in answered : Notice[e].verdict = "paid" => PaidFor(e)
  /\ \A h \in Handlers : Finishing(h) => OutcomeHolds(h)

\* A thread that concludes is right about the order it concluded on.
LEMMA OutcomesAreRight ==
  ASSUME TypeOK, [Next]_vars, NEW h \in Handlers, Finishing(h)',
         Judge(h) \/ Confirm(h) \/ ConfirmFails(h)
  PROVE  OutcomeHolds(h)'
<1> DEFINE e == handler[h].event
           o == handler[h].order
<1>a. ASSUME NEW outcome, Concluded(h, outcome)
      PROVE  handler'[h].outcome = outcome /\ handler'[h].event = e
  BY <1>a DEF Concluded, TypeOK, Calls
<1>1. CASE Judge(h)
  <2>1. \/ Concluded(h, "invalid_signature")
        \/ Concluded(h, "ignored_not_paid") /\ Notice[e].verdict = "unpaid"
        \/ Concluded(h, "unknown_order")
        \/ Concluded(h, "provider_mismatch")
        \/ handler' = [handler EXCEPT ![h] = [@ EXCEPT !.pc = "confirm", !.at = now]]
    BY <1>1 DEF Judge
  <2>2. handler' # [handler EXCEPT ![h] = [@ EXCEPT !.pc = "confirm", !.at = now]]
    BY DEF Finishing, TypeOK, Calls
  <2>3. QED
    BY <1>a, <2>1, <2>2 DEF OutcomeHolds
<1>2. CASE ConfirmFails(h)
  BY <1>a, <1>2 DEF ConfirmFails, OutcomeHolds
<1>3. CASE Confirm(h)
  <2>1. o \in Orders /\ o = Notice[e].order
    BY <1>3 DEF Confirm, TypeOK, HandlersAreSound, HandlerIsSound, Known
  <2>2. CASE AlreadyPaid(o) /\ Concluded(h, "paid")
    <3>1. orders'[o].status = "paid"
      BY <2>2 DEF AlreadyPaid
    <3>2. QED
      BY <1>a, <2>1, <2>2, <3>1 DEF OutcomeHolds, PaidFor
  <2>3. CASE PayOut(o, Notice[e], handler[h].at) /\ Concluded(h, "paid")
    <3>1. orders'[o].status = "paid"
      BY <2>1, <2>3, PayOutPaysOne
    <3>2. QED
      BY <1>a, <2>1, <2>3, <3>1 DEF OutcomeHolds, PaidFor
  <2>4. CASE Concluded(h, "amount_mismatch") \/ Concluded(h, "processing_failure")
    BY <1>a, <2>4 DEF OutcomeHolds
  <2>5. QED
    BY <1>3, <2>2, <2>3, <2>4 DEF Confirm
<1>4. QED
  BY <1>1, <1>2, <1>3

(* A provider that was told of success may stop: the order of its notice   *)
(* is paid. The endpoints answer from the outcome, the outcome is read off *)
(* the order under its row lock, and payment is final.                     *)
THEOREM SuccessMeansPaid == Spec => []AnsweredIsPaid
<1>1. Init => AnswerInv
  BY DEF Init, AnswerInv, Finishing, Free
<1>2. TypeOK /\ AnswerInv /\ [Next]_vars => AnswerInv'
  <2> SUFFICES ASSUME TypeOK, AnswerInv, [Next]_vars PROVE AnswerInv'
    OBVIOUS
  <2>1. \A e : PaidFor(e) => PaidFor(e)'
    BY PaidStays DEF PaidFor
  <2>2. ASSUME NEW h \in Handlers, Finishing(h)' PROVE OutcomeHolds(h)'
    <3>1. CASE handler'[h] = handler[h]
      BY <2>1, <2>2, <3>1 DEF AnswerInv, Finishing, OutcomeHolds
    <3>2. CASE RaiseIssue(h)
      <4>1. /\ handler'[h].outcome = handler[h].outcome
            /\ handler'[h].event = handler[h].event
            /\ Finishing(h)
        BY <3>2 DEF RaiseIssue, Finishing, TypeOK, Calls
      <4>2. QED
        BY <2>1, <4>1 DEF AnswerInv, OutcomeHolds
    <3>3. QED
      BY <2>2, <3>1, <3>2, FinishingMoves, OutcomesAreRight
  <2>3. ASSUME NEW e \in answered', Notice[e].verdict = "paid" PROVE PaidFor(e)'
    <3>1. CASE e \in answered
      BY <2>1, <2>3, <3>1 DEF AnswerInv
    <3>2. CASE e \notin answered
      <4>1. PICK h \in Handlers : CompleteCallback(h)
        BY <3>2, NoticeMoves
      <4>2. e = handler[h].event /\ Accepted(h) /\ Done(h)
        BY <3>2, <4>1 DEF CompleteCallback
      <4>3. OutcomeHolds(h)
        BY <4>2 DEF AnswerInv, Done, Finishing
      <4>4. PaidFor(e)
        BY <2>3, <4>2, <4>3 DEF Accepted, OutcomeHolds
      <4>5. QED
        BY <2>1, <4>4
    <3>3. QED
      BY <3>1, <3>2
  <2>4. QED
    BY <2>2, <2>3 DEF AnswerInv
<1>3. AnswerInv => AnsweredIsPaid
  BY DEF AnswerInv, AnsweredIsPaid, PaidFor
<1>4. QED
  BY <1>1, <1>2, <1>3, TypeCorrect, PTL DEF Spec
=============================================================================
