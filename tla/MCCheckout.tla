----------------------------- MODULE MCCheckout -----------------------------
(* A user's two orders, a pass and a points pack, and the notices that can *)
(* go wrong about them.                                                    *)
EXTENDS Checkout, TLC

CONSTANTS h1, h2, passOrder, packOrder, foreign, grant,
          good, short, forged, stray, reused, early, wrong, t1, t2, t3

MCDays == [s \in PassOrders \cup Grants |-> IF s = grant THEN 1 ELSE 2]
MCProvider == [o \in Orders |-> IF o = passOrder THEN "alipay" ELSE "mzfpay"]
MCWechat   == [o \in Orders |-> "wechat"]

NoticeOf(verdict, order, provider, trade, full) ==
  [verdict |-> verdict, order |-> order, provider |-> provider, trade |-> trade,
   full |-> full]

Symmetry == Permutations(Handlers)

MCNotice == [e \in Events |->
  CASE e = good   -> NoticeOf("paid", passOrder, Provider[passOrder], t1, TRUE)
    [] e = short  -> NoticeOf("paid", passOrder, Provider[passOrder], t2, FALSE)
    [] e = forged -> NoticeOf("forged", passOrder, Provider[passOrder], t1, TRUE)
    [] e = early  -> NoticeOf("unpaid", packOrder, "mzfpay", t3, TRUE)
    [] e = reused -> NoticeOf("paid", packOrder, "mzfpay", t2, TRUE)
    [] e = wrong  -> NoticeOf("paid", passOrder, "mzfpay", t1, TRUE)
    [] e = stray  -> NoticeOf("paid", foreign, "alipay", t3, TRUE)]
=============================================================================
