CONSTANTS
  p1 = p1
  p2 = p2
  u1 = u1
  o1 = o1
  o2 = o2
  Users = {u1}
  Partners = {p1, p2}
  Orders = {o1, o2}
  Buyer <- MCBuyer
  Gross <- MCGross
  RateBps = 2000
  Refs = {r1, r2}
  RefundCents = {7, 10}
  Minimum = 1
  HoldTicks = 1
  MonthTicks = 1
  MaxNow = 3
  MaxRule = 2
  Threads = {t1, t2}
  None = None
  Direct = Direct
  Points = Points
SPECIFICATION Spec
SYMMETRY Symmetry
INVARIANTS  RefundsFit PaidOutWasEarned
CONSTRAINT Focused
