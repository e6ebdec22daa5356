CONSTANTS
  h1 = h1 h2 = h2 passOrder = passOrder packOrder = packOrder foreign = foreign
  grant = grant good = good short = short forged = forged stray = stray
  reused = reused early = early wrong = wrong t1 = t1 t2 = t2 t3 = t3 None = None
  Handlers = {h1}
  Orders = {passOrder, packOrder}
  PassOrders = {passOrder}
  Provider <- MCProvider
  Grants = {grant}
  Days <- MCDays
  Events = {good, short, reused, wrong, early}
  Notice <- MCNotice
  MaxNow = 1
  MaxFailures = 0
SPECIFICATION Spec
INVARIANTS RejectionsAreRaised GrantedOncePaid OneTimeline AnsweredIsPaid
