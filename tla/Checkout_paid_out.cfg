CONSTANTS
  h1 = h1 h2 = h2 passOrder = passOrder packOrder = packOrder foreign = foreign
  grant = grant good = good short = short forged = forged stray = stray
  reused = reused early = early wrong = wrong t1 = t1 t2 = t2 t3 = t3 None = None
  Handlers = {h1, h2}
  Orders = {passOrder}
  PassOrders = {passOrder}
  Provider <- MCWechat
  Grants = {}
  Days <- MCDays
  Events = {good, short}
  Notice <- MCNotice
  MaxNow = 0
  MaxFailures = 1
SPECIFICATION FairSpec
PROPERTY EveryPaymentIsPaidOut
