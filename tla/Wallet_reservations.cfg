CONSTANTS
  c1 = c1 c2 = c2 answer = answer exam = exam q1 = q1 q2 = q2 doc = doc
  pass1 = pass1 purchase = purchase adjust = adjust None = None
  Callers = {c1, c2}
  Usages = {answer}
  UsagePoints <- MCUsagePoints
  WalletOnly = {}
  Quotes = {q1, q2}
  QuoteDoc <- MCQuoteDoc
  QuotePoints <- MCQuotePoints
  Passes = {pass1}
  Allowance <- MCAllowance
  Credits = {purchase}
  CreditPoints <- MCCredit
  WelcomePoints = 2
  Debits = {adjust}
  DebitPoints <- MCDebit
SPECIFICATION FairSpec
INVARIANTS AllowanceConserved LedgerMatchesReservations SolventUnlessDisturbed
PROPERTIES ChargesOnce EveryCallReturns
