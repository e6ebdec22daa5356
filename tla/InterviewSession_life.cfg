CONSTANTS
  Sessions = {s1, s2}
  Languages = {zh, en}
  Entries = {e1, e2}
  Usages = {u1}
  Threads = {t1, t2}
  Ops = {"confirm", "language", "start", "end", "delete", "restart", "append", "note", "usage"}
  None = None
SPECIFICATION Spec
CONSTRAINT ContextAlone
SYMMETRY Symmetry
INVARIANT OneLive ContextInOrder
PROPERTIES QuietEndIsFinal LifeGoesForward
CHECK_DEADLOCK FALSE
