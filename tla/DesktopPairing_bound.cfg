CONSTANTS
  s1 = s1 s2 = s2 alice = alice bob = bob page = page other = other
  Sessions = {s1, s2}
  Users = {alice, bob}
  Callers = {page, other}
  Desks = {d1}
  Serves <- MCServes
  Pins = {s1}
  MaxGeneration = 2
  Nil = Nil
SPECIFICATION PairingSpec
SYMMETRY Symmetry
INVARIANTS  BoundIsHeard 
CHECK_DEADLOCK FALSE
