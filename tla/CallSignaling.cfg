\* One call with a bystander, two handlers at a time, one restart or failed handler.
SPECIFICATION Spec
CONSTANTS
  u1 = u1
  u2 = u2
  User = {u1, u2, u3}
  Call = {c1}
  Handler = {p1, p2}
  Caller <- CallerIs
  Callee <- CalleeIs
  HookOf <- HooksAre
  NoCall = NoCall
  EarlierCall = EarlierCall
  MaxFaults = 1
CHECK_DEADLOCK FALSE
INVARIANTS
  TypeOK
  RingCovered
PROPERTIES
  RingingEnds
  EndedCallIsLogged
  BusyEnds
  ImplementsCallLife
