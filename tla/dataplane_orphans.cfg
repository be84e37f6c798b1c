\* Repeated STARTs, STARTs and TERMINATEs that fail after their hook, retries.
CONSTANTS
  Flow = {f1, f2}
  Dataset = {primary}
  Token = {t1, t2, t3}
  StartCall = {s1, s2, s3}
  TermCall = {x1, x2}
  GetCall = {}
  Primary = primary
  TckMode = FALSE
  StoreCanFail = FALSE
  NotAfter = NoDeadline
  NoDeadline = NoDeadline
  None = None
  MaxTime = 0
  MaxRestarts = 1
SPECIFICATION Spec
SYMMETRY Symmetry
INVARIANTS
  EndedStartsRevoked
\* Calls are finite in number: the system stops when all are made.
CHECK_DEADLOCK FALSE
