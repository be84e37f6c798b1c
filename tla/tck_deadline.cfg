\* TCK mode with a deadline: a second START during a seeding.
CONSTANTS
  Flow = {f1, f2}
  Dataset = {primary, other}
  Token = {t1}
  StartCall = {s1, s2}
  TermCall = {x1}
  GetCall = {g1}
  Primary = primary
  TckMode = TRUE
  StoreCanFail = FALSE
  NotAfter = 0
  NoDeadline = NoDeadline
  None = None
  MaxTime = 1
  MaxRestarts = 0
SPECIFICATION Spec
SYMMETRY Symmetry
INVARIANTS
  DeadlineEnforced
\* Calls are finite in number: the system stops when all are made.
CHECK_DEADLOCK FALSE
