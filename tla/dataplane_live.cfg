\* Clients that keep asking; seedings that fail half-way; a restart.
CONSTANTS
  Flow = {f1}
  Dataset = {primary, other}
  Token = {t1, t2}
  StartCall = {s1, s2}
  TermCall = {x1}
  GetCall = {g1}
  Primary = primary
  TckMode = TRUE
  StoreCanFail = TRUE
  NotAfter = NoDeadline
  NoDeadline = NoDeadline
  None = None
  MaxTime = 0
  MaxRestarts = 1
SPECIFICATION FairSpec
INVARIANTS
  TypeOK
PROPERTIES
  DeadTokensDrain
\* Calls are finite in number: the system stops when all are made.
CHECK_DEADLOCK FALSE
