\* Normal mode, any SDK, a deadline, a restart.
CONSTANTS
  Flow = {f1, f2}
  Dataset = {primary, other}
  Token = {t1, t2}
  StartCall = {s1, s2}
  TermCall = {x1}
  GetCall = {g1}
  Primary = primary
  TckMode = FALSE
  StoreCanFail = FALSE
  NotAfter = 1
  NoDeadline = NoDeadline
  None = None
  MaxTime = 2
  MaxRestarts = 1
SPECIFICATION Spec
SYMMETRY Symmetry
INVARIANTS
  LiveTokenHasOffer
  GrantedTokensLive
  DeadlineEnforced
  TerminatedTokensStayDead
PROPERTIES
  RefinesAccessControl
\* Calls are finite in number: the system stops when all are made.
CHECK_DEADLOCK FALSE
