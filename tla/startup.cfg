\* Control planes that answer or cannot be reached, two runs of the process.
CONSTANTS
  Port = {p1, p2, p3}
  Zero = Zero
  None = None
  ControlPlane = {"answers", "down", "unset"}
  MaxRuns = 2
SPECIFICATION FairSpec
INVARIANTS
  StartupTypeOK
  TokensPointAtListener
  RegistrationNamesListener
  NoPhantomRegistration
PROPERTIES
  RegistrationNeverBlocksServing
  EarlyCallsAnswered
\* The last run may be over, with every port as it is.
CHECK_DEADLOCK FALSE
