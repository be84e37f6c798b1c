\* Control planes that need not answer, or answer only once they are answered.
CONSTANTS
  Port = {p1, p2}
  Zero = Zero
  None = None
  ControlPlane = {"silent", "probes"}
  MaxRuns = 1
SPECIFICATION FairSpec
PROPERTIES
  RegistrationNeverBlocksServing
\* The last run may be over, with every port as it is.
CHECK_DEADLOCK FALSE
