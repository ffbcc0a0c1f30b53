SPECIFICATION FairSpec
CONSTANTS
  None = none  Rosetta = rosetta  Stranger = stranger
  MaxCards = 2  MaxConfigs = 2  MaxFaults = 3
INVARIANTS TypeOK LaunchApproved
PROPERTIES ActivatedComplete ActivationCompletes
CHECK_DEADLOCK FALSE
