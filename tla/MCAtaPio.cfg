CONSTANTS
  BYTE = 2
  POLLS = 2
  Machines <- MCMachines
  Lbas = {8}
  Counts = {0, 2}
  Values = {0, 1}
SPECIFICATION FairSpec
INVARIANT DeliversWhatTheDriveHolds
PROPERTY WritesWhereAsked
PROPERTY BoundedCallsReturn
