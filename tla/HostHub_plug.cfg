CONSTANTS
  NPorts = 2
  RootTries = 2
  MaxMoves = 7
  MaxFaults = 2
SPECIFICATION FairSpec
INVARIANTS HostTypeOK AddressIsOwn
PROPERTIES DevicesAreFound
