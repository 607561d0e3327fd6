CONSTANTS
  None = None
  MaxDevices = 2
  Addresses <- MCAddresses
  Numbers <- MCNumbers
SPECIFICATION FairSpec
INVARIANTS
  StartIsNotLost
  EndIsScheduled
PROPERTIES
  LogsOnlyChosen
  ListsOnlyInDiscovery
  ScanStartsRadio
  EndsUnlessDisturbed
