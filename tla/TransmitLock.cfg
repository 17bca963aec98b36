SPECIFICATION TransmitSpec
CONSTANTS
  NDevices = 3
  Ethernet <- MCEthernet
  MaxAddresses = 2
  MaxRounds = 2
INVARIANT SkipReleases
CHECK_DEADLOCK FALSE
