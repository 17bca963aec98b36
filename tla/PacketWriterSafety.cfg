SPECIFICATION WriterSpec
CONSTANTS
  NDevices = 3
  Ethernet <- MCEthernet
  MaxAddresses = 2
  MaxRounds = 2
  Room = 82
  Lengths <- MCLengths
  Word = 90
INVARIANTS BuffersSpent ServedOnSuccess NeverPastRoom LengthsTrue NothingKept
PROPERTY TransmitSpec
CHECK_DEADLOCK FALSE
