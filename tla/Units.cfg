SPECIFICATION UnitsSpec
CONSTANTS
  Base = 4
  MaxLength = 7
  N = 8
  Hextets <- MCHextets
  Sources <- MCSources
  Before <- MCBefore
  FirstSize = 4
  MaxItems = 2
  Interval = 3
  Scale = 4
  Modulus = 32
  Hold = 2
  IntLimit = 8
  MaxDelay = 2
  MaxAhead = 2
  MaxTime = 10
  FormatLength = 5
  NameLength = 2
  MaxSettings = 2
  NULL = NULL
INVARIANTS
  UnitsTypeOK
  ChecksumHolds
  FoundLongest InnerRunsDenote
  StringKept
  SeparatedRight
  NeverSilent KeptAtMost
  StringsHold GivenBack UsersGoFirst
PROPERTIES
  ShownInTheEnd
  GoneNotBefore
CHECK_DEADLOCK FALSE
