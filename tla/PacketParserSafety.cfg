SPECIFICATION ParserSpec
CONSTANTS
  Lengths <- MCLengths
  Tlvs <- MCTlvs
  StatedLengths <- MCStatedLengths
  MaxCount = 2
INVARIANTS NeverPastEnd BlocksAccounted LostOnlyBy ArraysWhole
PROPERTIES ParseEnds
CHECK_DEADLOCK FALSE
