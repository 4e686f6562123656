CONSTANTS
  Tests = 2
  MaxErrors = 6
  Keys <- MCKeys
  Setups <- MCSetups
SPECIFICATION FairSpec
INVARIANTS
  OneConversation
  RecordedOnReturn
  QuietVerdict
  NoFalsePraise
PROPERTY
  SessionEnds
CHECK_DEADLOCK FALSE
