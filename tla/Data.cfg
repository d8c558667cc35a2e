SPECIFICATION Spec
CONSTANTS
  ByteBits = 3
  MaxCount = 6
  MaxTarget = 17000
  Radix = 8
  MinVersion = 2
  RelayVersion = 4
  AddressSize = 2
  Version <- MCVersion
  Sample <- MCSample
  Word <- MCWord
  LinkLocal <- MCLinkLocal
  MaxWord = 2
  Timespan = 8
  Period = 3
  RetargetStart = 3
  RetargetEnd = 1
  Payout = 5
  Halving = 2
  Offset = 1
  Genesis <- MCGenesis
  Stamp <- MCStamp
  MaxHeight = 6
CHECK_DEADLOCK FALSE
INVARIANTS
  FullTest
  MessagesRoundTrip
  
  ChainConsistent
PROPERTY CutOnce
