SPECIFICATION FairSpec
CONSTANTS
  SeqSpace = 16
  Isn <- WrappingIsn
  ClientIsn = 15
  RequestLen = 2
  ResponseLen <- TwoPackets
  MaxResponse = 2
  MaxRetransmits = 2
  MaxFaults = 1
  MaxConns = 2
INVARIANTS TypeOK ForgottenWasReceived OneEgress
PROPERTIES DeliversPrefix RetransmissionEnds
CHECK_DEADLOCK FALSE
