SPECIFICATION FairSpec
CONSTANTS
  Requests = {r1, r2, r3}
  WireCap = 3
INVARIANTS
  TypeOK
  OwnReply
  KeptSessionInSync
  NegotiatedFirst
PROPERTIES
  EveryCallReturns
  ImplementsRequestReply
