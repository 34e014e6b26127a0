CONSTANTS
  d1 = d1
  d3 = d3
  d2 = d2
  None = None
  Drivers <- MCTlsDrivers
  iMode <- MCTlsMode
  RecLen = 3
  RcvLen = 2
  MaxSent = 3
  MayPend <- MCTlsMayPend
SPECIFICATION Spec
INVARIANT TypeOK
INVARIANT CounterMatchesDummies
PROPERTY NoWaitWithBufferedPlaintext
PROPERTY ImplementsStreamDelivery
PROPERTY PendingHandshakeServed
