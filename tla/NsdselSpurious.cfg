CONSTANTS
  d1 = d1
  d2 = d2
  d3 = d3
  None = None
  Drivers <- MCDrivers
  iMode <- MCiMode
  RecLen = 2
  RcvLen = 1
  MaxSent = 1
  MayPend <- MCMayPend
SPECIFICATION Spec
INVARIANT NoSpuriousReady
