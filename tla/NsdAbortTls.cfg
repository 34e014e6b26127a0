CONSTANTS
  c1 = c1
  l1 = l1
  a1 = a1
  n1 = n1
  n2 = n2
  None = None
  Clients <- MCClients
  Listeners <- MCNoListeners
  Accepted <- MCNoAccepted
  Names <- MCNames
  Host = n1
  Dflt <- MCDflt
  Depths = {0, 1}
  MaxDepth = 2
SPECIFICATION Spec
PROPERTY AbortStopsTlsIO
