SPECIFICATION Spec
SYMMETRY Symmetry
CONSTANTS
  r1 = r1
  r2 = r2
  m1 = m1
  m2 = m2
  e1 = e1
  e2 = e2
  e3 = e3
  none = none
  Request = {r1, r2}
  Model = {m1, m2}
  Endpoint = {e1, e2, e3}
  NoEndpoint = none
  Chain <- MCChain
  EndpointsOf <- MCEndpointsOf
  Priority <- MCPriority
  Configured = {e1, e2}
  Ttl = 2
  MaxTime = 4
INVARIANT
  IInv
PROPERTY
  CooldownKept
