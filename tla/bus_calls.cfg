CONSTANTS
  Masters = {m1, m2}
  None = None
  MEM_SIZE = 2
  Addresses = {0, 1, 2}
  Values = {0, 8}
SPECIFICATION Spec
INVARIANT OneRequest
INVARIANT NoLostRequest
INVARIANT NoLostRelease
PROPERTY ImplementsMemory NoLostInterrupt BusIsReleased
