CONSTANTS
  None = None
  Client = {a, f, x}
  Foreign = {f}
  Allowed = {a, f}
  Again = a
  Beside = {f, x}
  Slot = {s1, s2}
  MaxOps = 2
  Quotas <- MCQuotas
  Headers <- MCHeaders
SPECIFICATION Spec
CHECK_DEADLOCK FALSE
SYMMETRY SlotSymmetry
INVARIANTS Inv OkIsMine OnlyAuthorizedStores NoLostUpdate
PROPERTY ImplementsVersionChain
