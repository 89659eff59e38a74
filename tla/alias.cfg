SPECIFICATION Spec
CONSTANTS
  a = a
  b = b
  None = None
  MaxResources = 2
  Window = 1
  Owners = {a, b}
  VaOf <- AliasedVa
  Frames = {1}
  Clients = {c1}
  Hips = {h1}
  Queues = {}
  WorkStreams = {"marker"}
  ProbeKinds = {1, 2, 3}
  MaxToken = 3
  MaxRefs = 3
INVARIANTS
  RefsConserved
  NoDanglingOwner
