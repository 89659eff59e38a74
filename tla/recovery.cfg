SPECIFICATION Spec
CONSTANTS
  a = a
  b = b
  None = None
  MaxResources = 1
  Window = 1
  Owners = {a}
  VaOf <- DistinctVa
  Frames = {1}
  Clients = {c1}
  Hips = {h1}
  Queues = {}
  WorkStreams = {"marker", "work"}
  ProbeKinds = {}
  MaxToken = 1
  MaxRefs = 4
INVARIANTS
  PinsCoverGpuWork
