SPECIFICATION FairSpec
CONSTANTS
  a = a
  b = b
  None = None
  MaxResources = 1
  Window = 1
  Owners = {a}
  VaOf <- DistinctVa
  Frames = {1, 2}
  Clients = {c1}
  Hips = {h1}
  Queues = {q1}
  WorkStreams = {"marker"}
  ProbeKinds = {}
  MaxToken = 1
  MaxRefs = 4
INVARIANTS
  TypeOK
  NoLostWakeup JobOwnsItsState PinsCoverGpuWork
PROPERTIES
  FrameProtocolProperty
  WaitsEnd
