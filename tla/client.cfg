SPECIFICATION SystemSpec
CONSTANTS
  a = a
  None = None
  MaxResources = 1
  Window = 1
  Owners = {a}
  VaOf <- DistinctVa
  Frames = {1,2}
  Clients = {l1, l2}
  Hips = {h1}
  Queues = {q1, q2}
  WorkStreams = {"marker","work"}
  ProbeKinds = {}
  MaxToken = 1
  MaxRefs = 6
  MaxSubmits = 4
SYMMETRY Symmetry
INVARIANTS
  OutputMeansDrained BuffersOutliveGpu ClaimedForTheirQueue
PROPERTIES SuffixAfterOutput
