CONSTANTS
  r1 = r1
  r2 = r2
  n1 = n1
  p = p
  q = q
  Results = {r1, r2}
  Projects = {p, q}
  ProjectOf <- OwnProject
  NonCpuIntensive = {q}
  PartCpu = {r2}
  Deadline <- SameDeadline
  MaxCpus = 2
  RamBusy = 0
  RamIdle = 1
  MaxRss = 1
SPECIFICATION Spec
INVARIANTS TypeOK NoneForgotten SuspensionObeyed BenchmarksAlone
 
VIEW NewListAwaited
