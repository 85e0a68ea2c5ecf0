CONSTANTS
  r1 = r1
  r2 = r2
  n1 = n1
  p = p
  q = q
  Results = {r1, r2}
  Projects = {p, q}
  ProjectOf <- OwnProject
  NonCpuIntensive = {q}
  PartCpu = {}
  Deadline <- SameDeadline
  MaxCpus = 2
  RamBusy = 0
  RamIdle = 1
  MaxRss = 1
SPECIFICATION Spec
SYMMETRY Alike
INVARIANT FinishedNotRun
