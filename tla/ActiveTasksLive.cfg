CONSTANTS
  Results = {r1}
  NCpus = 1
  MaxExits = 0
  MaxUser = 0
SPECIFICATION FairSpec
PROPERTIES PendingEnds ResultSettles
