CONSTANTS
  Results = {r1}
  NCpus = 1
  MaxExits = 1
  MaxUser = 1
SPECIFICATION Spec
INVARIANTS TypeOK MessagesMatchState OneProcess
