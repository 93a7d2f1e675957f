SPECIFICATION Spec
CONSTANTS
  Requests <- WriteOne
  NoOfDesc = 1
  Tries = 2
INVARIANTS
  TransferredMeansSuccess
