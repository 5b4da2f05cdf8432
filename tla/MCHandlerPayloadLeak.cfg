SPECIFICATION Spec
CONSTANTS
  loci = loci
  seq = seq
  old = old
  new = new
  NULL = NULL
  Files <- MCFiles
  CommitFiles <- MCCommitFiles
  Contents <- MCContents
  MAX_REQ = 2
  MAX_OPS = 1
  EarlyModem = FALSE
SYMMETRY MCSymmetry
INVARIANTS
  PayloadNeverLeaks
