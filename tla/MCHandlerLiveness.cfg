SPECIFICATION FairSpec
CONSTANTS
  loci = loci
  seq = seq
  old = old
  new = new
  NULL = NULL
  Files <- MCOneFile
  CommitFiles <- MCCommitFiles
  Contents <- MCContents
  MAX_REQ = 3
  MAX_OPS = 1
  EarlyModem = FALSE
PROPERTIES
  QueuedIsAnswered
