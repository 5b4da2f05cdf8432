SPECIFICATION Spec
CONSTANTS
  loci = loci
  seq = seq
  old = old
  new = new
  NULL = NULL
  Files <- MCFiles
  CommitFiles <- MCCommitFiles
  Contents <- MCContents
  MAX_REQ = 3
  MAX_OPS = 2
  EarlyModem = TRUE
SYMMETRY MCSymmetry
INVARIANTS
  HandlerInv
  AnsweredOnce
  PayloadFreedOnce
  NoLostWakeup
  OneContext
  NullOnlyOutsideSession
  OnlyLazyAtRisk
PROPERTIES
  SuspendedIsKept
  ImplementsRequestServer
