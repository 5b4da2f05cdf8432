SPECIFICATION Spec
CONSTANTS
  imsi = imsi
  seq = seq
  loci = loci
  short1 = short1
  short2 = short2
  long = long
  NULL = NULL
  Files <- MCFiles
  DirBlob <- MCDirBlob
  CommitFiles <- MCCommitFiles
  Contents <- MCContents
  SizeOf <- MCSizeOf
  SS_MAX_ENTRIES = 2
  HITS_MAX = 1
  FPUTC_GROWTH = 1
  BUF_LIMIT = 2
INVARIANTS
  IInv
  SlotsMatchDir
  CleanIsDurable
  HandleHoldsFile
  RefusedStaysBuffered
  CommitOnCloseDurable
  SizeIsOfView
PROPERTIES
  ImplementsFileStore
SYMMETRY MCSymmetry
