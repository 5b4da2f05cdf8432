SPECIFICATION CacheSpec
CONSTANTS
  NULL = NULL
  Blobs <- MCBlobs
  fnv1a <- FnvHash
  FNV_BASIS = 5
  FNV_PRIME = 3
  HASH_BITS = 4
  MAX_BLOB = 10
  MAX_WANT = 2
  Files = {"file"}
  DirBlob <- MCDirBlob
  CommitFiles = {}
  Contents = {"content"}
  SizeOf <- MCSizeOf
  SS_MAX_ENTRIES = 3
  HITS_MAX = 2
  FPUTC_GROWTH = 1
  BUF_LIMIT = 2
CHECK_DEADLOCK FALSE
INVARIANTS
  ReadInBlob
  TableInv
  TableIsBlob
  LookupExact
  ScanFindsVictim
PROPERTIES
  ParseEnds
