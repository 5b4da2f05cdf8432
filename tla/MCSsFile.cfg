SPECIFICATION Spec
CONSTANTS
  a = a
  NULL = NULL
  Bytes <- MCBytes
  NUL = NUL
  NEWLINE = NUL
  WORD = 16
  FPUTC_GROWTH = 2
  BUF_LIMIT = 4
  MAX_REC = 2
  MAX_SEEK = 8
  MAX_IO = 2
INVARIANTS
  FileInv
  BufferHoldsWrites
  ReadsTheFile
  CleanIsRecord
PROPERTIES
  InsideStaysInside
