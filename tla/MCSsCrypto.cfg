SPECIFICATION Spec
CONSTANTS
  AES_BLOCKSIZE = 2
  MAX_LEN = 7
INVARIANTS
  CipherAllOrNothing
  KeyForItsPurpose
  OpReleased
  MacCoversData
