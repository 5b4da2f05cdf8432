SPECIFICATION Spec
CONSTANTS
  plain = plain
  address = address
  full = full
  x = x
  y = y
  BAD = BAD
  TEMPLATE = TEMPLATE
  NULL = NULL
  Profiles <- MCProfiles
  SmspProfiles <- MCSmspProfiles
  SmscProfiles <- MCSmscProfiles
  Chars <- MCChars
  Text <- MCText
  Builds <- ThreeBuilds
  KeyFaults = TRUE
  NvsFaults = TRUE
  ModemFaults = TRUE
  PROFILE_MAX_SIZE = 4
  MAX_CALLS = 2
  MAX_CRASHES = 1
CHECK_DEADLOCK FALSE
INVARIANTS
  SampleInv
  UpOnlyWithIdentity
  KeysBeforeIdentity
  OkMeansRecords
PROPERTIES
  BufferIsStable
