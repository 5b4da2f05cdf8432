SPECIFICATION Spec
CONSTANTS
  plain = plain
  address = address
  full = full
  x = x
  y = y
  BAD = BAD
  TEMPLATE = TEMPLATE
  NULL = NULL
  Profiles <- MCProfiles
  SmspProfiles <- MCSmspProfiles
  SmscProfiles <- MCSmscProfiles
  Chars <- MCChars
  Text <- MCText
  Builds <- SerialBuild
  KeyFaults = TRUE
  NvsFaults = FALSE
  ModemFaults = FALSE
  PROFILE_MAX_SIZE = 4
  MAX_CALLS = 2
  MAX_CRASHES = 1
CHECK_DEADLOCK FALSE
INVARIANTS
  ProvisionedHasKey
