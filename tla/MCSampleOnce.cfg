SPECIFICATION FairSpec
CONSTANTS
  plain = plain
  address = address
  full = full
  x = x
  y = y
  BAD = BAD
  TEMPLATE = TEMPLATE
  NULL = NULL
  Profiles <- MCProfiles
  SmspProfiles <- MCSmspProfiles
  SmscProfiles <- MCSmscProfiles
  Chars <- MCChars
  Text <- MCText
  Builds <- AllBuilds
  KeyFaults = FALSE
  NvsFaults = FALSE
  ModemFaults = FALSE
  PROFILE_MAX_SIZE = 4
  MAX_CALLS = 3
  MAX_CRASHES = 2
CHECK_DEADLOCK FALSE
INVARIANTS
  ResetUnlessLost
PROPERTIES
  ProvisionedKeepsSending
