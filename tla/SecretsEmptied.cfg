CONSTANTS
  Resources <- OneSecret
  Objects <- FewObjects
  Workers = {w1}
  Relists = FALSE
  MaxVersions <- TwoVersions
  MaxRestarts = 0
  CachedReads = TRUE
  Fields = {apiKey, region}
  FieldValues = {k1, k2}
  s1 = s1
  s2 = s2
  apiKey = apiKey
  region = region
  k1 = k1
  k2 = k2
  EmptyValue = EmptyValue
  NoField = NoField
  NoCredentials = NoCredentials
  Refused = Refused
  Absent = Absent
  Idle = Idle
SPECIFICATION FairSpec
PROPERTY NoEntryAfterFailure
CHECK_DEADLOCK FALSE
