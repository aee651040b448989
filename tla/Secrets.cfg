CONSTANTS
  Resources <- OneSecret
  Objects <- AllObjects
  Workers = {w1, w2}
  Relists = TRUE
  MaxVersions <- FourVersions
  MaxRestarts = 1
  CachedReads = TRUE
  Fields = {apiKey, region}
  FieldValues = {k1, k2}
  s1 = s1
  s2 = s2
  apiKey = apiKey
  region = region
  k1 = k1
  k2 = k2
  EmptyValue = EmptyValue
  NoField = NoField
  NoCredentials = NoCredentials
  Refused = Refused
  Absent = Absent
  Idle = Idle
SPECIFICATION FairSpec
INVARIANTS
  TypeOK
  StaleEntryIsScheduled
PROPERTIES
  ImplementsView
  StoreConverges
CHECK_DEADLOCK FALSE
