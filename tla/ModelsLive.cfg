CONSTANTS
  Namespaces = {ns1, ns2}
  Providers = {p1, p2}
  CredentialNames = {cred}
  ns1 = ns1
  ns2 = ns2
  llama = llama
  claude = claude
  p1 = p1
  p2 = p2
  cred = cred
  Unset = Unset
  NoInfo = NoInfo
  NoModel = NoModel
  Absent = Absent
  Idle = Idle
  Names = {llama}
  Resources <- OneModel
  Objects <- AllObjects
  Workers = {w1, w2}
  CachedReads = FALSE
  Relists = TRUE
  MaxVersions <- FourVersions
  MaxRestarts = 1
SPECIFICATION WatchSpec
INVARIANTS
  TypeOK
  EntriesAreOwned
  OutdatedEntryIsScheduled
PROPERTIES
  ImplementsView
  OnlyLeftOutVersionsLinger
CHECK_DEADLOCK FALSE
