CONSTANTS
  Namespaces = {ns1, ns2}
  Providers = {p1, p2}
  CredentialNames = {cred}
  ns1 = ns1
  ns2 = ns2
  llama = llama
  claude = claude
  p1 = p1
  p2 = p2
  cred = cred
  Unset = Unset
  NoInfo = NoInfo
  NoModel = NoModel
  Absent = Absent
  Idle = Idle
  Names = {llama}
  Resources <- SameName
  Objects <- FewObjects
  Workers = {w1}
  CachedReads = TRUE
  Relists = FALSE
  MaxVersions <- TwoVersions
  MaxRestarts = 0
SPECIFICATION Spec
INVARIANT TrackedEntryPresent
CHECK_DEADLOCK FALSE
