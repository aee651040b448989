CONSTANTS
  Requests = {r1}
  Chain <- MCChain
  ExternalModels = {llama}
  OtherModels = {NoModel}
  NoModel = NoModel
  Modelless = {vertex}
  ModelInfos <- MCInfos
  NoInfo = NoInfo
  SecretKeys <- MCSecretKeys
  Credentials <- MCCredentials
  NoCredentials = NoCredentials
  Refused = {}
  Unset = Unset
  Supported = {openai, anthropic, vertex}
  Compatible = {openai}
  Fallible = {anthropic, vertex}
  AuthHeader <- MCAuthHeader
  ApiKeyField = "api-key"
  ClientToken = ClientToken
  OpenAI = OpenAI
  Garbled = Garbled
  MaxChanges = 2
  ns = ns
  secA = secA
  secB = secB
  kA = kA
  kB = kB
  llama = llama
  openai = openai
  anthropic = anthropic
  vertex = vertex
SPECIFICATION GuardedSpec
INVARIANTS
  TypeOK
  SentRequestIsConsistent
  NoForeignCredential
  ClientGetsOpenAI
  SentRequestsAreGuarded
CHECK_DEADLOCK FALSE
