CONSTANTS
  Requests = {r1}
  Texts = {"fine", "flagged"}
  NoText = ""
  Clean = {"fine", ""}
  Roles = {"user", "assistant"}
  NotAnObject = NotAnObject
  MaxMessages = 3
  Configured <- MCConfigured
  DefaultSeconds = 3
  Second = 2
  Width = 4
SPECIFICATION FairSpec
INVARIANTS
  TypeOK
  PassedRequestsAreClean
PROPERTY
  EveryRequestIsDecided
CHECK_DEADLOCK FALSE
