CONSTANTS
  Nothing = Nothing
  Clients <- MCClients
  Compatible = {"azure"}
  Bare = {"g"}
  MaxRequests = 3
  MaxBlocks = 2
SPECIFICATION Spec
INVARIANTS
  TypeOK
  AnswersAreKept
  ResultsAreNamed
  ResultsFollowTheirCalls
  OnlyOpeningsAreRefused
  ToolChoiceIsObeyed
  FinishReasonIsTrue
  TokenLimitIsKept
CHECK_DEADLOCK FALSE
