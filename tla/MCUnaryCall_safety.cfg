SPECIFICATION Spec
CONSTANTS
  SendMessage = SendMessage
  GetAgentCard = GetAgentCard
  DeleteConfig = DeleteConfig
  Methods <- MCMethods
  Bodyless <- MCBodyless
  Resultless <- MCResultless
  MaxAttempts = 3
INVARIANTS
  SuccessIsGenuine
  AppliedAtMostOnce
  RetryableMeansUntouched
  NothingLeaks
PROPERTIES
  AnswerSettles
  ImplementsInvocation
