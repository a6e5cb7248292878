SPECIFICATION FairSpec
CONSTANTS
  SendMessage = SendMessage
  GetAgentCard = GetAgentCard
  DeleteConfig = DeleteConfig
  Methods <- MCMethods
  Bodyless <- MCBodyless
  Resultless <- MCResultless
  MaxAttempts = 3
PROPERTIES
  HandlerReturns
  DeadlineEndsCall
  ResponseEndsCall
