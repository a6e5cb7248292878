SPECIFICATION FairSpec
CONSTANTS
  c1 = c1
  c2 = c2
  hello = hello
  bye = bye
  None = None
  Clients <- MCClients
  Configurations <- Reaching
  Text <- MCText
PROPERTIES
  ReachedClientsExit
