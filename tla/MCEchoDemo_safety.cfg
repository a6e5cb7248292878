SPECIFICATION Spec
CONSTANTS
  c1 = c1
  c2 = c2
  hello = hello
  bye = bye
  None = None
  Clients <- MCClients
  Configurations <- Everything
  Text <- MCText
INVARIANTS
  ClientsPrintTheirEcho
  ChannelsAreReleased
  EarlyRequestsAreKept
PROPERTIES
  CallsAreInvocations
