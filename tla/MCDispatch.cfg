SPECIFICATION Spec
CONSTANTS
  Stubs <- MCStubs
  None = None
INVARIANTS
  RoutesToSameOperation
  ServesAllOrNothing
PROPERTIES
  EntriesStand
