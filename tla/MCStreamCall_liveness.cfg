SPECIFICATION FairSpec
CONSTANTS
  good = good
  unenc = unenc
  undec = undec
  Events <- MCEvents
  Unencodable <- MCUnencodable
  Undecodable <- MCUndecodable
  MaxEvents = 3
PROPERTIES
  HandlerReturns
  DeadlineStopsIteration
  MarkedStreamStopsIteration
