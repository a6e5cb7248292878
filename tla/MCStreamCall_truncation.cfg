SPECIFICATION Spec
CONSTANTS
  good = good
  unenc = unenc
  undec = undec
  Events <- MCEvents
  Unencodable <- MCUnencodable
  Undecodable <- MCUndecodable
  MaxEvents = 3
INVARIANT
  FailedStreamIsErrorOrEmpty
