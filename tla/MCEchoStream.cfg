SPECIFICATION EchoSpec
CONSTANTS
  Submitted = Submitted
  Working = Working
  Completed = Completed
  good = good
  unenc = unenc
  undec = undec
  Artifacts <- MCArtifacts
  Events <- MCEvents
  Unencodable <- MCUnencodable
  Undecodable <- MCUndecodable
  MaxEvents = 4
INVARIANTS
  CompletedMeansComplete
  CleanEndIsCompleted
