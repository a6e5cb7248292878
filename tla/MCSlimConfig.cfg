SPECIFICATION Spec
CONSTANTS
  p1 = p1
  p2 = p2
  key1 = key1
  key2 = key2
  did = did
  ca = ca
  aud1 = aud1
  aud2 = aud2
  secret = secret
  file = file
  DefaultSecret = DefaultSecret
  Unset = Unset
  Blank = Blank
  Secrets <- MCSecrets
  Procs <- TwoProcs
  CommandLines <- MCCommandLines
SYMMETRY Symmetry
INVARIANTS
  NoTlsOptionIsLost
  CredentialsAreAnnounced
  SessionsJoinCompatiblePeers
