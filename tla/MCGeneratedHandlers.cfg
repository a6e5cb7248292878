SPECIFICATION Spec
CONSTANTS
  subjectKey = subjectKey
  signatureKey = signatureKey
  appKey = appKey
  peer = peer
  Absent = Absent
  Empty = Empty
  SessionKeys <- MCSessionKeys
  AppKeys <- MCAppKeys
  Peers <- MCPeers
  MaxEvents = 2
INVARIANTS
  SameAnswer
  OnlyIdentityDiffers
