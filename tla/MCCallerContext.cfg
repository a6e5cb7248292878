SPECIFICATION Spec
CONSTANTS
  r1 = r1
  r2 = r2
  alice = alice
  relay = relay
  peerSubject = peerSubject
  payloadSig = payloadSig
  appKey = appKey
  forged = forged
  Absent = Absent
  Empty = Empty
  Requests <- MCRequests
  Peers <- MCPeers
  SessionKeys <- MCSessionKeys
  AppKeys <- MCAppKeys
  Values <- MCValues
SYMMETRY Symmetry
INVARIANTS
  CallerIsTheSender
  SessionKeysStayInTheirHop
  AppMetadataIsKept
