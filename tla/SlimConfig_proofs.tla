---------------------------- MODULE SlimConfig_proofs ----------------------------
(* Proofs about SlimConfig, for any number of processes and any command lines. *)
EXTENDS SlimConfig, TLAPS

USE SlimConfigAssumption

\* What each step has checked; what a session's answer rests on.
Checked ==
  \A p \in Procs :
    /\ phase[p] \in {"created", "connected"} => IdentityAccepted(opts[p])
    /\ phase[p] = "connected" => /\ ConnectionAccepted(opts[p])
                                 /\ warned[p] = Warns(opts[p])

Met ==
  \A p, q \in Procs : p # q /\ session[{p, q}] # "none" =>
    /\ phase[p] = "connected" /\ phase[q] = "connected"
    /\ session[{p, q}] = "open" => Accepts(q, p) /\ Accepts(p, q)
    /\ session[{p, q}] = "refused" =>
         \/ ~ Accepts(q, p) \/ ~ Accepts(p, q)
         \/ app[p].kind = "spire" /\ app[q].kind = "spire"

ConfigInv == TypeOK /\ Checked /\ Met

LEMMA PairOf ==
  ASSUME NEW p \in Procs, NEW q \in Procs, p # q
  PROVE  {p, q} \in Pairs
BY DEF Pairs

LEMMA ConfigInit == Init => ConfigInv
BY PairOf DEF Init, ConfigInv, TypeOK, Checked, Met

\* The steps of one process, which is not connected when it takes them.
LEMMA ProcessStep ==
  ASSUME ConfigInv, NEW p \in Procs,
         CreateApp(p) \/ CreateAppFails(p) \/ Connect(p) \/ ConnectRefused(p) \/ SlimFails(p)
  PROVE  ConfigInv'
<1>1. /\ phase[p] \in {"parsed", "created"} /\ UNCHANGED <<opts, session>>
      /\ \A q \in Procs : q # p => /\ phase'[q] = phase[q] /\ app'[q] = app[q]
                                   /\ conn'[q] = conn[q] /\ warned'[q] = warned[q]
  BY DEF CreateApp, CreateAppFails, Connect, ConnectRefused, SlimFails, Exit, ConfigInv, TypeOK
<1>2. TypeOK'
  <2>1. CASE CreateApp(p)
    BY <2>1 DEF CreateApp, ConfigInv, TypeOK
  <2>2. CASE Connect(p)
    BY <2>2 DEF Connect, Warns, ConfigInv, TypeOK, UseTLS
  <2>3. CASE Exit(p)
    BY <2>3 DEF Exit, ConfigInv, TypeOK
  <2>4. QED
    BY <2>1, <2>2, <2>3 DEF CreateAppFails, ConnectRefused, SlimFails
<1>3. Checked'
  <2>1. CASE CreateApp(p)
    BY <2>1 DEF CreateApp, ConfigInv, TypeOK, Checked
  <2>2. CASE Connect(p)
    BY <2>2 DEF Connect, ConfigInv, TypeOK, Checked
  <2>3. CASE Exit(p)
    BY <2>3 DEF Exit, ConfigInv, TypeOK, Checked
  <2>4. QED
    BY <2>1, <2>2, <2>3 DEF CreateAppFails, ConnectRefused, SlimFails
<1>4. Met'
  BY <1>1 DEF ConfigInv, Met, Accepts
<1>5. QED
  BY <1>2, <1>3, <1>4 DEF ConfigInv

\* Two processes meet.
LEMMA MeetingStep ==
  ASSUME ConfigInv, NEW p \in Procs, NEW q \in Procs, Meet(p, q) \/ SpireRefuses(p, q)
  PROVE  ConfigInv'
<1>1. p # q /\ UNCHANGED <<opts, phase, app, conn, warned>> /\ {p, q} \in Pairs
  BY PairOf DEF Meet, SpireRefuses
<1>2. /\ \A pq \in Pairs : pq # {p, q} => session'[pq] = session[pq]
      /\ session' \in [Pairs -> {"none", "open", "refused"}]
      /\ session'[{p, q}] = "open" => Accepts(q, p) /\ Accepts(p, q)
      /\ session'[{p, q}] = "refused" => \/ ~ Accepts(q, p) \/ ~ Accepts(p, q)
                                         \/ app[p].kind = "spire" /\ app[q].kind = "spire"
  BY <1>1 DEF Meet, SpireRefuses, ConfigInv, TypeOK
<1>3. TypeOK' /\ Checked'
  BY <1>1, <1>2 DEF ConfigInv, TypeOK, Checked
<1>4. Met'
  <2>0. \A a, b \in Procs : Accepts(a, b)' <=> Accepts(a, b)
    BY <1>1 DEF Accepts
  <2> SUFFICES ASSUME NEW a \in Procs, NEW b \in Procs, a # b, session'[{a, b}] # "none"
               PROVE  /\ phase[a] = "connected" /\ phase[b] = "connected"
                      /\ session'[{a, b}] = "open" => Accepts(b, a) /\ Accepts(a, b)
                      /\ session'[{a, b}] = "refused" =>
                           \/ ~ Accepts(b, a) \/ ~ Accepts(a, b)
                           \/ app[a].kind = "spire" /\ app[b].kind = "spire"
    BY <1>1, <2>0 DEF Met
  <2>1. CASE {a, b} = {p, q}
    <3>1. \/ a = p /\ b = q
          \/ a = q /\ b = p
      BY <1>1, <2>1
    <3>2. phase[p] = "connected" /\ phase[q] = "connected"
      BY DEF Meet, SpireRefuses
    <3>3. session'[{a, b}] = session'[{p, q}]
      BY <2>1
    <3>4. QED
      BY <1>2, <3>1, <3>2, <3>3
  <2>2. CASE {a, b} # {p, q}
    <3>1. session'[{a, b}] = session[{a, b}]
      BY <1>2, <2>2, PairOf
    <3>2. QED
      BY <3>1 DEF ConfigInv, Met
  <2>3. QED
    BY <2>1, <2>2
<1>5. QED
  BY <1>3, <1>4 DEF ConfigInv

LEMMA Invariance == Spec => []ConfigInv
<1>1. ConfigInv /\ [Next]_vars => ConfigInv'
  <2> SUFFICES ASSUME ConfigInv, [Next]_vars PROVE ConfigInv'
    OBVIOUS
  <2>1. CASE UNCHANGED vars
    BY <2>1 DEF vars, ConfigInv, TypeOK, Checked, Met, Accepts
  <2>2. QED
    BY <2>1, ProcessStep, MeetingStep DEF Next, Terminated
<1>2. QED
  BY <1>1, ConfigInit, PTL DEF Spec

\* The variables keep their types; the app and the connection of a process are the
\* ones its options describe.
THEOREM TypeCorrect == Spec => []TypeOK
BY Invariance, PTL DEF ConfigInv

\* No process is connected in plain text that was given a TLS option, and none of
\* those options is lost on the way into the connection.
THEOREM TlsOptionsCount == Spec => []NoTlsOptionIsLost
<1>1. ConfigInv => NoTlsOptionIsLost
  <2> USE DEF NoTlsOptionIsLost
  <2> SUFFICES ASSUME ConfigInv PROVE NoTlsOptionIsLost
    OBVIOUS
  <2> TAKE p \in Procs
  <2> HAVE phase[p] = "connected"
  <2>1. conn[p].tls = Tls(opts[p]) /\ TlsAccepted(opts[p])
    BY DEF ConfigInv, TypeOK, Checked, ConnectionAccepted
  <2> DEFINE o == opts[p]
             t == conn[p].tls
  <2> HIDE DEF o, t
  <2>2. t = Tls(o) /\ TlsAccepted(o)
    BY <2>1 DEF o, t
  <2>3. \/ {o.ca, o.cert, o.certKey} # {Unset} \/ o.skipVerify \/ o.tls
        \/ o.scheme \in {"https", "wss"}
        => t.secure
    BY <2>2 DEF Tls, TlsAccepted, UseTLS
  <2>4. t.secure => t.verifyNode = ~ o.skipVerify
    BY <2>2 DEF Tls, Plain
  <2>5. t.ca = o.ca /\ t.cert = o.cert /\ t.certKey = o.certKey
    BY <2>2 DEF Tls, TlsAccepted, Plain
  <2>6. (o.cert = Unset) = (o.certKey = Unset)
    BY <2>2 DEF TlsAccepted
  <2>7. QED
    BY <2>3, <2>4, <2>5, <2>6 DEF o, t
<1>2. QED
  BY <1>1, Invariance, PTL

\* Credentials for the node are whole, and a process warns before it sends them over
\* a plain connection.
THEOREM CredentialsNeverSilentlyPlain == Spec => []CredentialsAreAnnounced
<1>1. ConfigInv => CredentialsAreAnnounced
  <2> USE DEF CredentialsAreAnnounced
  <2> SUFFICES ASSUME ConfigInv PROVE CredentialsAreAnnounced
    OBVIOUS
  <2> TAKE p \in Procs
  <2> HAVE phase[p] = "connected"
  <2>1. /\ conn[p].tls = Tls(opts[p]) /\ conn[p].auth = NodeAuth(opts[p])
        /\ NodeAuthAccepted(opts[p]) /\ warned[p] = Warns(opts[p])
    BY DEF ConfigInv, TypeOK, Checked, ConnectionAccepted
  <2> DEFINE o == opts[p]
             auth == conn[p].auth
  <2> HIDE DEF o, auth
  <2>2. auth = NodeAuth(o) /\ NodeAuthAccepted(o)
    BY <2>1 DEF o, auth
  <2>3. /\ auth.kind = IF o.nodeAuth \in {"bearer", "jwt"} THEN o.nodeAuth ELSE "none"
        /\ auth.kind = "bearer" => auth.token # Unset
        /\ auth.kind = "jwt" => auth.signer.key # Unset
    BY <2>2 DEF NodeAuth, NodeAuthAccepted, CanSign, jwtSigner
  <2>4. auth.kind = "jwt" => auth.signer.issuer # Unset
    BY <2>2 DEF NodeAuth, NodeAuthAccepted, CanSign, jwtSigner
  <2>5. auth.kind # "none" /\ ~ conn[p].tls.secure => warned[p]
    <3>1. conn[p].tls.secure <=> UseTLS(o)
      BY <2>1 DEF Tls, Plain, o
    <3>2. warned[p] <=> Warns(o)
      BY <2>1 DEF o
    <3>3. auth.kind # "none" => o.nodeAuth \notin {"none", Unset}
      BY <2>2 DEF NodeAuth, NodeAuthAccepted
    <3>4. QED
      BY <3>1, <3>2, <3>3 DEF Warns
  <2>6. QED
    BY <2>3, <2>4, <2>5 DEF o, auth
<1>2. QED
  BY <1>1, Invariance, PTL

--------------------------------------------------------------------------------
(* Sessions. *)

\* Two names of algorithms that are accepted mean the same when they are the same, or
\* the two names of EdDSA.
LEMMA SameAlgorithm ==
  ASSUME NEW o, NEW n, o.algorithm \in DOMAIN Algorithm, n \in DOMAIN Algorithm
  PROVE  Speaks(o, n) <=> Algorithm[o.algorithm] = Algorithm[n]
BY DEF Speaks, Algorithm

LEMMA SameAudience ==
  ASSUME NEW o, NEW peer
  PROVE  SharesAudience(o, peer) <=>
           \/ splitList(o.audience) = {}
           \/ splitList(o.audience) \cap splitList(peer.audience) # {}
BY DEF SharesAudience, splitList

\* The verifier that one process built takes the token of the other exactly when its
\* options trust that one's.
LEMMA VerifierTrusts ==
  ASSUME NEW o, NEW peer, CanSign(o), CanSign(peer)
  PROVE  Verifies(jwtVerifier(o), jwtSigner(peer)) <=> Trusts(o, peer)
<1>1. Speaks(o, peer.algorithm) <=> Algorithm[o.algorithm] = Algorithm[peer.algorithm]
  BY SameAlgorithm DEF CanSign
<1>2. Issuer(peer) = jwtSigner(peer).issuer
  BY DEF Issuer, jwtSigner
<1>3. QED
  BY <1>1, <1>2, SameAudience DEF Verifies, Trusts, jwtVerifier, jwtSigner

LEMMA AcceptsCompatible ==
  ASSUME ConfigInv, NEW p \in Procs, NEW q \in Procs,
         phase[p] = "connected", phase[q] = "connected"
  PROVE  /\ Accepts(q, p) /\ Accepts(p, q) <=> Compatible(opts[p], opts[q])
         /\ app[p].kind = opts[p].identity
<1> DEFINE o == opts[p]
           peer == opts[q]
<1>1. /\ app[p] = Identity(o) /\ app[q] = Identity(peer)
      /\ IdentityAccepted(o) /\ IdentityAccepted(peer)
  BY DEF ConfigInv, TypeOK, Checked
<1> HIDE DEF o, peer
<1>2. app[p].kind = o.identity /\ app[q].kind = peer.identity
  BY <1>1 DEF Identity, IdentityAccepted
<1>3. CASE o.identity # peer.identity
  BY <1>2, <1>3 DEF Accepts, Compatible, o, peer
<1>4. CASE o.identity = "shared-secret" /\ peer.identity = "shared-secret"
  BY <1>1, <1>2, <1>4 DEF Accepts, Compatible, Identity, o, peer
<1>5. CASE o.identity = "jwt" /\ peer.identity = "jwt"
  <2>1. CanSign(o) /\ CanSign(peer)
    BY <1>1, <1>5 DEF IdentityAccepted
  <2>2. /\ app[p].signer = jwtSigner(o) /\ app[p].verifier = jwtVerifier(o)
        /\ app[q].signer = jwtSigner(peer) /\ app[q].verifier = jwtVerifier(peer)
    BY <1>1, <1>5 DEF Identity
  <2>3. /\ Verifies(app[q].verifier, app[p].signer) <=> Trusts(peer, o)
        /\ Verifies(app[p].verifier, app[q].signer) <=> Trusts(o, peer)
    BY <2>1, <2>2, VerifierTrusts
  <2>4. QED
    BY <1>2, <1>5, <2>3 DEF Accepts, Compatible, o, peer
<1>6. CASE o.identity = "spire" /\ peer.identity = "spire"
  BY <1>2, <1>6 DEF Accepts, Compatible, o, peer
<1>7. QED
  <2>1. o.identity \in {"shared-secret", "jwt", "spire"}
    BY <1>1 DEF IdentityAccepted
  <2>2. QED
    BY <1>2, <1>3, <1>4, <1>5, <1>6, <2>1 DEF o

\* A session is there exactly for compatible peers, whatever options the processes
\* were given: what both ends accepted is what both ends check.
THEOREM SessionsAreForPeers == Spec => []SessionsJoinCompatiblePeers
<1>1. ConfigInv => SessionsJoinCompatiblePeers
  <2> SUFFICES ASSUME ConfigInv, NEW p \in Procs, NEW q \in Procs, p # q
               PROVE  /\ session[{p, q}] = "open" => Compatible(opts[p], opts[q])
                      /\ session[{p, q}] = "refused" =>
                           ~ Compatible(opts[p], opts[q]) \/ opts[p].identity = "spire"
    BY DEF SessionsJoinCompatiblePeers
  <2>1. CASE session[{p, q}] = "none"
    BY <2>1
  <2>2. CASE session[{p, q}] # "none"
    <3>1. phase[p] = "connected" /\ phase[q] = "connected"
      BY <2>2 DEF ConfigInv, Met
    <3>2. QED
      BY <2>2, <3>1, AcceptsCompatible DEF ConfigInv, Met
  <2>3. QED
    BY <2>1, <2>2
<1>2. QED
  BY <1>1, Invariance, PTL
================================================================================
