-------------------------------- MODULE SlimConfig --------------------------------
(***************************************************************************)
(* From the command line of an example program to its SLIM app, its node   *)
(* connection and the peers it can talk to.  Each process parses its       *)
(* options, creates the app with the identity they describe, connects to   *)
(* the node with the TLS and authentication they describe, and exits at    *)
(* the first option it refuses.  Two connected processes set up a session  *)
(* when the token of each passes the other's verifier.                     *)
(*                                                                         *)
(* Names are taken modulo case where the code compares them so; a file is  *)
(* what it holds; an option that is empty is Unset.  The options that only *)
(* pass through to SLIM (token durations, the SPIRE socket and audiences)  *)
(* are left out.                                                           *)
(***************************************************************************)
EXTENDS Sequences

CONSTANTS Procs,         \* the processes
          CommandLines,  \* the flags given to each, as functions to values: the choices
          Secrets,       \* shared secrets
          DefaultSecret, \* the one used when none is given
          Unset,         \* an option without a value
          Blank          \* an item of a list that is empty or white space

ASSUME SlimConfigAssumption ==
  /\ Unset \notin Secrets \cup {"bearer", "jwt"} /\ DefaultSecret \in Secrets
  /\ \A given \in CommandLines : DOMAIN given = Procs

VARIABLES
  opts,     \* per process, its options
  phase,    \* per process: "parsed", "created", "connected" or "exited"
  app,      \* per process, the identity its app was created with
  conn,     \* per process, the configuration its connection was made with
  warned,   \* per process, whether it warned of credentials in plain text
  session   \* per pair of processes: "none", "open" or "refused"

vars == <<opts, phase, app, conn, warned, session>>

Pairs == {pq \in SUBSET Procs : \E p, q \in pq : p # q /\ pq = {p, q}}

--------------------------------------------------------------------------------
(* The option functions. *)

\* envOr of SLIM_SHARED_SECRET.
SecretFrom(env) == IF env = Unset THEN DefaultSecret ELSE env

\* RegisterFlags: the options before the command line is parsed.
Defaults(env) ==
  [identity |-> "shared-secret", secret |-> SecretFrom(env),
   jwtKey |-> Unset, algorithm |-> "EDDSA", subject |-> Unset, issuer |-> Unset,
   audience |-> <<>>, verifyKeys |-> Unset, verifyFormat |-> "jwks", verifyIssuer |-> Unset,
   scheme |-> "http", tls |-> FALSE, ca |-> Unset, skipVerify |-> FALSE,
   cert |-> Unset, certKey |-> Unset, nodeAuth |-> "none", tokenFile |-> Unset]

Parse(given, env) ==
  [f \in DOMAIN Defaults(env) |-> IF f \in DOMAIN given THEN given[f] ELSE Defaults(env)[f]]

\* ParseJWTAlgorithm, a function of the name in upper case.
Algorithm == [EDDSA |-> "EdDsa", ED25519 |-> "EdDsa", ES256 |-> "Es256", ES384 |-> "Es384",
              RS256 |-> "Rs256", RS384 |-> "Rs384", RS512 |-> "Rs512",
              PS256 |-> "Ps256", PS384 |-> "Ps384", PS512 |-> "Ps512"]

\* ParseJWTKeyFormat, likewise in lower case.
KeyFormats == {"jwks", "jwk", "pem"}

\* The items of a comma-separated list; the empty set stands for nil.
splitList(list) == {list[i] : i \in DOMAIN list} \ {Blank}

\* jwtSigner returns a signer, or an error.
CanSign(o) == /\ o.jwtKey # Unset
              /\ o.issuer # Unset \/ o.subject # Unset
              /\ o.algorithm \in DOMAIN Algorithm

\* Slip: the claim is left to SLIM when --jwt-issuer is not given.
jwtSigner_NoDefault(o) == [key |-> o.jwtKey, algorithm |-> Algorithm[o.algorithm],
                           audience |-> splitList(o.audience), issuer |-> o.issuer]

jwtSigner(o) == [key |-> o.jwtKey, algorithm |-> Algorithm[o.algorithm],
                 audience |-> splitList(o.audience),
                 issuer |-> IF o.issuer = Unset THEN o.subject ELSE o.issuer]

\* The verifier of the jwt identity; it checks no subject.
jwtVerifier(o) == [trusted |-> o.verifyKeys, algorithm |-> Algorithm[o.algorithm],
                   audience |-> splitList(o.audience), issuer |-> o.verifyIssuer]

\* CreateApp and IdentityConfigs accept the options.
IdentityAccepted(o) ==
  \/ o.identity = "shared-secret" /\ o.secret # Unset
  \/ o.identity = "jwt" /\ CanSign(o) /\ o.verifyKeys # Unset /\ o.verifyFormat \in KeyFormats
  \/ o.identity = "spire"

\* What the app is created with: its provider and its verifier.
Identity(o) ==
  CASE o.identity = "shared-secret" -> [kind |-> "shared-secret", secret |-> o.secret]
    [] o.identity = "jwt" -> [kind |-> "jwt", signer |-> jwtSigner(o),
                              verifier |-> jwtVerifier(o)]
    [] o.identity = "spire" -> [kind |-> "spire"]

UseTLS(o) == o.tls \/ o.scheme \in {"https", "wss"}

\* Slip: the flag that is a Boolean is not among the options looked for.
TlsAccepted_SkipIgnored(o) ==
  IF UseTLS(o) THEN (o.cert = Unset) = (o.certKey = Unset)
               ELSE o.ca = Unset /\ o.cert = Unset /\ o.certKey = Unset

TlsAccepted(o) ==
  IF UseTLS(o) THEN (o.cert = Unset) = (o.certKey = Unset)
               ELSE o.ca = Unset /\ o.cert = Unset /\ o.certKey = Unset /\ ~ o.skipVerify

NodeAuthAccepted(o) == \/ o.nodeAuth \in {"none", Unset}
                       \/ o.nodeAuth = "bearer" /\ o.tokenFile # Unset
                       \/ o.nodeAuth = "jwt" /\ CanSign(o)

\* The TLS part of the client configuration.
Plain == [secure |-> FALSE, verifyNode |-> FALSE, ca |-> Unset, cert |-> Unset,
          certKey |-> Unset]

Tls(o) == IF UseTLS(o)
          THEN [secure |-> TRUE, verifyNode |-> ~ o.skipVerify, ca |-> o.ca,
                cert |-> o.cert, certKey |-> o.certKey]
          ELSE Plain

\* The node authentication in it.
NodeAuth(o) == CASE o.nodeAuth = "bearer" -> [kind |-> "bearer", token |-> o.tokenFile]
                 [] o.nodeAuth = "jwt" -> [kind |-> "jwt", signer |-> jwtSigner(o)]
                 [] OTHER -> [kind |-> "none"]

--------------------------------------------------------------------------------
(* The processes. *)

NoApp == [kind |-> "none"]
NoConnection == [tls |-> Plain, auth |-> [kind |-> "none"]]

Init ==
  /\ \E given \in CommandLines, env \in [Procs -> Secrets \cup {Unset}] :
       opts = [p \in Procs |-> Parse(given[p], env[p])]
  /\ phase = [p \in Procs |-> "parsed"]
  /\ app = [p \in Procs |-> NoApp]
  /\ conn = [p \in Procs |-> NoConnection]
  /\ warned = [p \in Procs |-> FALSE]
  /\ session = [pq \in Pairs |-> "none"]

\* The error is returned to main, which exits.
Exit(p) == /\ phase' = [phase EXCEPT ![p] = "exited"]
           /\ UNCHANGED <<opts, app, conn, warned, session>>

CreateApp(p) ==
  /\ phase[p] = "parsed" /\ IdentityAccepted(opts[p])
  /\ phase' = [phase EXCEPT ![p] = "created"]
  /\ app' = [app EXCEPT ![p] = Identity(opts[p])]
  /\ UNCHANGED <<opts, conn, warned, session>>

CreateAppFails(p) == phase[p] = "parsed" /\ ~ IdentityAccepted(opts[p]) /\ Exit(p)

ConnectionAccepted(o) == TlsAccepted(o) /\ NodeAuthAccepted(o)

\* Slip: the warning is skipped for a token that is read from a file.
Warns_JwtOnly(o) == ~ UseTLS(o) /\ o.nodeAuth = "jwt"

Warns(o) == ~ UseTLS(o) /\ o.nodeAuth \notin {"none", Unset}

\* ClientConfig, and the connection it is for.
Connect(p) ==
  /\ phase[p] = "created" /\ ConnectionAccepted(opts[p])
  /\ phase' = [phase EXCEPT ![p] = "connected"]
  /\ conn' = [conn EXCEPT ![p] = [tls |-> Tls(opts[p]), auth |-> NodeAuth(opts[p])]]
  /\ warned' = [warned EXCEPT ![p] = Warns(opts[p])]
  /\ UNCHANGED <<opts, app, session>>

ConnectRefused(p) == phase[p] = "created" /\ ~ ConnectionAccepted(opts[p]) /\ Exit(p)

\* SLIM or the node may refuse what the options allow, at either step.
SlimFails(p) == /\ \/ phase[p] = "parsed" /\ IdentityAccepted(opts[p])
                   \/ phase[p] = "created" /\ ConnectionAccepted(opts[p])
                /\ Exit(p)

\* SLIM: the verifier of one app and the token of another, which must name an
\* issuer.
Verifies(verifier, token) ==
  /\ token.key \in verifier.trusted
  /\ token.algorithm = verifier.algorithm
  /\ token.issuer # Unset
  /\ verifier.issuer \in {Unset, token.issuer}
  /\ verifier.audience = {} \/ verifier.audience \cap token.audience # {}

\* Whether the session layer accepts p for q.  What SPIRE answers is outside.
Accepts(q, p) ==
  /\ app[p].kind = app[q].kind
  /\ app[q].kind = "shared-secret" => app[p].secret = app[q].secret
  /\ app[q].kind = "jwt" => Verifies(app[q].verifier, app[p].signer)

Meet(p, q) ==
  /\ p # q /\ phase[p] = "connected" /\ phase[q] = "connected" /\ session[{p, q}] = "none"
  /\ IF Accepts(q, p) /\ Accepts(p, q)
     THEN session' = [session EXCEPT ![{p, q}] = "open"]
     ELSE session' = [session EXCEPT ![{p, q}] = "refused"]
  /\ UNCHANGED <<opts, phase, app, conn, warned>>

\* The two SPIRE agents do not trust each other.
SpireRefuses(p, q) ==
  /\ p # q /\ phase[p] = "connected" /\ phase[q] = "connected" /\ session[{p, q}] = "none"
  /\ app[p].kind = "spire" /\ app[q].kind = "spire"
  /\ session' = [session EXCEPT ![{p, q}] = "refused"]
  /\ UNCHANGED <<opts, phase, app, conn, warned>>

\* Every process has exited or is connected, and those have met.
Terminated == /\ \A p \in Procs : phase[p] \in {"connected", "exited"}
              /\ \A p, q \in Procs : p # q /\ phase[p] = "connected" /\ phase[q] = "connected"
                   => session[{p, q}] # "none"
              /\ UNCHANGED vars

Next == \/ \E p \in Procs : \/ CreateApp(p) \/ CreateAppFails(p)
                            \/ Connect(p) \/ ConnectRefused(p) \/ SlimFails(p)
        \/ \E p, q \in Procs : Meet(p, q) \/ SpireRefuses(p, q)
        \/ Terminated

Spec == Init /\ [][Next]_vars

--------------------------------------------------------------------------------
(* Properties. *)

\* The configurations that have been made are those of the options.
TypeOK ==
  /\ DOMAIN opts = Procs /\ DOMAIN app = Procs /\ DOMAIN conn = Procs
  /\ phase \in [Procs -> {"parsed", "created", "connected", "exited"}]
  /\ warned \in [Procs -> BOOLEAN]
  /\ session \in [Pairs -> {"none", "open", "refused"}]
  /\ \A p \in Procs : /\ phase[p] \in {"created", "connected"} => app[p] = Identity(opts[p])
                      /\ phase[p] = "connected" =>
                           conn[p] = [tls |-> Tls(opts[p]), auth |-> NodeAuth(opts[p])]

\* What the options promise of a pair of processes, read off their values: ED25519
\* and EdDSA are one algorithm, an agent without --jwt-issuer issues its own
\* tokens, blank items of a list are no audience.
Speaks(o, name) == o.algorithm = name \/ {o.algorithm, name} = {"EDDSA", "ED25519"}

Issuer(o) == IF o.issuer # Unset THEN o.issuer ELSE o.subject

SharesAudience(o, peer) ==
  \/ \A i \in DOMAIN o.audience : o.audience[i] = Blank
  \/ \E i \in DOMAIN o.audience, j \in DOMAIN peer.audience :
       o.audience[i] # Blank /\ o.audience[i] = peer.audience[j]

Trusts(o, peer) == /\ peer.jwtKey \in o.verifyKeys
                   /\ Speaks(o, peer.algorithm)
                   /\ Issuer(peer) # Unset
                   /\ o.verifyIssuer # Unset => o.verifyIssuer = Issuer(peer)
                   /\ SharesAudience(o, peer)

Compatible(o, peer) ==
  /\ o.identity = peer.identity
  /\ o.identity = "shared-secret" => o.secret = peer.secret
  /\ o.identity = "jwt" => Trusts(o, peer) /\ Trusts(peer, o)

\* Two processes get a session exactly when their options are compatible (two SPIRE
\* identities may still be refused): the options that are accepted at each end
\* count at the other, and nobody is let in, or kept out, by one that was lost.
SessionsJoinCompatiblePeers ==
  \A p, q \in Procs : p # q =>
    /\ session[{p, q}] = "open" => Compatible(opts[p], opts[q])
    /\ session[{p, q}] = "refused" =>
         ~ Compatible(opts[p], opts[q]) \/ opts[p].identity = "spire"

\* A connection carries every TLS option there is; with one that a plain connection
\* cannot honour there is no connection in plain text, and a node is verified
\* unless that was switched off.
NoTlsOptionIsLost ==
  \A p \in Procs : phase[p] = "connected" =>
    LET o == opts[p]
        t == conn[p].tls
    IN  /\ {o.ca, o.cert, o.certKey} # {Unset} \/ o.skipVerify \/ o.tls
             \/ o.scheme \in {"https", "wss"} => t.secure
        /\ t.secure => t.verifyNode = ~ o.skipVerify
        /\ <<t.ca, t.cert, t.certKey>> = <<o.ca, o.cert, o.certKey>>
        /\ (t.cert = Unset) = (t.certKey = Unset)

\* The credentials for the node are of the kind asked for and complete, and never
\* cross a plain connection without a warning.
CredentialsAreAnnounced ==
  \A p \in Procs : phase[p] = "connected" =>
    LET auth == conn[p].auth
    IN  /\ auth.kind = IF opts[p].nodeAuth \in {"bearer", "jwt"} THEN opts[p].nodeAuth
                                                              ELSE "none"
        /\ auth.kind = "bearer" => auth.token # Unset
        /\ auth.kind = "jwt" => auth.signer.key # Unset /\ auth.signer.issuer # Unset
        /\ auth.kind # "none" /\ ~ conn[p].tls.secure => warned[p]
================================================================================
