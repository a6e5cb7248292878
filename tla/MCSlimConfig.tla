------------------------------- MODULE MCSlimConfig -------------------------------
(* Command lines for SlimConfig: those about identity, for both of two processes, *)
(* and those about the connection, for one of them while the other gives up.      *)
EXTENDS SlimConfig, TLC

CONSTANTS p1, p2, key1, key2, did, ca, aud1, aud2, secret, file

MCSecrets == {DefaultSecret, secret}
TwoProcs == {p1, p2}

\* Who is trusted: signing keys, their algorithms, the keys a verifier knows.
Trust == [identity : {"jwt"}, jwtKey : {key1, key2}, subject : {did},
          algorithm : {"EDDSA", "ED25519", "ES256"},
          verifyKeys : {{key1}, {key2}, {key1, key2}}]

\* What tokens say, and what a verifier asks of them.
Claims == [identity : {"jwt"}, jwtKey : {key1, key2}, verifyKeys : {{key1, key2}},
           subject : {did, Unset}, issuer : {ca, Unset}, verifyIssuer : {Unset, ca, did},
           audience : {<<>>, <<aud1>>, <<Blank, aud2>>, <<aud2, aud1>>}]

\* One thing is missing or wrong.
Incomplete ==
  [identity : {"jwt"}, jwtKey : {key1, Unset}, subject : {did},
   algorithm : {"EDDSA", "HS256"}, verifyKeys : {Unset, {key1}},
   verifyFormat : {"jwks", "der"}]

Others == [identity : {"spire", "none"}] \cup [secret : {Unset, secret}] \cup {<<>>}

IdentityLines == Trust \cup Claims \cup Incomplete \cup Others

ConnectionLines ==
  [scheme : {"http", "https", "wss"}, tls : BOOLEAN, ca : {file, Unset},
   skipVerify : BOOLEAN, cert : {file, Unset}, certKey : {file, Unset},
   nodeAuth : {"none", Unset, "bearer", "jwt", "basic"}, tokenFile : {file, Unset},
   jwtKey : {key1, Unset}, subject : {did, Unset}]

\* An identity kind that does not exist.
NoStart == [identity |-> "none"]

MCCommandLines ==
  [TwoProcs -> IdentityLines]
  \cup {[p \in TwoProcs |-> IF p = q THEN given ELSE NoStart] :
          q \in TwoProcs, given \in ConnectionLines}

Symmetry == Permutations(TwoProcs)
================================================================================
