------------------------------ MODULE CallerContext ------------------------------
(***************************************************************************)
(* What the executor of an agent learns about a request from its context:  *)
(* the verified Caller, and the call metadata.  Requests are handled       *)
(* concurrently, each in a context that handlerContext builds, and the     *)
(* executor of one request may call another agent with that context: the   *)
(* stub then sends the context's metadata on.                              *)
(*                                                                         *)
(*   sender --wire metadata--> SLIM session --rpc context--> handlerContext *)
(*          ^                                                     |        *)
(*          +---- stub <---- executor <---- context --------------+        *)
(***************************************************************************)
EXTENDS Naturals

CONSTANTS Requests,     \* bound on the requests
          Peers,        \* the apps that send and serve requests
          SessionKeys,  \* the metadata keys of the SLIM session layer
          AppKeys,      \* the keys of applications
          Values,       \* metadata values a sender may choose
          Absent,       \* a key has no value; SLIM reports no subject
          Empty         \* SLIM reports the empty string

Keys == SessionKeys \cup AppKeys
Metadata == [Keys -> Values \cup Peers \cup {Absent}]
NoMetadata == [k \in Keys |-> Absent]

ASSUME CallerAssumption == /\ SessionKeys \cap AppKeys = {}
                           /\ Absent \notin Values \cup Peers
                           /\ Empty \notin Peers
                           /\ Absent # Empty

VARIABLES
  phase,    \* per request: "unsent", "flight", "arrived", "handling", "done"
  sender,   \* the app that sent it
  server,   \* the app that serves it
  origin,   \* the application metadata its chain of calls started with
  wire,     \* the metadata the stub passed to the channel
  subject,  \* the subject SLIM reports for it: a peer, Empty or Absent
  rpc,      \* the metadata of its rpc context
  ctx,      \* the metadata of the context its executor sees
  caller    \* the Caller in that context, Absent when there is none

vars == <<phase, sender, server, origin, wire, subject, rpc, ctx, caller>>

TypeOK ==
  /\ phase \in [Requests -> {"unsent", "flight", "arrived", "handling", "done"}]
  /\ sender \in [Requests -> Peers \cup {Absent}]
  /\ server \in [Requests -> Peers \cup {Absent}]
  /\ origin \in [Requests -> Metadata]
  /\ wire \in [Requests -> Metadata]
  /\ subject \in [Requests -> Peers \cup {Empty, Absent}]
  /\ rpc \in [Requests -> Metadata]
  /\ ctx \in [Requests -> Metadata]
  /\ caller \in [Requests -> Peers \cup {Absent}]

Init ==
  /\ phase = [r \in Requests |-> "unsent"]
  /\ sender = [r \in Requests |-> Absent]
  /\ server = [r \in Requests |-> Absent]
  /\ origin = [r \in Requests |-> NoMetadata]
  /\ wire = [r \in Requests |-> NoMetadata]
  /\ subject = [r \in Requests |-> Absent]
  /\ rpc = [r \in Requests |-> NoMetadata]
  /\ ctx = [r \in Requests |-> NoMetadata]
  /\ caller = [r \in Requests |-> Absent]

AppPart(md) == [k \in Keys |-> IF k \in AppKeys THEN md[k] ELSE Absent]

\* The stub takes the metadata from the context it is called with.
Send(r, from, to, md, start) ==
  /\ phase[r] = "unsent"
  /\ phase' = [phase EXCEPT ![r] = "flight"]
  /\ sender' = [sender EXCEPT ![r] = from]
  /\ server' = [server EXCEPT ![r] = to]
  /\ wire' = [wire EXCEPT ![r] = md]
  /\ origin' = [origin EXCEPT ![r] = start]
  /\ UNCHANGED <<subject, rpc, ctx, caller>>

\* An application calls with metadata of its own, which may use any key.
ClientCalls(r, from, to) ==
  \E md \in [Keys -> Values \cup {Absent}] : Send(r, from, to, md, AppPart(md))

\* The executor that handles q calls another agent with q's context.
ExecutorCalls(q, r, to) == /\ phase[q] = "handling"
                           /\ Send(r, server[q], to, ctx[q], origin[q])

\* The session layer adds its keys; SLIM reports the subject it verified, if it
\* verified one that has a name.
Arrive(r) ==
  /\ phase[r] = "flight"
  /\ phase' = [phase EXCEPT ![r] = "arrived"]
  /\ \E s \in {sender[r], Empty, Absent} : subject' = [subject EXCEPT ![r] = s]
  /\ \E added \in SUBSET SessionKeys :
       rpc' = [rpc EXCEPT ![r] = [k \in Keys |-> IF k \in added THEN sender[r]
                                                              ELSE wire[r][k]]]
  /\ UNCHANGED <<sender, server, origin, wire, ctx, caller>>

\* Slip: the subject is read from the session layer's metadata.
FromRPCContext_Metadata(r) ==
  IF \E k \in SessionKeys : rpc[r][k] # Absent
  THEN rpc[r][CHOOSE k \in SessionKeys : rpc[r][k] # Absent] ELSE Absent

\* There is a Caller when SLIM reports a subject that is not empty.
FromRPCContext(r) == IF subject[r] = Empty THEN Absent ELSE subject[r]

\* Slip: the loop that deletes stops at the first key.
withoutSessionKeys_First(md) ==
  [k \in Keys |-> IF k = CHOOSE s \in SessionKeys : TRUE THEN Absent ELSE md[k]]

\* Slip: the copy is made and not filled.
withoutSessionKeys_Blank(md) ==
  IF \E k \in SessionKeys : md[k] # Absent THEN NoMetadata ELSE md

\* A copy of the metadata without the session layer's keys; the metadata itself
\* when it has none of them.
withoutSessionKeys(md) == [k \in Keys |-> IF k \in SessionKeys THEN Absent ELSE md[k]]

handlerContext(r) ==
  /\ ctx' = [ctx EXCEPT ![r] = withoutSessionKeys(rpc[r])]
  /\ caller' = [caller EXCEPT ![r] = FromRPCContext(r)]
  /\ UNCHANGED rpc

\* The adapter builds the context and calls the handler with it.
Handle(r) == /\ phase[r] = "arrived"
             /\ phase' = [phase EXCEPT ![r] = "handling"]
             /\ handlerContext(r)
             /\ UNCHANGED <<sender, server, origin, wire, subject>>

Return(r) == /\ phase[r] = "handling"
             /\ phase' = [phase EXCEPT ![r] = "done"]
             /\ UNCHANGED <<sender, server, origin, wire, subject, rpc, ctx, caller>>

Terminated == /\ \A r \in Requests : phase[r] = "done"
              /\ UNCHANGED vars

Next == \/ \E r \in Requests : Arrive(r) \/ Handle(r) \/ Return(r)
        \/ \E r \in Requests, from, to \in Peers : ClientCalls(r, from, to)
        \/ \E q, r \in Requests, to \in Peers : ExecutorCalls(q, r, to)
        \/ Terminated

Spec == Init /\ [][Next]_vars

--------------------------------------------------------------------------------
(* Properties. *)

Seen(r) == phase[r] \in {"handling", "done"}

\* The Caller an executor sees is the app that sent its request, or there is
\* none: neither metadata the sender chose, nor a subject without a name, nor the
\* caller of the request it was relayed from can take its place.
CallerIsTheSender ==
  \A r \in Requests : Seen(r) => \/ caller[r] = sender[r] /\ subject[r] = sender[r]
                                 \/ caller[r] = Absent /\ subject[r] \in {Empty, Absent}

\* What the session layer added for one hop, or a sender put in its keys, never
\* reaches an executor, and so no relayed request carries it to the next hop.
SessionKeysStayInTheirHop ==
  \A r \in Requests, k \in SessionKeys : ctx[r][k] = Absent

\* The application metadata a chain of calls started with reaches every executor
\* of the chain as it was.
AppMetadataIsKept ==
  \A r \in Requests, k \in AppKeys : Seen(r) => ctx[r][k] = origin[r][k]

EndsAreKnown == \A r \in Requests :
  phase[r] # "unsent" => sender[r] \in Peers /\ server[r] \in Peers

SubjectIsHonest == \A r \in Requests :
  \/ subject[r] \in {Empty, Absent}
  \/ phase[r] # "unsent" /\ subject[r] = sender[r]

\* Application metadata at each stage of a request.
MetadataOnItsWay == \A r \in Requests, k \in AppKeys :
  /\ phase[r] # "unsent" => wire[r][k] = origin[r][k]
  /\ phase[r] \notin {"unsent", "flight"} => rpc[r][k] = origin[r][k]
  /\ Seen(r) => ctx[r][k] = origin[r][k]

\* The inductive invariant.
Inv == /\ SessionKeysStayInTheirHop
       /\ CallerIsTheSender
       /\ EndsAreKnown
       /\ SubjectIsHonest
       /\ MetadataOnItsWay
================================================================================
