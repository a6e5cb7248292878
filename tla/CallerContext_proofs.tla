---------------------------- MODULE CallerContext_proofs ----------------------------
(***************************************************************************)
(* Proofs about CallerContext.  Inv follows each request's application     *)
(* metadata from the application that started its chain of calls over the  *)
(* wire and the rpc context to the executor; type correctness gives the    *)
(* domains of the functions that describe the requests.                    *)
(***************************************************************************)
EXTENDS CallerContext, TLAPS

\* handlerContext leaves no session key in what the executor sees and takes no
\* application key away.
LEMMA WithoutSessionKeys ==
  ASSUME NEW md \in Metadata
  PROVE  /\ withoutSessionKeys(md) \in Metadata
         /\ \A k \in SessionKeys : withoutSessionKeys(md)[k] = Absent
         /\ \A k \in AppKeys : withoutSessionKeys(md)[k] = md[k]
  BY CallerAssumption DEF withoutSessionKeys, Metadata, Keys

LEMMA AppPartIsMetadata ==
  ASSUME NEW md \in Metadata
  PROVE  /\ AppPart(md) \in Metadata
         /\ \A k \in AppKeys : AppPart(md)[k] = md[k]
  BY DEF AppPart, Metadata, Keys

LEMMA NoMetadataIsMetadata ==
  NoMetadata \in Metadata /\ \A k \in Keys : NoMetadata[k] = Absent
  BY DEF NoMetadata, Metadata

\* Sending a request whose application metadata is that of its chain.
LEMMA SendKeepsInv ==
  ASSUME TypeOK, Inv, NEW r \in Requests, NEW from \in Peers, NEW to \in Peers,
         NEW md \in Metadata, NEW start \in Metadata,
         \A k \in AppKeys : md[k] = start[k],
         Send(r, from, to, md, start)
  PROVE  TypeOK' /\ Inv'
  <1>1. TypeOK' BY DEF TypeOK, Send
  <1>2. SessionKeysStayInTheirHop' BY DEF Inv, SessionKeysStayInTheirHop, Send
  <1>3. CallerIsTheSender'
    BY DEF TypeOK, Inv, CallerIsTheSender, Seen, Send
  <1>4. EndsAreKnown'
    BY DEF TypeOK, Inv, Send, EndsAreKnown
  <1>5. SubjectIsHonest'
    BY DEF TypeOK, Inv, Send, SubjectIsHonest
  <1>6. MetadataOnItsWay'
    BY DEF TypeOK, Inv, Seen, Send, MetadataOnItsWay
  <1> QED BY <1>1, <1>2, <1>3, <1>4, <1>5, <1>6 DEF Inv

LEMMA ArriveKeepsInv ==
  ASSUME TypeOK, Inv, NEW r \in Requests, Arrive(r)
  PROVE  TypeOK' /\ Inv'
  <1>1. PICK s \in {sender[r], Empty, Absent} : subject' = [subject EXCEPT ![r] = s]
    BY DEF Arrive
  <1>2. PICK added \in SUBSET SessionKeys :
          rpc' = [rpc EXCEPT ![r] = [k \in Keys |-> IF k \in added THEN sender[r]
                                                                  ELSE wire[r][k]]]
    BY DEF Arrive
  <1>3. sender[r] \in Peers BY DEF Inv, EndsAreKnown, Arrive
  <1>4. [k \in Keys |-> IF k \in added THEN sender[r] ELSE wire[r][k]] \in Metadata
    BY <1>3 DEF TypeOK, Metadata
  <1>5. TypeOK' BY <1>1, <1>2, <1>3, <1>4 DEF TypeOK, Arrive
  <1>6. SessionKeysStayInTheirHop' BY DEF Inv, SessionKeysStayInTheirHop, Arrive
  <1>7. CallerIsTheSender'
    BY <1>1 DEF TypeOK, Inv, CallerIsTheSender, Seen, Arrive
  <1>8. EndsAreKnown'
    BY DEF TypeOK, Inv, Arrive, EndsAreKnown
  <1>9. SubjectIsHonest'
    BY <1>1 DEF TypeOK, Inv, Arrive, SubjectIsHonest
  <1>10. \A k \in AppKeys : rpc'[r][k] = wire[r][k]
    BY <1>2, CallerAssumption DEF TypeOK, Keys
  <1>11. phase'[r] = "arrived" /\ \A q \in Requests : q # r => phase'[q] = phase[q] /\ rpc'[q] = rpc[q]
    BY <1>2 DEF TypeOK, Arrive
  <1>12. phase[r] # "unsent" /\ UNCHANGED <<origin, wire, ctx>> BY DEF Arrive
  <1>13. ASSUME NEW k \in AppKeys, NEW q \in Requests
         PROVE  /\ phase'[q] # "unsent" => wire'[q][k] = origin'[q][k]
                /\ phase'[q] \notin {"unsent", "flight"} => rpc'[q][k] = origin'[q][k]
                /\ phase'[q] \in {"handling", "done"} => ctx'[q][k] = origin'[q][k]
    <2>1. CASE q = r BY <2>1, <1>10, <1>11, <1>12 DEF Inv, MetadataOnItsWay
    <2>2. CASE q # r BY <2>2, <1>11, <1>12 DEF Inv, MetadataOnItsWay, Seen
    <2> QED BY <2>1, <2>2
  <1>14. MetadataOnItsWay' BY <1>13 DEF MetadataOnItsWay, Seen
  <1> QED BY <1>5, <1>6, <1>7, <1>8, <1>9, <1>14 DEF Inv

LEMMA HandleKeepsInv ==
  ASSUME TypeOK, Inv, NEW r \in Requests, Handle(r)
  PROVE  TypeOK' /\ Inv'
  <1> USE DEF Handle, handlerContext
  <1>1. rpc[r] \in Metadata BY DEF TypeOK
  <1>2. FromRPCContext(r) \in Peers \cup {Absent}
    BY CallerAssumption DEF TypeOK, FromRPCContext
  <1>3. TypeOK' BY <1>1, <1>2, WithoutSessionKeys DEF TypeOK
  <1>4. SessionKeysStayInTheirHop'
    BY <1>1, WithoutSessionKeys DEF TypeOK, Inv, SessionKeysStayInTheirHop
  <1>5. CallerIsTheSender'
    BY CallerAssumption
    DEF TypeOK, Inv, CallerIsTheSender, SubjectIsHonest, Seen, FromRPCContext
  <1>6. EndsAreKnown'
    BY DEF TypeOK, Inv, EndsAreKnown
  <1>7. SubjectIsHonest'
    BY DEF TypeOK, Inv, SubjectIsHonest
  <1>8. \A k \in AppKeys : ctx'[r][k] = rpc[r][k]
    BY <1>1, WithoutSessionKeys DEF TypeOK
  <1>9. MetadataOnItsWay'
    BY <1>8 DEF TypeOK, Inv, Seen, MetadataOnItsWay
  <1> QED BY <1>3, <1>4, <1>5, <1>6, <1>7, <1>9 DEF Inv

LEMMA ReturnKeepsInv ==
  ASSUME TypeOK, Inv, NEW r \in Requests, Return(r)
  PROVE  TypeOK' /\ Inv'
  <1> USE DEF Return
  <1>1. TypeOK' BY DEF TypeOK
  <1>2. SessionKeysStayInTheirHop' BY DEF Inv, SessionKeysStayInTheirHop
  <1>3. CallerIsTheSender' BY DEF TypeOK, Inv, CallerIsTheSender, Seen
  <1>4. EndsAreKnown'
    BY DEF TypeOK, Inv, EndsAreKnown
  <1>5. SubjectIsHonest'
    BY DEF TypeOK, Inv, SubjectIsHonest
  <1>6. MetadataOnItsWay'
    BY DEF TypeOK, Inv, Seen, MetadataOnItsWay
  <1> QED BY <1>1, <1>2, <1>3, <1>4, <1>5, <1>6 DEF Inv

\* Every execution has well-typed states and keeps Inv.
THEOREM Invariance == Spec => [](TypeOK /\ Inv)
<1>1. Init => TypeOK /\ Inv
  BY NoMetadataIsMetadata, CallerAssumption
  DEF Init, TypeOK, Inv, SessionKeysStayInTheirHop, CallerIsTheSender, EndsAreKnown,
      SubjectIsHonest, MetadataOnItsWay, Seen, Keys
<1>2. TypeOK /\ Inv /\ [Next]_vars => TypeOK' /\ Inv'
  <2> SUFFICES ASSUME TypeOK, Inv, [Next]_vars PROVE TypeOK' /\ Inv'
    OBVIOUS
  <2>1. ASSUME NEW r \in Requests, Arrive(r) PROVE TypeOK' /\ Inv'
    BY <2>1, ArriveKeepsInv
  <2>2. ASSUME NEW r \in Requests, Handle(r) PROVE TypeOK' /\ Inv'
    BY <2>2, HandleKeepsInv
  <2>3. ASSUME NEW r \in Requests, Return(r) PROVE TypeOK' /\ Inv'
    BY <2>3, ReturnKeepsInv
  <2>4. ASSUME NEW r \in Requests, NEW from \in Peers, NEW to \in Peers,
               ClientCalls(r, from, to)
        PROVE  TypeOK' /\ Inv'
    <3>1. PICK md \in [Keys -> Values \cup {Absent}] : Send(r, from, to, md, AppPart(md))
      BY <2>4 DEF ClientCalls
    <3>2. md \in Metadata BY DEF Metadata
    <3> HIDE DEF Inv, TypeOK
    <3> QED BY <3>1, <3>2, AppPartIsMetadata, SendKeepsInv
  <2>5. ASSUME NEW q \in Requests, NEW r \in Requests, NEW to \in Peers,
               ExecutorCalls(q, r, to)
        PROVE  TypeOK' /\ Inv'
    <3>1. phase[q] = "handling" /\ Send(r, server[q], to, ctx[q], origin[q])
      BY <2>5 DEF ExecutorCalls
    <3>2. server[q] \in Peers BY <3>1 DEF Inv, EndsAreKnown
    <3>3. ctx[q] \in Metadata /\ origin[q] \in Metadata BY DEF TypeOK
    <3>4. \A k \in AppKeys : ctx[q][k] = origin[q][k] BY <3>1 DEF Inv, MetadataOnItsWay, Seen
    <3> QED BY <3>1, <3>2, <3>3, <3>4, SendKeepsInv
  <2>6. CASE UNCHANGED vars
    BY <2>6 DEF vars, TypeOK, Inv, SessionKeysStayInTheirHop, CallerIsTheSender, EndsAreKnown,
           SubjectIsHonest, MetadataOnItsWay, Seen
  <2> QED BY <2>1, <2>2, <2>3, <2>4, <2>5, <2>6 DEF Next, Terminated
<1> QED BY <1>1, <1>2, PTL DEF Spec

\* Type correctness (the maps and callers of server.go's handlerContext).
THEOREM TypeCorrect == Spec => []TypeOK
BY Invariance, PTL

\* The Caller is the app that sent the request, or there is none, for any number
\* of concurrent and relayed requests.
THEOREM CallerIsVerified == Spec => []CallerIsTheSender
<1>1. Inv => CallerIsTheSender BY DEF Inv
<1> QED BY <1>1, Invariance, PTL

\* No session-layer key reaches an executor or, by relaying, another hop.
THEOREM SessionKeysStay == Spec => []SessionKeysStayInTheirHop
<1>1. Inv => SessionKeysStayInTheirHop BY DEF Inv
<1> QED BY <1>1, Invariance, PTL

\* Application metadata reaches every executor of a chain of calls unchanged.
THEOREM AppMetadataKept == Spec => []AppMetadataIsKept
<1>1. Inv => AppMetadataIsKept BY DEF Inv, MetadataOnItsWay, AppMetadataIsKept
<1> QED BY <1>1, Invariance, PTL
================================================================================
