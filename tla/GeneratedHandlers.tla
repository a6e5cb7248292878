----------------------------- MODULE GeneratedHandlers -----------------------------
(***************************************************************************)
(* The handlers that the stub generator writes, beside the adapters that   *)
(* RegisterWith puts in their place.  A client is not to notice which of   *)
(* them serves it; the agent is to see the same context but for the        *)
(* session layer's metadata and the Caller.                                *)
(*                                                                         *)
(* A request is what becomes of it: whether it unmarshals, what the agent  *)
(* sends and returns, whether its response marshals and its sink closes.   *)
(* The same request is given to a handler of each kind.  What a handler    *)
(* does that others can see is its transcript: the calls on the sink in    *)
(* their order, what it returns, and the context it called the agent with. *)
(***************************************************************************)
EXTENDS Naturals, Sequences

CONSTANTS SessionKeys,  \* the metadata keys of the SLIM session layer
          AppKeys,      \* the keys of applications
          Peers,        \* the subjects SLIM may report
          Absent,       \* SLIM reports no subject
          Empty,        \* or the empty string
          MaxEvents     \* bound on the messages of one stream

ASSUME HandlersAssumption == /\ SessionKeys \cap AppKeys = {}
                             /\ Absent \notin Peers /\ Empty \notin Peers
                             /\ Absent # Empty
                             /\ MaxEvents \in Nat

Results == {"ok", "plain", "rpc"}   \* rpc: the error is an *RpcError

Requests ==
  [unmarshals : BOOLEAN, metadata : SUBSET (SessionKeys \cup AppKeys),
   subject : Peers \cup {Absent, Empty}, sends : 0..MaxEvents, result : Results,
   marshals : BOOLEAN, closes : Results]

Kinds == {"unary", "stream"}

NotCalled == [metadata |-> {}, caller |-> Absent, called |-> FALSE]

Transcript(sink, returned, ctx) == [sink |-> sink, returned |-> returned, ctx |-> ctx]

Sent(r) == [i \in 1..r.sends |-> "message"]

--------------------------------------------------------------------------------
(* The generated handlers. *)

\* ContextFromRpcContext: all of the metadata, and no Caller.
GeneratedContext(r) == [metadata |-> r.metadata, caller |-> Absent, called |-> TRUE]

\* "Check if it's already an RpcError", written out at every place.
GeneratedError(err) == IF err = "rpc" THEN "Own" ELSE "Internal"

GeneratedUnary(r) ==
  CASE ~ r.unmarshals -> Transcript(<<>>, "InvalidArgument", NotCalled)
    [] r.unmarshals /\ r.result # "ok" ->
         Transcript(<<>>, GeneratedError(r.result), GeneratedContext(r))
    [] r.unmarshals /\ r.result = "ok" ->
         Transcript(<<>>, IF r.marshals THEN "ok" ELSE "Internal", GeneratedContext(r))

GeneratedStream(r) ==
  IF ~ r.unmarshals
  THEN Transcript(<<"InvalidArgument">>, "InvalidArgument", NotCalled)
  ELSE LET err == IF r.result = "ok" THEN r.closes ELSE r.result
       IN  IF err = "ok"
           THEN Transcript(Append(Sent(r), "close"), "ok", GeneratedContext(r))
           ELSE Transcript(Sent(r) \o <<"close", GeneratedError(err)>>,
                           GeneratedError(err), GeneratedContext(r))

--------------------------------------------------------------------------------
(* The adapters. *)

\* Slip: the code of the call site takes the place of the error's own.
toRPCError_Default(err, code) == code

toRPCError(err, code) == IF err = "rpc" THEN "Own" ELSE code

\* Slip: only nil is taken for "no subject".
handlerContext_Nil(r) ==
  [metadata |-> r.metadata \ SessionKeys, caller |-> r.subject, called |-> TRUE]

handlerContext(r) ==
  [metadata |-> r.metadata \ SessionKeys,
   caller |-> IF r.subject = Empty THEN Absent ELSE r.subject, called |-> TRUE]

UnaryAdapter(r) ==
  IF ~ r.unmarshals
  THEN Transcript(<<>>, toRPCError("plain", "InvalidArgument"), NotCalled)
  ELSE LET err == IF r.result # "ok" THEN r.result ELSE IF r.marshals THEN "ok" ELSE "plain"
       IN  Transcript(<<>>, IF err = "ok" THEN "ok" ELSE toRPCError(err, "Internal"),
                      handlerContext(r))

StreamAdapter(r) ==
  IF ~ r.unmarshals
  THEN LET code == toRPCError("plain", "InvalidArgument")
       IN  Transcript(<<code>>, code, NotCalled)
  ELSE LET err == IF r.result = "ok" THEN r.closes ELSE r.result
           code == toRPCError(err, "Internal")
       IN  IF err = "ok"
           THEN Transcript(Append(Sent(r), "close"), "ok", handlerContext(r))
           ELSE Transcript(Sent(r) \o <<"close", code>>, code, handlerContext(r))

--------------------------------------------------------------------------------
(* One request, given to a server of each kind. *)

VARIABLES kind, request,
          generated,  \* the transcript of the generated handler
          adapted     \* and that of the adapter

vars == <<kind, request, generated, adapted>>

Idle == Transcript(<<>>, "none", NotCalled)

Init == /\ kind \in Kinds /\ request \in Requests
        /\ generated = Idle /\ adapted = Idle

HandleGenerated ==
  /\ generated = Idle
  /\ generated' = IF kind = "unary" THEN GeneratedUnary(request) ELSE GeneratedStream(request)
  /\ UNCHANGED <<kind, request, adapted>>

HandleAdapted ==
  /\ adapted = Idle
  /\ adapted' = IF kind = "unary" THEN UnaryAdapter(request) ELSE StreamAdapter(request)
  /\ UNCHANGED <<kind, request, generated>>

Answered == generated # Idle /\ adapted # Idle

Terminated == Answered /\ UNCHANGED vars

Next == HandleGenerated \/ HandleAdapted \/ Terminated

Spec == Init /\ [][Next]_vars

--------------------------------------------------------------------------------
(* Properties. *)

\* RegisterWith may put its adapters in the place of the generated handlers: whatever
\* fails, and wherever, the client is sent the same messages, the same end and the
\* same error code in the same order, and SLIM is returned the same.
SameAnswer == Answered => /\ adapted.sink = generated.sink
                          /\ adapted.returned = generated.returned

\* The agent is called for the same requests, with the same application metadata; only
\* the session layer's keys are gone, and a Caller is there exactly when SLIM
\* reported a subject that is not empty.
OnlyIdentityDiffers ==
  Answered => /\ adapted.ctx.called = generated.ctx.called
              /\ adapted.ctx.metadata = generated.ctx.metadata \cap AppKeys
              /\ adapted.ctx.called =>
                   adapted.ctx.caller = IF request.subject \in Peers THEN request.subject
                                                                    ELSE Absent
================================================================================
