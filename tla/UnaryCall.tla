-------------------------------- MODULE UnaryCall --------------------------------
(***************************************************************************)
(* One unary operation: a method of Transport, its stub, the SLIM channel, *)
(* the adapter unary.Handle, the method of Handler and the agent's         *)
(* RequestHandler.  The client goroutine and the server goroutine are      *)
(* concurrent; the channel may lose the request, lose the answer, or give  *)
(* up while the agent is still working.  The library sends each call once. *)
(* The application may call again, and does so here only after an error    *)
(* that tells it nothing happened.                                         *)
(***************************************************************************)
EXTENDS Naturals

CONSTANTS Methods,     \* the unary methods, of v0 and of v1
          Bodyless,    \* those whose request is not converted (v0 GetAgentCard)
          Resultless,  \* those whose response is not converted (Delete...)
          MaxAttempts  \* bound on the calls the application makes

ASSUME UnaryAssumption == /\ Bodyless \subseteq Methods
                          /\ Resultless \subseteq Methods
                          /\ MaxAttempts \in Nat

VARIABLES
  method,       \* the method being called
  hasDeadline,  \* the caller's context has a deadline
  attempt,      \* how many calls the application has made
  client,       \* where the Transport method is
  outcome,      \* "running", "ok" or "failed"
  cause,        \* the error it returned
  server,       \* where the request and its Handle call are
  agent,        \* the agent's RequestHandler method
  effects,      \* how many times the agent carried the operation out
  ctx,          \* the context the agent runs under
  status,       \* what Handle returned
  answer        \* the response on its way to the client

clientVars == <<attempt, client, outcome, cause>>
serverVars == <<server, agent, effects, ctx, status, answer>>
params == <<method, hasDeadline>>
vars == <<params, clientVars, serverVars>>

Codes == {"InvalidArgument", "Internal", "Own"}  \* Own: carried by an *RpcError
Retryable == {"request", "InvalidArgument"}

TypeOK ==
  /\ method \in Methods
  /\ hasDeadline \in BOOLEAN
  /\ attempt \in Nat
  /\ client \in {"ready", "waiting", "done"}
  /\ outcome \in {"running", "ok", "failed"}
  /\ cause \in {"none", "request", "call", "decode"} \cup Codes
  /\ server \in {"idle", "flight", "arrived", "running", "encoding", "returned"}
  /\ agent \in {"idle", "running", "applied", "failed"}
  /\ effects \in Nat
  /\ ctx \in {"none", "live", "cancelled"}
  /\ status \in {"none", "ok"} \cup Codes
  /\ answer \in {"none", "ok"} \cup Codes

Init ==
  /\ method \in Methods /\ hasDeadline \in BOOLEAN
  /\ attempt = 1 /\ client = "ready" /\ outcome = "running" /\ cause = "none"
  /\ server = "idle" /\ agent = "idle" /\ effects = 0
  /\ ctx = "none" /\ status = "none" /\ answer = "none"

--------------------------------------------------------------------------------
(* The client. *)

Finish(o, c) == /\ client' = "done"
                /\ outcome' = o
                /\ cause' = c
                /\ UNCHANGED attempt

\* ToProto... fails: nothing is sent.
EncodeFails == /\ client = "ready" /\ method \notin Bodyless
               /\ Finish("failed", "request")
               /\ UNCHANGED <<params, serverVars>>

\* CallUnaryAsync; the request may be lost.
Call == /\ client = "ready"
        /\ client' = "waiting"
        /\ server' \in {"idle", "flight"}
        /\ UNCHANGED <<params, attempt, outcome, cause, agent, effects, ctx, status, answer>>

\* Slip: a response that does not decode is taken for a bad request.
ResponseArrives_Blames ==
  /\ client = "waiting" /\ answer = "ok"
  /\ \/ Finish("ok", "none")
     \/ method \notin Resultless /\ Finish("failed", "request")
  /\ UNCHANGED <<params, serverVars>>

ResponseArrives == /\ client = "waiting" /\ answer = "ok"
                   /\ \/ Finish("ok", "none")
                      \/ method \notin Resultless /\ Finish("failed", "decode")
                   /\ UNCHANGED <<params, serverVars>>

\* Slip: an error response is dropped and the call keeps waiting.
ErrorArrives_Dropped == /\ client = "waiting" /\ answer \in Codes
                        /\ UNCHANGED vars

\* Slip: the error the stub returns is not looked at.
ErrorArrives_AsResult == /\ client = "waiting" /\ answer \in Codes
                         /\ Finish("ok", "none")
                         /\ UNCHANGED <<params, serverVars>>

ErrorArrives == /\ client = "waiting" /\ answer \in Codes
                /\ Finish("failed", answer)
                /\ UNCHANGED <<params, serverVars>>

\* The session is lost, or a response is not the message the stub expects.
CallFails == /\ client = "waiting"
             /\ Finish("failed", "call")
             /\ UNCHANGED <<params, serverVars>>

\* Slip: the stub reads the deadline and passes no timeout.
DeadlineExpires_NotPassed == /\ FALSE
                             /\ Finish("failed", "call")
                             /\ UNCHANGED <<params, serverVars>>

\* The timeout the stub took from the context is over.
DeadlineExpires == /\ client = "waiting" /\ hasDeadline
                   /\ Finish("failed", "call")
                   /\ UNCHANGED <<params, serverVars>>

\* The application calls again.  Handle has returned or was never reached.
Retry == /\ outcome = "failed" /\ cause \in Retryable /\ attempt < MaxAttempts
         /\ attempt' = attempt + 1
         /\ client' = "ready" /\ outcome' = "running" /\ cause' = "none"
         /\ server' = "idle" /\ agent' = "idle"
         /\ ctx' = "none" /\ status' = "none" /\ answer' = "none"
         /\ UNCHANGED <<params, effects>>

--------------------------------------------------------------------------------
(* The server: unary.Handle around a method of Handler. *)

RequestArrives == /\ server = "flight"
                  /\ server' = "arrived"
                  /\ UNCHANGED <<params, clientVars, agent, effects, ctx, status, answer>>

\* Slip: every error gets the code of the first call site.
ErrorCode_Fixed(err, default) == "InvalidArgument"

\* toRPCError: only an error whose dynamic type is *RpcError keeps its code.
ErrorCode(err, default) == IF err = "rpc" THEN "Own" ELSE default

\* Handle returns; its response may be lost.
Answer(s) == /\ server' = "returned"
             /\ status' = s
             /\ answer' \in {"none", s}

\* Slip: the deferred cancel is dropped.
Release_Forgotten == UNCHANGED ctx

\* The deferred cancel.
Release == ctx' = "cancelled"

\* proto.Unmarshal fails, before there is a context.
RejectRequest == /\ server = "arrived"
                 /\ Answer(ErrorCode("plain", "InvalidArgument"))
                 /\ UNCHANGED <<params, clientVars, agent, effects, ctx>>

\* handlerContext, and the call of the method.
StartHandler == /\ server = "arrived"
                /\ server' = "running"
                /\ ctx' = "live"
                /\ UNCHANGED <<params, clientVars, agent, effects, status, answer>>

\* FromProto... fails, or ExtractTaskID in v0.
ConvertFails == /\ server = "running" /\ agent = "idle" /\ method \notin Bodyless
                /\ Answer(ErrorCode("plain", "Internal"))
                /\ Release
                /\ UNCHANGED <<params, clientVars, agent, effects>>

StartAgent == /\ server = "running" /\ agent = "idle"
              /\ agent' = "running"
              /\ UNCHANGED <<params, clientVars, server, effects, ctx, status, answer>>

\* Slip: a handler that calls the agent again when its first answer is lost.
AgentApplies_Again == /\ server = "running" /\ agent = "running"
                      /\ agent' = "applied"
                      /\ effects' \in {effects + 1, effects + 2}
                      /\ server' = "encoding"
                      /\ UNCHANGED <<params, clientVars, ctx, status, answer>>

AgentApplies == /\ server = "running" /\ agent = "running"
                /\ agent' = "applied"
                /\ effects' = effects + 1
                /\ server' = "encoding"
                /\ UNCHANGED <<params, clientVars, ctx, status, answer>>

\* Slip: the agent runs in a goroutine of its own, and Handle returns without it
\* when the context is over.
AgentFails_Detached(err) ==
  /\ agent = "running"
  /\ \/ /\ server = "running"
        /\ Answer(ErrorCode(err, "Internal"))
        /\ UNCHANGED <<agent, effects>>
     \/ /\ server = "returned"
        /\ agent' = "failed" /\ effects' = effects + 1
        /\ UNCHANGED <<server, status, answer>>
  /\ Release
  /\ UNCHANGED <<params, clientVars>>

\* An agent may fail after it has done its work.
AgentFails(err) == /\ server = "running" /\ agent = "running"
                   /\ agent' = "failed"
                   /\ effects' \in {effects, effects + 1}
                   /\ Answer(ErrorCode(err, "Internal"))
                   /\ Release
                   /\ UNCHANGED <<params, clientVars>>

\* Slip: a response that waits for its reader.
Respond_Rendezvous == /\ server = "encoding" /\ client = "waiting"
                      /\ Answer("ok")
                      /\ Release
                      /\ UNCHANGED <<params, clientVars, agent, effects>>

Respond == /\ server = "encoding"
           /\ Answer("ok")
           /\ Release
           /\ UNCHANGED <<params, clientVars, agent, effects>>

\* ToProto... or proto.Marshal fails, after the agent has done its work.
ResponseEncodeFails == /\ server = "encoding" /\ method \notin Resultless
                       /\ Answer(ErrorCode("plain", "Internal"))
                       /\ Release
                       /\ UNCHANGED <<params, clientVars, agent, effects>>

AgentStep == AgentApplies \/ \E err \in {"plain", "rpc"} : AgentFails(err)

HandleStep == RejectRequest \/ StartHandler \/ StartAgent \/ Respond

HandleFails == ConvertFails \/ ResponseEncodeFails

Receive == ResponseArrives \/ ErrorArrives

\* The application has its result, and nothing is left running for it.
Terminated == /\ client = "done" /\ server \in {"idle", "returned"}
              /\ UNCHANGED vars

Next == \/ EncodeFails \/ Call \/ Receive \/ CallFails \/ DeadlineExpires \/ Retry
        \/ RequestArrives \/ AgentStep \/ HandleStep \/ HandleFails
        \/ Terminated

Spec == Init /\ [][Next]_vars

\* Both goroutines keep running, the agent answers, and a timeout given to SLIM
\* expires; no message is assumed to arrive.
Fairness == /\ WF_vars(Receive) /\ WF_vars(DeadlineExpires)
            /\ WF_vars(AgentStep) /\ WF_vars(HandleStep)

FairSpec == Spec /\ Fairness

--------------------------------------------------------------------------------
(* Properties. *)

\* A Transport method returns a result only for an operation the agent carried
\* out, in this call, and whose response Handle returned.
SuccessIsGenuine == outcome = "ok" => agent = "applied" /\ status = "ok" /\ effects = 1

\* An application that repeats a call only after a request error of its own
\* Transport or the adapter's InvalidArgument never has it carried out twice.
AppliedAtMostOnce == effects <= 1

\* Those errors mean that nothing happened and that nothing is under way.
RetryableMeansUntouched ==
  cause \in Retryable => effects = 0 /\ server \in {"idle", "returned"}

\* The agent runs under a live context, and when Handle has returned neither the
\* agent nor its context is left behind, on any of its returns.
NothingLeaks == /\ agent = "running" => ctx = "live"
                /\ server = "returned" => agent # "running" /\ ctx # "live"

\* Whatever a Transport method returned, except the failure of the call itself, the
\* server is done with it: the operation is not carried out behind the back of a
\* caller that was told Internal, the agent's own code, or that a response could not
\* be decoded, and may look now at what there is.  Only a lost or timed-out call
\* may still be at work.
AnswerSettles == [][outcome # "running" /\ cause # "call" => effects' = effects]_vars

phase == IF outcome = "running" THEN "open"
         ELSE IF outcome = "ok" THEN "ok"
         ELSE IF cause \in Retryable THEN "retryable" ELSE "unknown"

I == INSTANCE Invocation

\* The call is the invocation it promises.
ImplementsInvocation == I!Spec

\* A Handle call that a request reached returns, also when its client gave up.
HandlerReturns == (server = "arrived") ~> (server = "returned")

\* With a deadline a call returns, whatever is lost.
DeadlineEndsCall == (hasDeadline /\ client = "waiting") ~> (client = "done")

\* Without one it returns when a response arrives.
ResponseEndsCall == (answer # "none" /\ client = "waiting") ~> (client = "done")

--------------------------------------------------------------------------------
(* The inductive invariant behind the safety properties. *)

\* The client side, and what it knows of the server when it has stopped.
ClientInv ==
  /\ client = "done" <=> outcome # "running"
  /\ outcome = "failed" <=> cause # "none"
  /\ client = "ready" => server = "idle"
  /\ outcome = "ok" => answer = "ok"
  /\ cause \in Codes => answer = cause
  /\ cause = "decode" => answer = "ok"
  /\ cause = "request" => server = "idle"

\* The server side: what each phase of Handle implies.
ServerInv ==
  /\ server \in {"idle", "flight", "arrived"} =>
       agent = "idle" /\ ctx = "none" /\ effects = 0
  /\ server = "running" => agent \in {"idle", "running"} /\ ctx = "live" /\ effects = 0
  /\ server = "encoding" => agent = "applied" /\ ctx = "live" /\ effects = 1
  /\ server # "returned" => status = "none" /\ answer = "none"
  /\ server = "returned" => status # "none" /\ agent # "running" /\ ctx # "live"
  /\ status = "ok" => agent = "applied" /\ effects = 1
  /\ status = "InvalidArgument" => effects = 0
  /\ effects <= 1
  /\ answer # "none" => answer = status

Inv == ClientInv /\ ServerInv
================================================================================
