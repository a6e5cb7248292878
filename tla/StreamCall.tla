------------------------------- MODULE StreamCall -------------------------------
(***************************************************************************)
(* One server-streaming call, from the consumer that ranges over the       *)
(* iterator of Transport.SendStreamingMessage (or SubscribeToTask) to the  *)
(* agent whose iterator Handler.SendStreamingMessage ranges over.          *)
(*                                                                         *)
(*   consumer <- Transport <- (SLIM stream) <- sink <- Handler <- agent    *)
(*              client side                         server side            *)
(*                                                                         *)
(* The client goroutine, the server goroutine running                      *)
(* unaryStream.Handle and the SLIM stream between them are concurrent.     *)
(* The stream is external: it keeps the order of the events sent, and a    *)
(* send, a close or a receive may fail.  It is represented by everything   *)
(* sent so far, the number of events the client took, and its end mark.    *)
(* The streaming methods of v0 and v1 all have this control.               *)
(***************************************************************************)
EXTENDS Naturals, Sequences

CONSTANTS Events,       \* the events an agent may emit
          Unencodable,  \* those the handler's ToProtoStreamResponse rejects
          Undecodable,  \* those the client's FromProtoStreamResponse rejects
          MaxEvents     \* bound on the events one agent iterator emits

ASSUME StreamAssumption == /\ Unencodable \subseteq Events
                           /\ Undecodable \subseteq Events
                           /\ MaxEvents \in Nat

VARIABLES
  hasDeadline,  \* the caller's context has a deadline
  client,       \* where the client iterator is
  delivered,    \* the events yielded to the consumer, in order
  outcome,      \* "running", or how the iteration stopped
  cause,        \* the error the iteration stopped with
  server,       \* where the request and its Handle call are
  agent,        \* the agent's iterator
  produced,     \* the events the agent emitted, in order
  ctx,          \* the context the agent runs under
  failure,      \* the error Handle has seen so far
  status,       \* what Handle returned
  sink,         \* the response sink
  sent,         \* the events the sink accepted, in order
  read,         \* how many of them the client has received
  terminal,     \* the mark that ends the stream, once there is one
  reported      \* the codes passed to SendErrorAsync, in order

clientVars == <<client, delivered, outcome, cause>>
handleVars == <<agent, produced, ctx, failure, status>>
streamVars == <<sink, sent, read, terminal, reported>>
vars == <<hasDeadline, clientVars, server, handleVars, streamVars>>

Codes == {"InvalidArgument", "Internal", "Own"}  \* Own: carried by an *RpcError
Causes == {"none", "request", "open", "recv", "decode"} \cup Codes
Failures == {"none", "plain", "rpc"}             \* rpc: the error is an *RpcError

TypeOK ==
  /\ hasDeadline \in BOOLEAN
  /\ client \in {"start", "recv", "yield", "done"}
  /\ delivered \in Seq(Events)
  /\ outcome \in {"running", "ended", "stopped", "failed"}
  /\ cause \in Causes
  /\ server \in {"idle", "flight", "arrived", "serving", "sending", "closing",
                 "failing", "returned"}
  /\ agent \in {"idle", "running", "finished", "failed", "stopped"}
  /\ produced \in Seq(Events)
  /\ ctx \in {"none", "live", "cancelled"}
  /\ failure \in Failures
  /\ status \in {"none", "ok"} \cup Codes
  /\ sink \in {"open", "closed"}
  /\ sent \in Seq(Events)
  /\ read \in Nat
  /\ terminal \in {"none", "end"} \cup Codes
  /\ reported \in Seq(Codes)

Init ==
  /\ hasDeadline \in BOOLEAN
  /\ client = "start" /\ delivered = <<>> /\ outcome = "running" /\ cause = "none"
  /\ server = "idle"
  /\ agent = "idle" /\ produced = <<>> /\ ctx = "none"
  /\ failure = "none" /\ status = "none"
  /\ sink = "open" /\ sent = <<>> /\ read = 0 /\ terminal = "none"
  /\ reported = <<>>

--------------------------------------------------------------------------------
(* The client: the body of the iterator function. *)

\* yield(nil, err); return
FailWith(c) == /\ client' = "done"
               /\ outcome' = "failed"
               /\ cause' = c
               /\ UNCHANGED delivered

EncodeFails == /\ client = "start"
               /\ FailWith("request")
               /\ UNCHANGED <<hasDeadline, server, handleVars, streamVars>>

\* CallUnaryStreamAsync returns an error, before or after the request left.
OpenFails == /\ client = "start"
             /\ FailWith("open")
             /\ server' \in {"idle", "flight"}
             /\ UNCHANGED <<hasDeadline, handleVars, streamVars>>

Open == /\ client = "start"
        /\ client' = "recv"
        /\ server' = "flight"
        /\ UNCHANGED <<hasDeadline, delivered, outcome, cause, handleVars, streamVars>>

CanReceive == client = "recv" /\ read < Len(sent)

ReceiveEvent == /\ CanReceive
                /\ sent[read + 1] \notin Undecodable
                /\ read' = read + 1
                /\ delivered' = Append(delivered, sent[read + 1])
                /\ client' = "yield"
                /\ UNCHANGED <<hasDeadline, outcome, cause, server, handleVars,
                               sink, sent, terminal, reported>>

\* Slip: "continue" where the code returns after a decoding error.
ReceiveUndecodable_Skips ==
  /\ CanReceive
  /\ sent[read + 1] \in Undecodable
  /\ read' = read + 1
  /\ UNCHANGED <<hasDeadline, clientVars, server, handleVars,
                 sink, sent, terminal, reported>>

ReceiveUndecodable == /\ CanReceive
                      /\ sent[read + 1] \in Undecodable
                      /\ read' = read + 1
                      /\ FailWith("decode")
                      /\ UNCHANGED <<hasDeadline, server, handleVars,
                                     sink, sent, terminal, reported>>

\* Slip: a nil response is taken for a keep-alive.
ReceiveEnd_KeepAlive == /\ client = "recv" /\ read = Len(sent) /\ terminal = "end"
                        /\ UNCHANGED vars

\* Recv returns a nil response: the iterator returns and yields nothing.
ReceiveEnd == /\ client = "recv" /\ read = Len(sent) /\ terminal = "end"
              /\ client' = "done"
              /\ outcome' = "ended"
              /\ UNCHANGED <<hasDeadline, delivered, cause, server, handleVars, streamVars>>

ReceiveError == /\ client = "recv" /\ read = Len(sent) /\ terminal \in Codes
                /\ FailWith(terminal)
                /\ UNCHANGED <<hasDeadline, server, handleVars, streamVars>>

Receive == ReceiveEvent \/ ReceiveUndecodable \/ ReceiveEnd \/ ReceiveError

\* Recv reports that the session was lost.
ReceiveFails == /\ client = "recv"
                /\ FailWith("recv")
                /\ UNCHANGED <<hasDeadline, server, handleVars, streamVars>>

\* Slip: the timeout is read from the context and not passed on.
DeadlineExpires_NotPassed == /\ FALSE
                             /\ FailWith("recv")
                             /\ UNCHANGED <<hasDeadline, server, handleVars, streamVars>>

\* The stub passed the time left until ctx.Deadline as the call's timeout.
DeadlineExpires == /\ client = "recv" /\ hasDeadline
                   /\ FailWith("recv")
                   /\ UNCHANGED <<hasDeadline, server, handleVars, streamVars>>

ConsumerContinues == /\ client = "yield"
                     /\ client' = "recv"
                     /\ UNCHANGED <<hasDeadline, delivered, outcome, cause, server,
                                    handleVars, streamVars>>

\* Slip: the boolean yield returns is ignored.
ConsumerBreaks_Ignored == /\ client = "yield"
                          /\ client' = "recv"
                          /\ outcome' = "stopped"
                          /\ UNCHANGED <<hasDeadline, delivered, cause, server,
                                         handleVars, streamVars>>

\* yield returns false: the iterator returns; nothing is told to the server.
ConsumerBreaks == /\ client = "yield"
                  /\ client' = "done"
                  /\ outcome' = "stopped"
                  /\ UNCHANGED <<hasDeadline, delivered, cause, server,
                                 handleVars, streamVars>>

ConsumerReturns == ConsumerContinues \/ ConsumerBreaks

--------------------------------------------------------------------------------
(* The server: unaryStream.Handle around Handler.SendStreamingMessage. *)

RequestArrives == /\ server = "flight"
                  /\ server' = "arrived"
                  /\ UNCHANGED <<hasDeadline, clientVars, handleVars, streamVars>>

\* Slip: every error gets the code of the first call site.
ErrorCode_Fixed(err, default) == "InvalidArgument"

\* toRPCError: only an error whose dynamic type is *RpcError keeps its code.
ErrorCode(err, default) == IF err = "rpc" THEN "Own" ELSE default

\* Slip: the error goes to the log, and Handle still returns it.
Report_Unsent(code) == /\ UNCHANGED <<reported, terminal>>
                       /\ status' = code

\* SendErrorAsync, whose own error is ignored, and the return of the same
\* error.  SLIM may discard it, or end the stream with it; an end mark the
\* client has not taken yet may be overtaken.
Report(code) == /\ reported' = Append(reported, code)
                /\ terminal' \in {terminal, code}
                /\ status' = code

\* Slip: the ordinary path's CloseAsync is run here as well.
RejectRequest_Closing ==
  /\ server = "arrived"
  /\ server' = "returned"
  /\ sink' = "closed"
  /\ reported' = Append(reported, "InvalidArgument")
  /\ status' = "InvalidArgument"
  /\ terminal' \in {"end", "InvalidArgument"}
  /\ UNCHANGED <<hasDeadline, clientVars, agent, produced, ctx, failure, sent, read>>

\* proto.Unmarshal fails: an error is sent on a sink that is left open.
RejectRequest == /\ server = "arrived"
                 /\ server' = "returned"
                 /\ Report(ErrorCode("plain", "InvalidArgument"))
                 /\ UNCHANGED <<hasDeadline, clientVars, agent, produced, ctx, failure,
                                sink, sent, read>>

\* FromProto... (ExtractTaskID in v0), then the agent's iterator is started.
ConvertRequest == \/ server' = "serving" /\ agent' = "running" /\ UNCHANGED failure
                  \/ server' = "closing" /\ failure' = "plain" /\ UNCHANGED agent

\* handlerContext, and the call of the handler.
StartHandler == /\ server = "arrived"
                /\ ctx' = "live"
                /\ ConvertRequest
                /\ UNCHANGED <<hasDeadline, clientVars, produced, status, streamVars>>

\* The agent's iterator yields an event, yields an error, or returns.
AgentEmits(e) == /\ server = "serving" /\ Len(produced) < MaxEvents
                 /\ produced' = Append(produced, e)
                 /\ server' = "sending"
                 /\ UNCHANGED <<hasDeadline, clientVars, agent, ctx, failure, status,
                                streamVars>>

AgentFails(err) == /\ server = "serving"
                   /\ agent' = "failed"
                   /\ failure' = err
                   /\ server' = "closing"
                   /\ UNCHANGED <<hasDeadline, clientVars, produced, ctx, status, streamVars>>

AgentFinishes == /\ server = "serving"
                 /\ agent' = "finished"
                 /\ server' = "closing"
                 /\ UNCHANGED <<hasDeadline, clientVars, produced, ctx, failure, status,
                                streamVars>>

\* The event in the handler's hand is the last one the agent emitted.
InHand == produced[Len(produced)]

\* Slip: "break" where the handler returns the error.
LeaveLoop_Break(err) == /\ agent' = "stopped"
                        /\ server' = "closing"
                        /\ UNCHANGED failure

\* return err from inside the range loop: the agent's yield returns false.
LeaveLoop(err) == /\ agent' = "stopped"
                  /\ failure' = err
                  /\ server' = "closing"

\* Slip: "continue" where the handler returns after a conversion error.
EncodeEventFails_Skips == /\ server = "sending" /\ InHand \in Unencodable
                          /\ server' = "serving"
                          /\ UNCHANGED <<hasDeadline, clientVars, handleVars, streamVars>>

EncodeEventFails == /\ server = "sending" /\ InHand \in Unencodable
                    /\ LeaveLoop("plain")
                    /\ UNCHANGED <<hasDeadline, clientVars, produced, ctx, status, streamVars>>

\* Slip: a send that waits for the client to be in Recv.
SendEvent_Rendezvous ==
  /\ server = "sending" /\ InHand \notin Unencodable
  /\ client = "recv" /\ read = Len(sent)
  /\ sent' = Append(sent, InHand)
  /\ server' = "serving"
  /\ UNCHANGED <<hasDeadline, clientVars, handleVars, sink, read, terminal, reported>>

SendEvent == /\ server = "sending" /\ InHand \notin Unencodable
             /\ sent' = Append(sent, InHand)
             /\ server' = "serving"
             /\ UNCHANGED <<hasDeadline, clientVars, handleVars, sink, read, terminal,
                            reported>>

SendFails(err) == /\ server = "sending" /\ InHand \notin Unencodable
                  /\ LeaveLoop(err)
                  /\ UNCHANGED <<hasDeadline, clientVars, produced, ctx, status, streamVars>>

\* Slip: the deferred cancel is dropped.
Return_NoCancel == /\ server' = "returned"
                   /\ UNCHANGED ctx

\* Handle returns; the deferred cancel runs.
Return == /\ server' = "returned"
          /\ ctx' = "cancelled"

CloseSink == /\ server = "closing"
             /\ sink' = "closed"
             /\ terminal' = "end"
             /\ \/ /\ failure = "none" /\ Return /\ status' = "ok"
                \/ /\ failure # "none" /\ server' = "failing"
                   /\ UNCHANGED <<ctx, status>>
             /\ UNCHANGED <<hasDeadline, clientVars, agent, produced, failure,
                            sent, read, reported>>

\* Slip: the error CloseAsync returns is dropped.
CloseFails_Dropped(err) ==
  /\ server = "closing"
  /\ sink' = "closed"
  /\ \/ /\ failure = "none" /\ Return /\ status' = "ok"
     \/ /\ failure # "none" /\ server' = "failing"
        /\ UNCHANGED <<ctx, status>>
  /\ UNCHANGED <<hasDeadline, clientVars, agent, produced, failure,
                 sent, read, terminal, reported>>

\* CloseAsync returns an error, and the end mark may be lost or not; the error
\* counts only if there was none before.
CloseFails(err) == /\ server = "closing"
                   /\ sink' = "closed"
                   /\ terminal' \in {terminal, "end"}
                   /\ failure' = IF failure = "none" THEN err ELSE failure
                   /\ server' = "failing"
                   /\ UNCHANGED <<hasDeadline, clientVars, agent, produced, ctx, status,
                                  sent, read, reported>>

\* The error is sent on the sink that has just been closed.
ReportFailure == /\ server = "failing"
                 /\ Report(ErrorCode(failure, "Internal"))
                 /\ Return
                 /\ UNCHANGED <<hasDeadline, clientVars, agent, produced, failure,
                                sink, sent, read>>

AgentStep == \/ \E e \in Events : AgentEmits(e)
             \/ \E err \in {"plain", "rpc"} : AgentFails(err)
             \/ AgentFinishes

HandleStep == \/ RejectRequest \/ StartHandler
              \/ EncodeEventFails \/ SendEvent
              \/ CloseSink \/ ReportFailure

SinkFails == \E err \in {"plain", "rpc"} : SendFails(err) \/ CloseFails(err)

\* Both sides have stopped, or the request never left.
Terminated == /\ client = "done" /\ server \in {"idle", "returned"}
              /\ UNCHANGED vars

Next == \/ EncodeFails \/ OpenFails \/ Open
        \/ Receive \/ ReceiveFails \/ DeadlineExpires
        \/ ConsumerReturns
        \/ RequestArrives
        \/ AgentStep \/ HandleStep \/ SinkFails
        \/ Terminated

Spec == Init /\ [][Next]_vars

\* Each goroutine keeps running; a consumer returns from its loop body; the
\* agent's iterator yields or returns; a timeout given to SLIM expires; sends
\* and closes come back.  No request is assumed to arrive, no session to
\* survive, and no failure to happen.
Fairness == /\ WF_vars(Receive) /\ WF_vars(ConsumerReturns) /\ WF_vars(DeadlineExpires)
            /\ WF_vars(AgentStep) /\ WF_vars(HandleStep)

FairSpec == Spec /\ Fairness

--------------------------------------------------------------------------------
(* Properties. *)

IsPrefixOf(s, t) == Len(s) <= Len(t) /\ \A i \in 1..Len(s) : s[i] = t[i]

\* What the consumer was given is a gap-free prefix of what the agent emitted,
\* in its order and without repetition, however the two sides' errors fall: the
\* Transport and Handler loops each stop at the first event they cannot pass on.
NoGap == IsPrefixOf(delivered, sent) /\ IsPrefixOf(sent, produced)

\* An iteration that ends without an error, for a Handle call that saw none,
\* delivered every event of an agent that finished.
CleanEndIsWhole ==
  outcome = "ended" /\ failure = "none" => agent = "finished" /\ delivered = produced

\* A request that does not unmarshal never looks like an empty stream: the
\* stream gets no end mark, since Handle returns without CloseAsync.
RejectedNeverEndsClean ==
  status = "InvalidArgument" => outcome # "ended" /\ terminal # "end"

\* When Handle has returned, the error it returns was sent on the sink, once and
\* with the same code; when it returns nil, none was.
ReportedAsReturned ==
  server = "returned" => reported = IF status = "ok" THEN <<>> ELSE <<status>>

\* Handle returns nil only when the agent finished, the sink accepted all its
\* events and the close reached the stream.
OkMeansAccepted ==
  status = "ok" => agent = "finished" /\ sent = produced /\ terminal = "end"

\* The agent never runs under a context the adapter has released, and when
\* Handle returns neither the agent's iterator nor its context is left behind.
NothingLeaks == /\ agent = "running" => ctx = "live"
                /\ server = "returned" => agent # "running" /\ ctx # "live"

\* A caller that is told InvalidArgument by the adapter may send a corrected
\* request: the agent has not been started.
InvalidArgumentMeansUntouched == cause = "InvalidArgument" => agent = "idle"

\* Once the iteration has stopped nothing is yielded any more and its outcome
\* stands: Go panics when an iterator calls yield after yield returned false.
IterationStopsOnce ==
  [][outcome # "running" => UNCHANGED <<delivered, outcome, cause>>]_vars

E == INSTANCE EventStream WITH offered <- sent, closed <- (sink = "closed")

\* The whole call, both sides and the stream, is the event stream it promises.
ImplementsEventStream == E!Spec

\* A Handle call that a request reached returns, whatever the client does: also
\* when the consumer has broken out of its loop and nothing reads the stream.
HandlerReturns == (server = "arrived") ~> (server = "returned")

\* With a deadline every iteration stops, also when the request or the stream's
\* end is lost.
DeadlineStopsIteration == (hasDeadline /\ client = "recv") ~> (outcome # "running")

\* Without a deadline an iteration stops once the stream has its end mark; there
\* is nothing else that would stop it.
MarkedStreamStopsIteration == (terminal # "none" /\ client = "recv") ~> (outcome # "running")

\* handler_test.go: "SLIM streaming: server errors end the stream silently (0
\* events)", and anything but an error or an empty stream fails the test.  That
\* is, a clean end of a call whose Handle returned an error yields no event.
FailedStreamIsErrorOrEmpty ==
  outcome = "ended" /\ status \in Codes => delivered = <<>>

--------------------------------------------------------------------------------
(* The inductive invariant behind the safety properties. *)

\* The client side: what it has taken, and what each way of stopping means.
ClientInv ==
  /\ read <= Len(sent)
  /\ IF client = "done" THEN outcome # "running" ELSE outcome = "running"
  /\ outcome # "failed" => cause = "none"
  /\ outcome = "failed" => cause # "none"
  /\ outcome = "failed" \/ read = Len(delivered)
  /\ client = "start" => read = 0 /\ server = "idle"
  /\ client = "yield" \/ outcome = "stopped" => delivered # <<>>
  /\ outcome = "ended" => sink = "closed" /\ read = Len(sent)
  /\ cause \in Codes => reported = <<cause>>

\* The server side: what each phase of Handle implies.
ServerInv ==
  /\ server \in {"idle", "flight", "arrived"} =>
       agent = "idle" /\ produced = <<>> /\ ctx = "none" /\ failure = "none"
  /\ server \in {"serving", "sending"} =>
       agent = "running" /\ ctx = "live" /\ failure = "none"
  /\ server = "sending" => Len(produced) = Len(sent) + 1
  /\ server = "serving" => Len(produced) = Len(sent)
  /\ server \in {"closing", "failing"} => agent # "running" /\ ctx = "live"
  /\ server = "closing" /\ failure = "none" =>
       agent = "finished" /\ Len(sent) = Len(produced)
  /\ server = "failing" => failure # "none"

\* The sink and its stream: when it is closed, marked and told of an error.
SinkInv ==
  /\ sink = "closed" <=> \/ server = "failing"
                         \/ server = "returned" /\ ctx = "cancelled"
  /\ server # "returned" => status = "none" /\ reported = <<>>
  /\ server \notin {"failing", "returned"} => terminal = "none"
  /\ server = "failing" => terminal \in {"none", "end"}
  /\ terminal \in Codes => reported = <<terminal>>

\* What a returned Handle leaves, for each of its three returns.
ReturnInv ==
  server = "returned" =>
    \/ /\ status = "InvalidArgument" /\ reported = <<status>> /\ terminal # "end"
       /\ agent = "idle" /\ ctx = "none" /\ failure = "none"
    \/ /\ status = "ok" /\ reported = <<>> /\ terminal = "end"
       /\ agent = "finished" /\ ctx = "cancelled" /\ failure = "none"
       /\ Len(sent) = Len(produced)
    \/ /\ status \in {"Internal", "Own"} /\ reported = <<status>>
       /\ agent # "running" /\ ctx = "cancelled" /\ failure # "none"

\* A clean end of a call without failure was taken from a closed, marked stream.
Inv == /\ NoGap
       /\ ClientInv
       /\ ServerInv
       /\ SinkInv
       /\ ReturnInv
================================================================================
