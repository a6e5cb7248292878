--------------------------- MODULE StreamCall_proofs ---------------------------
(* Proofs about StreamCall, for every set of events, every choice of those the *)
(* converters reject, and every bound on the length of the agent's stream.     *)
EXTENDS StreamCall, SequenceTheorems, TLAPS

USE StreamAssumption

\* What a step of the specification does: one disjunct per action.
LEMMA NextCases ==
  ASSUME [Next]_vars
  PROVE  \/ EncodeFails \/ OpenFails \/ Open
         \/ ReceiveEvent \/ ReceiveUndecodable \/ ReceiveEnd \/ ReceiveError
         \/ ReceiveFails \/ DeadlineExpires \/ ConsumerContinues \/ ConsumerBreaks
         \/ RequestArrives \/ RejectRequest \/ StartHandler
         \/ \E e \in Events : AgentEmits(e)
         \/ \E err \in {"plain", "rpc"} : AgentFails(err)
         \/ AgentFinishes \/ EncodeEventFails \/ SendEvent
         \/ \E err \in {"plain", "rpc"} : SendFails(err)
         \/ CloseSink
         \/ \E err \in {"plain", "rpc"} : CloseFails(err)
         \/ ReportFailure
         \/ UNCHANGED vars
BY DEF Next, Receive, ConsumerReturns, AgentStep, HandleStep, SinkFails, Terminated

LEMMA TypeInit == Init => TypeOK
BY DEF Init, TypeOK, Causes, Failures, Codes

\* ServerInv says that the handler holds an event when it sends one.
LEMMA TypeStep == TypeOK /\ ServerInv /\ [Next]_vars => TypeOK'
<1> SUFFICES ASSUME TypeOK, ServerInv, [Next]_vars PROVE TypeOK'
  OBVIOUS
<1> USE DEF TypeOK, Causes, Failures, Codes, clientVars, handleVars, streamVars
<1>1. CASE EncodeFails
  BY <1>1 DEF EncodeFails, FailWith
<1>2. CASE OpenFails
  BY <1>2 DEF OpenFails, FailWith
<1>3. CASE Open
  BY <1>3 DEF Open
<1>4. CASE ReceiveEvent
  BY <1>4 DEF ReceiveEvent, CanReceive
<1>5. CASE ReceiveUndecodable
  BY <1>5 DEF ReceiveUndecodable, CanReceive, FailWith
<1>6. CASE ReceiveEnd
  BY <1>6 DEF ReceiveEnd
<1>7. CASE ReceiveError
  BY <1>7 DEF ReceiveError, FailWith
<1>8. CASE ReceiveFails \/ DeadlineExpires
  BY <1>8 DEF ReceiveFails, DeadlineExpires, FailWith
<1>9. CASE ConsumerContinues \/ ConsumerBreaks
  BY <1>9 DEF ConsumerContinues, ConsumerBreaks
<1>10. CASE RequestArrives
  BY <1>10 DEF RequestArrives
<1>11. CASE RejectRequest
  BY <1>11 DEF RejectRequest, Report, ErrorCode
<1>12. CASE StartHandler
  BY <1>12 DEF StartHandler, ConvertRequest
<1>13. ASSUME NEW e \in Events, AgentEmits(e) PROVE TypeOK'
  BY <1>13 DEF AgentEmits
<1>14. ASSUME NEW err \in {"plain", "rpc"}, AgentFails(err) PROVE TypeOK'
  BY <1>14 DEF AgentFails
<1>15. CASE AgentFinishes
  BY <1>15 DEF AgentFinishes
<1>16. CASE EncodeEventFails
  BY <1>16 DEF EncodeEventFails, LeaveLoop
<1>17. CASE SendEvent
  BY <1>17 DEF SendEvent, InHand, ServerInv
<1>18. ASSUME NEW err \in {"plain", "rpc"}, SendFails(err) PROVE TypeOK'
  BY <1>18 DEF SendFails, LeaveLoop
<1>19. CASE CloseSink
  BY <1>19 DEF CloseSink, Return
<1>20. ASSUME NEW err \in {"plain", "rpc"}, CloseFails(err) PROVE TypeOK'
  BY <1>20 DEF CloseFails
<1>21. CASE ReportFailure
  BY <1>21 DEF ReportFailure, Report, ErrorCode, Return
<1>22. CASE UNCHANGED vars
  BY <1>22 DEF vars
<1>23. QED
  BY <1>1, <1>2, <1>3, <1>4, <1>5, <1>6, <1>7, <1>8, <1>9, <1>10, <1>11, <1>12,
     <1>13, <1>14, <1>15, <1>16, <1>17, <1>18, <1>19, <1>20, <1>21, <1>22, NextCases


LEMMA InvInit == Init => Inv
BY DEF Init, Inv, NoGap, IsPrefixOf, ClientInv, ServerInv, SinkInv, ReturnInv, Codes

LEMMA InvStep == TypeOK /\ Inv /\ [Next]_vars => Inv'
<1> SUFFICES ASSUME TypeOK, Inv, [Next]_vars PROVE Inv'
  OBVIOUS
<1> USE DEF TypeOK, Inv, NoGap, IsPrefixOf, ClientInv, ServerInv, SinkInv, ReturnInv,
            Causes, Failures, Codes, clientVars, handleVars, streamVars
<1>1. CASE EncodeFails
  BY <1>1 DEF EncodeFails, FailWith
<1>2. CASE OpenFails
  BY <1>2 DEF OpenFails, FailWith
<1>3. CASE Open
  BY <1>3 DEF Open
<1>4. CASE ReceiveEvent
  BY <1>4 DEF ReceiveEvent, CanReceive
<1>5. CASE ReceiveUndecodable
  BY <1>5 DEF ReceiveUndecodable, CanReceive, FailWith
<1>6. CASE ReceiveEnd
  BY <1>6 DEF ReceiveEnd
<1>7. CASE ReceiveError
  BY <1>7 DEF ReceiveError, FailWith
<1>8. CASE ReceiveFails
  BY <1>8 DEF ReceiveFails, FailWith
<1>9. CASE DeadlineExpires
  BY <1>9 DEF DeadlineExpires, FailWith
<1>10. CASE ConsumerContinues
  BY <1>10 DEF ConsumerContinues
<1>11. CASE ConsumerBreaks
  BY <1>11 DEF ConsumerBreaks
<1>12. CASE RequestArrives
  BY <1>12 DEF RequestArrives
<1>13. CASE RejectRequest
  BY <1>13 DEF RejectRequest, Report, ErrorCode
<1>14. CASE StartHandler
  BY <1>14 DEF StartHandler, ConvertRequest
<1>15. ASSUME NEW e \in Events, AgentEmits(e) PROVE Inv'
  <2>1. NoGap'
    BY <1>15 DEF AgentEmits
  <2>2. ClientInv' /\ SinkInv'
    BY <1>15 DEF AgentEmits
  <2>3. ServerInv' /\ ReturnInv'
    BY <1>15 DEF AgentEmits
  <2>4. QED
    BY <2>1, <2>2, <2>3
<1>16. ASSUME NEW err \in {"plain", "rpc"}, AgentFails(err) PROVE Inv'
  BY <1>16 DEF AgentFails
<1>17. CASE AgentFinishes
  BY <1>17 DEF AgentFinishes
<1>18. CASE EncodeEventFails
  BY <1>18 DEF EncodeEventFails, LeaveLoop
<1>19. CASE SendEvent
  BY <1>19 DEF SendEvent, InHand
<1>20. ASSUME NEW err \in {"plain", "rpc"}, SendFails(err) PROVE Inv'
  BY <1>20 DEF SendFails, LeaveLoop
<1>21. CASE CloseSink
  BY <1>21 DEF CloseSink, Return
<1>22. ASSUME NEW err \in {"plain", "rpc"}, CloseFails(err) PROVE Inv'
  BY <1>22 DEF CloseFails
<1>23. CASE ReportFailure
  BY <1>23 DEF ReportFailure, Report, ErrorCode, Return
<1>24. CASE UNCHANGED vars
  BY <1>24 DEF vars
<1>25. QED
  BY <1>1, <1>2, <1>3, <1>4, <1>5, <1>6, <1>7, <1>8, <1>9, <1>10, <1>11, <1>12, <1>13, <1>14, <1>15, <1>16, <1>17, <1>18, <1>19, <1>20, <1>21, <1>22, <1>23, <1>24, NextCases

LEMMA Invariance == Spec => [](TypeOK /\ Inv)
<1>1. Init => TypeOK /\ Inv
  BY TypeInit, InvInit
<1>2. TypeOK /\ Inv /\ [Next]_vars => (TypeOK /\ Inv)'
  BY TypeStep, InvStep DEF Inv
<1>3. QED
  BY <1>1, <1>2, PTL DEF Spec

\* Every variable of a call keeps its type.
THEOREM TypeCorrect == Spec => []TypeOK
BY Invariance, PTL

\* A prefix as long as the whole is the whole.
LEMMA FullPrefix ==
  ASSUME NEW S, NEW s \in Seq(S), NEW t \in Seq(S), IsPrefixOf(s, t), Len(s) = Len(t)
  PROVE  s = t
BY SeqEqual DEF IsPrefixOf

\* The consumer sees a gap-free prefix of the agent's events, in its order,
\* whatever either side, the stream and the consumer do: the two loops stop at
\* the first event they cannot convert, send or receive.
THEOREM DeliveryHasNoGap == Spec => []NoGap
BY Invariance, PTL DEF Inv

\* A clean end with no failure on the server side delivered the agent's whole
\* stream.
THEOREM CleanEndDeliversAll == Spec => []CleanEndIsWhole
<1>1. TypeOK /\ Inv => CleanEndIsWhole
  <2> SUFFICES ASSUME TypeOK, Inv, outcome = "ended", failure = "none"
               PROVE  agent = "finished" /\ delivered = produced
    BY DEF CleanEndIsWhole
  <2>1. server = "returned" /\ status = "ok"
    BY DEF Inv, ClientInv, ServerInv, SinkInv, ReturnInv, TypeOK
  <2>2. agent = "finished" /\ Len(sent) = Len(produced)
    BY <2>1 DEF Inv, ReturnInv
  <2>3. Len(delivered) = Len(sent)
    BY DEF Inv, ClientInv
  <2>4. sent = produced
    BY <2>2, FullPrefix DEF Inv, NoGap, TypeOK
  <2>5. delivered = sent
    BY <2>3, FullPrefix DEF Inv, NoGap, TypeOK
  <2>6. QED
    BY <2>2, <2>4, <2>5
<1>2. QED
  BY <1>1, Invariance, PTL

\* A request that does not unmarshal is never presented as an empty stream.
THEOREM RejectionIsVisible == Spec => []RejectedNeverEndsClean
<1>1. TypeOK /\ Inv => RejectedNeverEndsClean
  BY DEF Inv, ClientInv, SinkInv, ReturnInv, TypeOK, RejectedNeverEndsClean
<1>2. QED
  BY <1>1, Invariance, PTL

\* What Handle returns is what it put on the sink, once, and nil means that the
\* agent's whole stream was accepted and closed.
THEOREM HandleIsHonest == Spec => [](ReportedAsReturned /\ OkMeansAccepted)
<1>1. TypeOK /\ Inv => ReportedAsReturned
  BY DEF Inv, ReturnInv, ReportedAsReturned
<1>2. TypeOK /\ Inv => OkMeansAccepted
  <2> SUFFICES ASSUME TypeOK, Inv, status = "ok"
               PROVE  agent = "finished" /\ sent = produced /\ terminal = "end"
    BY DEF OkMeansAccepted
  <2>1. agent = "finished" /\ terminal = "end" /\ Len(sent) = Len(produced)
    BY DEF Inv, SinkInv, ReturnInv
  <2>2. QED
    BY <2>1, FullPrefix DEF Inv, NoGap, TypeOK
<1>3. QED
  BY <1>1, <1>2, Invariance, PTL

\* A client can be told of every failure that Handle returns, and of no other: the
\* error is sent, once, with the code that is returned.
THEOREM ErrorsAreReported == Spec => []ReportedAsReturned
BY HandleIsHonest, PTL

\* The agent's context outlives its iterator, and neither outlives Handle.
THEOREM HandleCleansUp == Spec => []NothingLeaks
<1>1. TypeOK /\ Inv => NothingLeaks
  BY DEF Inv, ServerInv, ReturnInv, NothingLeaks, TypeOK
<1>2. QED
  BY <1>1, Invariance, PTL

\* The adapter's InvalidArgument reaches a client only if the agent never ran.
THEOREM InvalidArgumentIsSafe == Spec => []InvalidArgumentMeansUntouched
<1>1. TypeOK /\ Inv => InvalidArgumentMeansUntouched
  <2> SUFFICES ASSUME TypeOK, Inv, cause = "InvalidArgument" PROVE agent = "idle"
    BY DEF InvalidArgumentMeansUntouched
  <2>1. reported = <<"InvalidArgument">>
    BY DEF Inv, ClientInv, Codes
  <2>2. server = "returned" /\ status = "InvalidArgument"
    BY <2>1 DEF Inv, SinkInv, ReturnInv
  <2>3. QED
    BY <2>2 DEF Inv, ReturnInv
<1>2. QED
  BY <1>1, Invariance, PTL

\* Nothing is yielded, and the outcome does not change, once the iteration has
\* stopped.
THEOREM StopsOnce == Spec => IterationStopsOnce
<1>1. TypeOK /\ Inv /\ [Next]_vars
        => [outcome # "running" => UNCHANGED <<delivered, outcome, cause>>]_vars
  <2> SUFFICES ASSUME TypeOK, Inv, [Next]_vars, outcome # "running"
               PROVE  UNCHANGED <<delivered, outcome, cause>>
    OBVIOUS
  <2>1. client = "done"
    BY DEF Inv, ClientInv
  <2>2. QED
    BY <2>1, NextCases
    DEF EncodeFails, OpenFails, Open, ReceiveEvent, ReceiveUndecodable, ReceiveEnd,
        ReceiveError, CanReceive, ReceiveFails, DeadlineExpires, ConsumerContinues,
        ConsumerBreaks, RequestArrives, RejectRequest, StartHandler, AgentEmits,
        AgentFails, AgentFinishes, EncodeEventFails, SendEvent, SendFails, CloseSink,
        CloseFails, ReportFailure, clientVars, vars
<1>2. QED
  BY <1>1, Invariance, PTL DEF Spec, IterationStopsOnce

--------------------------------------------------------------------------------
(* Refinement. *)

USE DEF E!vars

LEMMA RefinesInit == Init => E!Init
BY DEF Init, E!Init

\* The steps of the server that leave what the event stream is about alone.
LEMMA Unobserved ==
  ASSUME UNCHANGED <<sent, sink, delivered, outcome>>
  PROVE  [E!Next]_E!vars
OBVIOUS

LEMMA RefinesStep == TypeOK /\ Inv /\ [Next]_vars => [E!Next]_E!vars
<1> SUFFICES ASSUME TypeOK, Inv, [Next]_vars PROVE [E!Next]_E!vars
  OBVIOUS
<1> USE DEF clientVars, handleVars, streamVars
<1>1. CASE EncodeFails \/ OpenFails \/ ReceiveError \/ ReceiveFails \/ DeadlineExpires
           \/ ReceiveUndecodable
  <2>1. outcome = "running"
    BY <1>1 DEF Inv, ClientInv, EncodeFails, OpenFails, ReceiveError, ReceiveFails,
                DeadlineExpires, ReceiveUndecodable, CanReceive
  <2>2. E!Fail
    BY <1>1, <2>1 DEF E!Fail, FailWith, EncodeFails, OpenFails, ReceiveError,
                      ReceiveFails, DeadlineExpires, ReceiveUndecodable
  <2>3. QED
    BY <2>2 DEF E!Next
<1>2. CASE Open \/ ConsumerContinues \/ RequestArrives
  BY <1>2, Unobserved DEF Open, ConsumerContinues, RequestArrives
<1>3. CASE ReceiveEvent
  <2>1. outcome = "running" /\ read = Len(delivered)
    BY <1>3 DEF Inv, ClientInv, ReceiveEvent, CanReceive
  <2>2. E!Deliver
    BY <1>3, <2>1 DEF E!Deliver, ReceiveEvent, CanReceive
  <2>3. QED
    BY <2>2 DEF E!Next
<1>4. CASE ReceiveEnd
  <2>1. outcome = "running" /\ sink = "closed" /\ Len(delivered) = Len(sent)
    BY <1>4 DEF Inv, ClientInv, SinkInv, ReturnInv, ReceiveEnd, TypeOK
  <2>2. delivered = sent
    BY <2>1, FullPrefix DEF Inv, NoGap, TypeOK
  <2>3. E!End
    BY <1>4, <2>1, <2>2 DEF E!End, ReceiveEnd
  <2>4. QED
    BY <2>3 DEF E!Next
<1>5. CASE ConsumerBreaks
  <2>1. outcome = "running" /\ delivered # <<>>
    BY <1>5 DEF Inv, ClientInv, ConsumerBreaks
  <2>2. E!Stop
    BY <1>5, <2>1 DEF E!Stop, ConsumerBreaks
  <2>3. QED
    BY <2>2 DEF E!Next
<1>6. CASE RejectRequest \/ StartHandler \/ AgentFinishes \/ EncodeEventFails
           \/ ReportFailure
  BY <1>6, Unobserved DEF RejectRequest, StartHandler, AgentFinishes,
                          EncodeEventFails, ReportFailure
<1>7. ASSUME NEW e \in Events, AgentEmits(e) PROVE [E!Next]_E!vars
  BY <1>7, Unobserved DEF AgentEmits
<1>8. ASSUME NEW err \in {"plain", "rpc"}, AgentFails(err) \/ SendFails(err)
      PROVE  [E!Next]_E!vars
  BY <1>8, Unobserved DEF AgentFails, SendFails
<1>9. CASE SendEvent
  <2>1. sink # "closed" /\ InHand \in Events
    BY <1>9 DEF Inv, ServerInv, SinkInv, SendEvent, InHand, TypeOK
  <2>2. E!Offer(InHand)
    BY <1>9, <2>1 DEF E!Offer, SendEvent
  <2>3. QED
    BY <2>1, <2>2 DEF E!Next
<1>10. ASSUME \/ CloseSink
              \/ \E err \in {"plain", "rpc"} : CloseFails(err)
       PROVE  [E!Next]_E!vars
  <2>1. sink # "closed"
    BY <1>10 DEF Inv, SinkInv, CloseSink, CloseFails
  <2>2. E!Close
    BY <1>10, <2>1 DEF E!Close, CloseSink, CloseFails
  <2>3. QED
    BY <2>2 DEF E!Next
<1>11. CASE UNCHANGED vars
  BY <1>11, Unobserved DEF vars
<1>12. QED
  BY <1>1, <1>2, <1>3, <1>4, <1>5, <1>6, <1>7, <1>8, <1>9, <1>10, <1>11, NextCases

\* Both ends of a call and the stream between them implement the event stream:
\* in-order delivery, no event after the close, one stop, and a clean stop only
\* with everything delivered.
THEOREM CallIsEventStream == Spec => ImplementsEventStream
BY RefinesInit, RefinesStep, Invariance, PTL DEF Spec, ImplementsEventStream, E!Spec

--------------------------------------------------------------------------------
(* Finiteness: with an agent that emits finitely many events, no call goes on    *)
(* for ever, however the steps of its two sides are interleaved.                 *)

\* The steps Handle can still take, each of which gives the client at most one
\* event to receive.
HandleWork ==
  CASE server = "idle"     -> 6 + 2 * (MaxEvents - Len(produced))
    [] server = "flight"   -> 5 + 2 * (MaxEvents - Len(produced))
    [] server = "arrived"  -> 4 + 2 * (MaxEvents - Len(produced))
    [] server = "sending"  -> 4 + 2 * (MaxEvents - Len(produced))
    [] server = "serving"  -> 3 + 2 * (MaxEvents - Len(produced))
    [] server = "closing"  -> 2
    [] server = "failing"  -> 1
    [] server = "returned" -> 0

\* The steps the client can still take but for those on events: start, stop, and
\* the return of the consumer's loop body.
ClientWork == CASE client = "start" -> 3
                [] client = "yield" -> 2
                [] client = "recv"  -> 1
                [] client = "done"  -> 0

\* The events the client has not taken yet.
Waiting == Len(sent) - read

\* An event takes two steps of the client, Recv and the loop body.
Work == 3 * HandleWork + 2 * Waiting + ClientWork

Bounded == Len(produced) <= MaxEvents

LEMMA BoundedStep == TypeOK /\ Bounded /\ [Next]_vars => Bounded'
<1> SUFFICES ASSUME TypeOK, Bounded, [Next]_vars PROVE Bounded'
  OBVIOUS
<1>1. ASSUME NEW e \in Events, AgentEmits(e) PROVE Bounded'
  <2>1. Len(produced') = Len(produced) + 1 /\ Len(produced) < MaxEvents
    BY <1>1 DEF AgentEmits, TypeOK
  <2>2. QED
    BY <2>1 DEF Bounded, TypeOK
<1>2. ASSUME UNCHANGED produced PROVE Bounded'
  BY <1>2 DEF Bounded
<1>3. UNCHANGED produced \/ \E e \in Events : AgentEmits(e)
  BY NextCases
  DEF EncodeFails, OpenFails, Open, ReceiveEvent, ReceiveUndecodable, ReceiveEnd,
      ReceiveError, ReceiveFails, DeadlineExpires, ConsumerContinues, ConsumerBreaks,
      RequestArrives, RejectRequest, StartHandler, AgentFails, AgentFinishes,
      EncodeEventFails, SendEvent, SendFails, CloseSink, CloseFails, ReportFailure,
      handleVars, vars
<1>4. QED
  BY <1>1, <1>2, <1>3

LEMMA BoundedInvariance == Spec => [](TypeOK /\ Inv /\ Bounded)
<1>1. Init => Bounded
  BY DEF Init, Bounded
<1>2. QED
  BY <1>1, BoundedStep, Invariance, PTL DEF Spec

LEMMA WorkIsNat ==
  TypeOK /\ Inv /\ Bounded => /\ HandleWork \in Nat
                              /\ ClientWork \in Nat
                              /\ Waiting \in Nat
                              /\ Work \in Nat
<1> SUFFICES ASSUME TypeOK, Inv, Bounded
             PROVE  HandleWork \in Nat /\ ClientWork \in Nat /\ Waiting \in Nat /\ Work \in Nat
  OBVIOUS
<1>1. HandleWork \in Nat
  <2> DEFINE m == MaxEvents - Len(produced)
  <2>1. m \in Nat
    <3>1. MaxEvents \in Nat /\ Len(produced) \in Nat /\ Len(produced) <= MaxEvents
      BY DEF StreamAssumption, TypeOK, Bounded
    <3>2. QED
      BY <3>1
  <2>2. HandleWork \in {6 + 2 * m, 5 + 2 * m, 4 + 2 * m, 3 + 2 * m, 2, 1, 0}
    BY DEF TypeOK, HandleWork
  <2> HIDE DEF m
  <2>3. QED
    BY <2>1, <2>2
<1>2. ClientWork \in Nat
  BY DEF TypeOK, ClientWork
<1>3. Waiting \in Nat
  BY DEF TypeOK, Inv, ClientInv, Waiting
<1>4. Work \in Nat
  BY <1>1, <1>2, <1>3 DEF Work
<1>5. QED
  BY <1>1, <1>2, <1>3, <1>4

\* The four ways the measure goes down.
LEMMA Weights ==
  ASSUME NEW h \in Nat, NEW w \in Nat, NEW c \in Nat,
         NEW hh \in Nat, NEW ww \in Nat, NEW cc \in Nat,
         \/ hh <= h /\ ww = w /\ cc < c
         \/ hh < h /\ ww = w /\ cc = c
         \/ hh = h /\ ww = w - 1 /\ cc <= c + 1
         \/ hh < h /\ ww = w + 1 /\ cc = c
  PROVE  3 * hh + 2 * ww + cc < 3 * h + 2 * w + c
OBVIOUS

LEMMA WorkStep == TypeOK /\ Inv /\ Bounded /\ [Next]_vars => [Work' < Work]_vars
<1> SUFFICES ASSUME TypeOK, Inv, Bounded, [Next]_vars PROVE Work' < Work \/ UNCHANGED vars
  OBVIOUS
<1>1. HandleWork \in Nat /\ ClientWork \in Nat /\ Waiting \in Nat
  BY WorkIsNat
<1>2. TypeOK' /\ Inv' /\ Bounded'
  BY TypeStep, InvStep, BoundedStep DEF Inv
<1>3. HandleWork' \in Nat /\ ClientWork' \in Nat /\ Waiting' \in Nat
  <2>1. (TypeOK /\ Inv /\ Bounded)' => (HandleWork \in Nat /\ ClientWork \in Nat /\ Waiting \in Nat)'
    BY WorkIsNat, PTL
  <2>2. QED
    BY <1>2, <2>1
<1>4. Work = 3 * HandleWork + 2 * Waiting + ClientWork
      /\ Work' = 3 * HandleWork' + 2 * Waiting' + ClientWork'
  BY DEF Work
<1>5. ASSUME HandleWork' <= HandleWork, Waiting' = Waiting, ClientWork' < ClientWork
      PROVE  Work' < Work
  BY <1>1, <1>3, <1>4, <1>5, Weights
<1>6. ASSUME HandleWork' < HandleWork, Waiting' = Waiting, ClientWork' = ClientWork
      PROVE  Work' < Work
  BY <1>1, <1>3, <1>4, <1>6, Weights
<1>7. ASSUME HandleWork' = HandleWork, Waiting' = Waiting - 1,
             ClientWork' <= ClientWork + 1
      PROVE  Work' < Work
  BY <1>1, <1>3, <1>4, <1>7, Weights
<1>8. ASSUME HandleWork' < HandleWork, Waiting' = Waiting + 1, ClientWork' = ClientWork
      PROVE  Work' < Work
  BY <1>1, <1>3, <1>4, <1>8, Weights
<1> USE DEF TypeOK, clientVars, handleVars, streamVars
\* The client stops, starts or continues; the server is left alone, or a request
\* leaves that the client is not told of.
<1>9. CASE EncodeFails \/ OpenFails \/ Open
  <2>1. HandleWork' <= HandleWork
    BY <1>9 DEF EncodeFails, OpenFails, Open, HandleWork, Inv, ClientInv, Bounded
  <2>2. Waiting' = Waiting
    BY <1>9 DEF EncodeFails, OpenFails, Open, Waiting
  <2>3. ClientWork' < ClientWork
    BY <1>9 DEF EncodeFails, OpenFails, Open, FailWith, ClientWork
  <2>4. QED
    BY <1>5, <2>1, <2>2, <2>3
<1>10. CASE ReceiveEnd \/ ReceiveError \/ ReceiveFails \/ DeadlineExpires
            \/ ConsumerContinues \/ ConsumerBreaks
  <2>1. HandleWork' = HandleWork /\ Waiting' = Waiting
    BY <1>10 DEF ReceiveEnd, ReceiveError, ReceiveFails, DeadlineExpires,
                 ConsumerContinues, ConsumerBreaks, HandleWork, Waiting
  <2>2. ClientWork' < ClientWork
    BY <1>10 DEF ReceiveEnd, ReceiveError, ReceiveFails, DeadlineExpires, FailWith,
                 ConsumerContinues, ConsumerBreaks, ClientWork
  <2>3. QED
    BY <1>1, <1>5, <2>1, <2>2
\* The client takes an event.
<1>11. CASE ReceiveEvent \/ ReceiveUndecodable
  <2>1. HandleWork' = HandleWork
    BY <1>11 DEF ReceiveEvent, ReceiveUndecodable, HandleWork
  <2>2. Waiting' = Waiting - 1
    BY <1>11 DEF ReceiveEvent, ReceiveUndecodable, Waiting
  <2>3. ClientWork' <= ClientWork + 1
    BY <1>11 DEF ReceiveEvent, ReceiveUndecodable, CanReceive, FailWith, ClientWork
  <2>4. QED
    BY <1>7, <2>1, <2>2, <2>3
\* The server steps.
<1>12. ASSUME \/ RequestArrives \/ RejectRequest \/ StartHandler \/ AgentFinishes
              \/ EncodeEventFails \/ CloseSink \/ ReportFailure
              \/ \E e \in Events : AgentEmits(e)
              \/ \E err \in {"plain", "rpc"} :
                   AgentFails(err) \/ SendFails(err) \/ CloseFails(err)
       PROVE  Work' < Work
  <2>1. ClientWork' = ClientWork /\ Waiting' = Waiting
    BY <1>12 DEF RequestArrives, RejectRequest, StartHandler, AgentFinishes,
                 EncodeEventFails, CloseSink, ReportFailure, AgentEmits, AgentFails,
                 SendFails, CloseFails, ClientWork, Waiting
  <2>2. CASE RequestArrives \/ StartHandler
    BY <1>6, <2>1, <2>2 DEF RequestArrives, StartHandler, ConvertRequest, HandleWork, Bounded
  <2>3. CASE RejectRequest \/ CloseSink \/ ReportFailure
    BY <1>6, <2>1, <2>3 DEF RejectRequest, CloseSink, ReportFailure, Return, HandleWork,
                            Bounded
  <2>4. CASE AgentFinishes \/ EncodeEventFails
    BY <1>6, <2>1, <2>4 DEF AgentFinishes, EncodeEventFails, LeaveLoop, HandleWork, Bounded
  <2>5. ASSUME NEW e \in Events, AgentEmits(e) PROVE Work' < Work
    <3>1. Len(produced') = Len(produced) + 1 /\ Len(produced) \in Nat
      BY <2>5 DEF AgentEmits
    <3>2. server = "serving" /\ server' = "sending"
      BY <2>5 DEF AgentEmits
    <3>3. HandleWork = 3 + 2 * (MaxEvents - Len(produced))
      BY <3>2 DEF HandleWork
    <3>4. HandleWork' = 4 + 2 * (MaxEvents - Len(produced'))
      BY <3>2 DEF HandleWork
    <3>5. QED
      BY <1>6, <2>1, <3>1, <3>3, <3>4
  <2>6. ASSUME NEW err \in {"plain", "rpc"},
               AgentFails(err) \/ SendFails(err) \/ CloseFails(err)
        PROVE  Work' < Work
    BY <1>6, <2>1, <2>6 DEF AgentFails, SendFails, CloseFails, LeaveLoop, HandleWork,
                            Bounded
  <2>7. QED
    BY <1>12, <2>2, <2>3, <2>4, <2>5, <2>6
\* The server gives the client an event, which costs it a step of its own.
<1>13. CASE SendEvent
  <2>1. ClientWork' = ClientWork
    BY <1>13 DEF SendEvent, ClientWork
  <2>2. HandleWork' < HandleWork
    BY <1>13 DEF SendEvent, HandleWork, Bounded
  <2>3. Len(sent') = Len(sent) + 1
    BY <1>13 DEF SendEvent
  <2>4. Waiting' = Waiting + 1
    BY <1>13, <2>3 DEF SendEvent, Waiting
  <2>5. QED
    BY <1>8, <2>1, <2>2, <2>4
<1>14. QED
  BY <1>9, <1>10, <1>11, <1>12, <1>13, NextCases

\* The work left in a call is a natural number that every step makes smaller: no
\* schedule of the two sides, no error and no consumer keeps a call going for
\* ever.  With HandlerReturns, which TLC checks, a Handle call takes at most
\* 2 * MaxEvents + 4 steps from the arrival of its request to its return.
THEOREM CallsAreFinite == Spec => [](Work \in Nat) /\ [][Work' < Work]_vars
BY BoundedInvariance, WorkIsNat, WorkStep, PTL DEF Spec

--------------------------------------------------------------------------------
(* What a consumer may rely on. *)

\* The abstract specification keeps its own promise: nothing is offered after the
\* close that a clean end waits for.
THEOREM EventStreamKeepsPromise == E!Spec => []E!Promise
<1> DEFINE Typed == sent \in Seq(Events) /\ delivered \in Seq(Events)
<1> USE DEF E!Promise
<1>1. E!Init => Typed /\ E!Promise
  BY DEF E!Init
<1>2. Typed /\ E!Promise /\ [E!Next]_E!vars => Typed' /\ E!Promise'
  <2> SUFFICES ASSUME Typed, E!Promise, [E!Next]_E!vars PROVE Typed' /\ E!Promise'
    OBVIOUS
  <2>1. ASSUME NEW e \in Events, E!Offer(e) PROVE Typed' /\ E!Promise'
    BY <2>1 DEF E!Offer
  <2>2. CASE E!Close \/ E!End \/ E!Fail \/ E!Stop
    BY <2>2 DEF E!Close, E!End, E!Fail, E!Stop
  <2>3. CASE E!Deliver
    BY <2>3 DEF E!Deliver
  <2>4. CASE UNCHANGED E!vars
    BY <2>4
  <2>5. QED
    BY <2>1, <2>2, <2>3, <2>4 DEF E!Next
<1>3. QED
  BY <1>1, <1>2, PTL DEF E!Spec

\* So does every streaming call, by the refinement alone: an iteration that ends
\* without an error has yielded all that the sink accepted, also when Handle goes on
\* to report a failure, and the sink accepts nothing more.
THEOREM CallKeepsPromise == Spec => []E!Promise
BY CallIsEventStream, EventStreamKeepsPromise, PTL DEF ImplementsEventStream
================================================================================
