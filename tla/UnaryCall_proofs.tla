---------------------------- MODULE UnaryCall_proofs ----------------------------
(* Proofs about UnaryCall, for every set of methods, every choice of those     *)
(* without a request or a response body, and every number of attempts.         *)
EXTENDS UnaryCall, TLAPS

USE UnaryAssumption

\* What a step of the specification does: one disjunct per action.
LEMMA NextCases ==
  ASSUME [Next]_vars
  PROVE  \/ EncodeFails \/ Call \/ ResponseArrives \/ ErrorArrives \/ CallFails
         \/ DeadlineExpires \/ Retry \/ RequestArrives \/ RejectRequest \/ StartHandler
         \/ ConvertFails \/ StartAgent \/ AgentApplies
         \/ \E err \in {"plain", "rpc"} : AgentFails(err)
         \/ Respond \/ ResponseEncodeFails
         \/ UNCHANGED vars
BY DEF Next, Receive, AgentStep, HandleStep, HandleFails, Terminated

LEMMA TypeInit == Init => TypeOK
BY DEF Init, TypeOK, Codes

LEMMA TypeStep == TypeOK /\ [Next]_vars => TypeOK'
<1> SUFFICES ASSUME TypeOK, [Next]_vars PROVE TypeOK'
  OBVIOUS
<1> USE DEF TypeOK, Codes, Retryable, params, clientVars, serverVars
<1>1. CASE EncodeFails
  BY <1>1 DEF EncodeFails, Finish
<1>2. CASE Call
  BY <1>2 DEF Call
<1>3. CASE ResponseArrives
  BY <1>3 DEF ResponseArrives, Finish
<1>4. CASE ErrorArrives
  BY <1>4 DEF ErrorArrives, Finish
<1>5. CASE CallFails
  BY <1>5 DEF CallFails, Finish
<1>6. CASE DeadlineExpires
  BY <1>6 DEF DeadlineExpires, Finish
<1>7. CASE Retry
  BY <1>7 DEF Retry
<1>8. CASE RequestArrives
  BY <1>8 DEF RequestArrives
<1>9. CASE RejectRequest
  BY <1>9 DEF RejectRequest, Answer, ErrorCode
<1>10. CASE StartHandler
  BY <1>10 DEF StartHandler
<1>11. CASE ConvertFails
  BY <1>11 DEF ConvertFails, Answer, ErrorCode, Release
<1>12. CASE StartAgent
  BY <1>12 DEF StartAgent
<1>13. CASE AgentApplies
  BY <1>13 DEF AgentApplies
<1>14. ASSUME NEW err \in {"plain", "rpc"}, AgentFails(err) PROVE TypeOK'
  BY <1>14 DEF AgentFails, Answer, ErrorCode, Release
<1>15. CASE Respond
  BY <1>15 DEF Respond, Answer, Release
<1>16. CASE ResponseEncodeFails
  BY <1>16 DEF ResponseEncodeFails, Answer, ErrorCode, Release
<1>17. CASE UNCHANGED vars
  BY <1>17 DEF vars
<1>18. QED
  BY <1>1, <1>2, <1>3, <1>4, <1>5, <1>6, <1>7, <1>8, <1>9, <1>10, <1>11, <1>12,
     <1>13, <1>14, <1>15, <1>16, <1>17, NextCases

\* Every variable of a call keeps its type.
THEOREM TypeCorrect == Spec => []TypeOK
BY TypeInit, TypeStep, PTL DEF Spec

LEMMA InvInit == Init => Inv
BY DEF Init, Inv, ClientInv, ServerInv, Codes

LEMMA InvStep == TypeOK /\ Inv /\ [Next]_vars => Inv'
<1> SUFFICES ASSUME TypeOK, Inv, [Next]_vars PROVE Inv'
  OBVIOUS
<1> USE DEF TypeOK, Inv, ClientInv, ServerInv, Codes, Retryable, params, clientVars,
            serverVars
<1>1. CASE EncodeFails
  BY <1>1 DEF EncodeFails, Finish
<1>2. CASE Call
  BY <1>2 DEF Call
<1>3. CASE ResponseArrives
  BY <1>3 DEF ResponseArrives, Finish
<1>4. CASE ErrorArrives
  BY <1>4 DEF ErrorArrives, Finish
<1>5. CASE CallFails
  BY <1>5 DEF CallFails, Finish
<1>6. CASE DeadlineExpires
  BY <1>6 DEF DeadlineExpires, Finish
<1>7. CASE Retry
  BY <1>7 DEF Retry
<1>8. CASE RequestArrives
  BY <1>8 DEF RequestArrives
<1>9. CASE RejectRequest
  BY <1>9 DEF RejectRequest, Answer, ErrorCode
<1>10. CASE StartHandler
  BY <1>10 DEF StartHandler
<1>11. CASE ConvertFails
  BY <1>11 DEF ConvertFails, Answer, ErrorCode, Release
<1>12. CASE StartAgent
  BY <1>12 DEF StartAgent
<1>13. CASE AgentApplies
  BY <1>13 DEF AgentApplies
<1>14. ASSUME NEW err \in {"plain", "rpc"}, AgentFails(err) PROVE Inv'
  BY <1>14 DEF AgentFails, Answer, ErrorCode, Release
<1>15. CASE Respond
  BY <1>15 DEF Respond, Answer, Release
<1>16. CASE ResponseEncodeFails
  BY <1>16 DEF ResponseEncodeFails, Answer, ErrorCode, Release
<1>17. CASE UNCHANGED vars
  BY <1>17 DEF vars
<1>18. QED
  BY <1>1, <1>2, <1>3, <1>4, <1>5, <1>6, <1>7, <1>8, <1>9, <1>10, <1>11, <1>12,
     <1>13, <1>14, <1>15, <1>16, <1>17, NextCases

LEMMA Invariance == Spec => [](TypeOK /\ Inv)
BY TypeInit, TypeStep, InvInit, InvStep, PTL DEF Spec

\* A result is the agent's, from this call.
THEOREM SuccessIsTheAgents == Spec => []SuccessIsGenuine
<1>1. TypeOK /\ Inv => SuccessIsGenuine
  BY DEF Inv, ClientInv, ServerInv, SuccessIsGenuine
<1>2. QED
  BY <1>1, Invariance, PTL

\* Repeating calls that failed retryably carries the operation out at most once.
THEOREM AtMostOnce == Spec => []AppliedAtMostOnce
<1>1. Inv => AppliedAtMostOnce
  BY DEF Inv, ServerInv, AppliedAtMostOnce
<1>2. QED
  BY <1>1, Invariance, PTL

\* A retryable error comes from a call that had no effect and has none to come.
THEOREM RetryIsSafe == Spec => []RetryableMeansUntouched
<1>1. TypeOK /\ Inv => RetryableMeansUntouched
  BY DEF TypeOK, Inv, ClientInv, ServerInv, RetryableMeansUntouched, Retryable, Codes
<1>2. QED
  BY <1>1, Invariance, PTL

\* The agent's context outlives its call, and neither outlives Handle.
THEOREM HandleCleansUp == Spec => []NothingLeaks
<1>1. TypeOK /\ Inv => NothingLeaks
  BY DEF TypeOK, Inv, ServerInv, NothingLeaks
<1>2. QED
  BY <1>1, Invariance, PTL

\* When a call returns anything but its own failure, the server is done with it, and
\* its effects do not change again before the application calls once more.
THEOREM AnswersSettle == Spec => AnswerSettles
<1>1. TypeOK /\ Inv /\ [Next]_vars
        => [outcome # "running" /\ cause # "call" => effects' = effects]_vars
  <2> SUFFICES ASSUME TypeOK, Inv, [Next]_vars, outcome # "running", cause # "call"
               PROVE  effects' = effects
    OBVIOUS
  <2>1. server \in {"idle", "returned"}
    BY DEF TypeOK, Inv, ClientInv, ServerInv, Codes
  <2> USE DEF params, clientVars, serverVars
  \* A step of the client never carries the operation out.
  <2>2. CASE EncodeFails \/ Call \/ ResponseArrives \/ ErrorArrives \/ CallFails
             \/ DeadlineExpires \/ Retry
    BY <2>2 DEF EncodeFails, Call, ResponseArrives, ErrorArrives, CallFails,
                DeadlineExpires, Retry
  <2>3. CASE RequestArrives \/ RejectRequest \/ StartHandler \/ ConvertFails
             \/ StartAgent \/ Respond \/ ResponseEncodeFails
    BY <2>3 DEF RequestArrives, RejectRequest, StartHandler, ConvertFails, StartAgent,
                Respond, ResponseEncodeFails
  \* The agent's steps are steps of a Handle call that has not returned.
  <2>4. ~AgentApplies /\ \A err \in {"plain", "rpc"} : ~AgentFails(err)
    BY <2>1 DEF AgentApplies, AgentFails
  <2>5. CASE UNCHANGED vars
    BY <2>5 DEF vars
  <2>6. QED
    BY <2>2, <2>3, <2>4, <2>5, NextCases
<1>2. QED
  BY <1>1, Invariance, PTL DEF Spec, AnswerSettles

--------------------------------------------------------------------------------
(* Refinement. *)

USE DEF I!vars

LEMMA RefinesInit == Init => I!Init
BY DEF Init, I!Init, phase

LEMMA RefinesStep == TypeOK /\ Inv /\ [Next]_vars => [I!Next]_I!vars
<1> SUFFICES ASSUME TypeOK, Inv, [Next]_vars PROVE [I!Next]_I!vars
  OBVIOUS
<1> USE DEF TypeOK, Inv, ClientInv, ServerInv, Codes, Retryable, phase, params,
            clientVars, serverVars
<1>1. CASE EncodeFails
  <2>1. I!FailRetryable
    BY <1>1 DEF I!FailRetryable, EncodeFails, Finish
  <2>2. QED
    BY <2>1 DEF I!Next
<1>2. CASE ResponseArrives
  <2>1. I!Succeed \/ I!FailUnknown
    BY <1>2 DEF I!Succeed, I!FailUnknown, ResponseArrives, Finish
  <2>2. QED
    BY <2>1 DEF I!Next
<1>3. CASE ErrorArrives
  <2>1. I!FailRetryable \/ I!FailUnknown
    BY <1>3 DEF I!FailRetryable, I!FailUnknown, ErrorArrives, Finish
  <2>2. QED
    BY <2>1 DEF I!Next
<1>4. CASE CallFails \/ DeadlineExpires
  <2>1. I!FailUnknown
    BY <1>4 DEF I!FailUnknown, CallFails, DeadlineExpires, Finish
  <2>2. QED
    BY <2>1 DEF I!Next
<1>5. CASE Retry
  <2>1. I!Retry
    BY <1>5 DEF I!Retry, Retry
  <2>2. QED
    BY <2>1 DEF I!Next
<1>6. CASE AgentApplies
  <2>1. I!TakeEffect
    BY <1>6 DEF I!TakeEffect, AgentApplies
  <2>2. QED
    BY <2>1 DEF I!Next
<1>7. ASSUME NEW err \in {"plain", "rpc"}, AgentFails(err) PROVE [I!Next]_I!vars
  <2>1. I!TakeEffect \/ UNCHANGED I!vars
    BY <1>7 DEF I!TakeEffect, AgentFails
  <2>2. QED
    BY <2>1 DEF I!Next
<1>8. CASE Call \/ RequestArrives \/ RejectRequest \/ StartHandler \/ ConvertFails
           \/ StartAgent \/ Respond \/ ResponseEncodeFails
  BY <1>8 DEF Call, RequestArrives, RejectRequest, StartHandler, ConvertFails,
              StartAgent, Respond, ResponseEncodeFails
<1>9. CASE UNCHANGED vars
  BY <1>9 DEF vars
<1>10. QED
  BY <1>1, <1>2, <1>3, <1>4, <1>5, <1>6, <1>7, <1>8, <1>9, NextCases

\* Client, channel and server together implement the invocation: one effect at
\* most, success only after it, and retryable failures without it.
THEOREM CallIsInvocation == Spec => ImplementsInvocation
BY RefinesInit, RefinesStep, Invariance, PTL DEF Spec, ImplementsInvocation, I!Spec

--------------------------------------------------------------------------------
(* Finiteness: an application that calls finitely often is done after finitely   *)
(* many steps of either side.                                                    *)

\* The steps Handle can still take for the current call.
HandleWork == CASE server = "idle"     -> 6
                [] server = "flight"   -> 5
                [] server = "arrived"  -> 4
                [] server = "running"  -> IF agent = "idle" THEN 3 ELSE 2
                [] server = "encoding" -> 1
                [] server = "returned" -> 0

\* The steps the Transport method can still take for it.
ClientWork == CASE client = "ready"   -> 2
                [] client = "waiting" -> 1
                [] client = "done"    -> 0

AttemptsLeft == IF attempt < MaxAttempts THEN MaxAttempts - attempt ELSE 0

\* A call takes at most eight steps, and calling again is one.
Work == 9 * AttemptsLeft + HandleWork + ClientWork

LEMMA WorkIsNat ==
  TypeOK => /\ AttemptsLeft \in Nat
            /\ HandleWork \in 0..6
            /\ ClientWork \in 0..2
            /\ Work \in Nat
<1> SUFFICES ASSUME TypeOK
             PROVE  /\ AttemptsLeft \in Nat /\ HandleWork \in 0..6
                    /\ ClientWork \in 0..2 /\ Work \in Nat
  OBVIOUS
<1>1. AttemptsLeft \in Nat
  BY DEF UnaryAssumption, TypeOK, AttemptsLeft
<1>2. HandleWork \in 0..6
  BY DEF TypeOK, HandleWork
<1>3. ClientWork \in 0..2
  BY DEF TypeOK, ClientWork
<1>4. Work \in Nat
  BY <1>1, <1>2, <1>3 DEF Work
<1>5. QED
  BY <1>1, <1>2, <1>3, <1>4

\* The ways the measure goes down: a step of either side, and another call.
LEMMA Weights ==
  ASSUME NEW a \in Nat, NEW aa \in Nat, NEW h \in 0..6, NEW hh \in 0..6,
         NEW c \in 0..2, NEW cc \in 0..2,
         \/ aa = a /\ hh <= h /\ cc < c
         \/ aa = a /\ hh < h /\ cc = c
         \/ aa = a - 1
  PROVE  9 * aa + hh + cc < 9 * a + h + c
OBVIOUS

LEMMA WorkStep == TypeOK /\ Inv /\ [Next]_vars => [Work' < Work]_vars
<1> SUFFICES ASSUME TypeOK, Inv, [Next]_vars PROVE Work' < Work \/ UNCHANGED vars
  OBVIOUS
<1>1. AttemptsLeft \in Nat /\ HandleWork \in 0..6 /\ ClientWork \in 0..2
  BY WorkIsNat
<1>2. AttemptsLeft' \in Nat /\ HandleWork' \in 0..6 /\ ClientWork' \in 0..2
  <2>1. TypeOK' => (AttemptsLeft \in Nat /\ HandleWork \in 0..6 /\ ClientWork \in 0..2)'
    BY WorkIsNat, PTL
  <2>2. QED
    BY <2>1, TypeStep
<1>3. /\ Work = 9 * AttemptsLeft + HandleWork + ClientWork
      /\ Work' = 9 * AttemptsLeft' + HandleWork' + ClientWork'
  BY DEF Work
<1> USE DEF TypeOK, params, clientVars, serverVars
\* A step of the client leaves the server alone, or sends it the request.
<1>4. CASE EncodeFails \/ Call \/ ResponseArrives \/ ErrorArrives \/ CallFails
           \/ DeadlineExpires
  <2>1. AttemptsLeft' = AttemptsLeft
    BY <1>4 DEF EncodeFails, Call, ResponseArrives, ErrorArrives, CallFails,
                DeadlineExpires, Finish, AttemptsLeft
  <2>2. ClientWork' < ClientWork
    BY <1>4 DEF EncodeFails, Call, ResponseArrives, ErrorArrives, CallFails,
                DeadlineExpires, Finish, ClientWork
  <2>3. HandleWork' <= HandleWork
    BY <1>1, <1>2, <1>4 DEF EncodeFails, Call, ResponseArrives, ErrorArrives, CallFails,
                DeadlineExpires, HandleWork, Inv, ClientInv
  <2>4. QED
    BY <1>1, <1>2, <1>3, <2>1, <2>2, <2>3, Weights
<1>5. CASE Retry
  <2>1. AttemptsLeft' = AttemptsLeft - 1
    BY <1>5 DEF UnaryAssumption, Retry, AttemptsLeft
  <2>2. QED
    BY <1>1, <1>2, <1>3, <2>1, Weights
\* A step of the server leaves the client alone.
<1>6. ASSUME \/ RequestArrives \/ RejectRequest \/ StartHandler \/ ConvertFails
             \/ StartAgent \/ AgentApplies \/ Respond \/ ResponseEncodeFails
             \/ \E err \in {"plain", "rpc"} : AgentFails(err)
      PROVE  Work' < Work
  <2>1. AttemptsLeft' = AttemptsLeft /\ ClientWork' = ClientWork
    BY <1>6 DEF RequestArrives, RejectRequest, StartHandler, ConvertFails, StartAgent,
                AgentApplies, AgentFails, Respond, ResponseEncodeFails, AttemptsLeft,
                ClientWork
  <2>2. HandleWork' < HandleWork
    BY <1>6 DEF RequestArrives, RejectRequest, StartHandler, ConvertFails, StartAgent,
                AgentApplies, AgentFails, Respond, ResponseEncodeFails, Answer,
                HandleWork
  <2>3. QED
    BY <1>1, <1>2, <1>3, <2>1, <2>2, Weights
<1>7. QED
  BY <1>4, <1>5, <1>6, NextCases

\* The work left is a natural number that every step makes smaller: a lost
\* message leaves a call waiting, but nothing makes it go round in circles, and a
\* late answer, a late agent or a repeated call adds no step it did not have.
THEOREM CallsAreFinite == Spec => [](Work \in Nat) /\ [][Work' < Work]_vars
BY Invariance, WorkIsNat, WorkStep, PTL DEF Spec

--------------------------------------------------------------------------------
(* What an application may rely on. *)

\* The abstract specification keeps its own promise: a retry is only taken from a
\* phase in which nothing happened.
THEOREM InvocationKeepsPromise == I!Spec => []I!Promise
<1> USE DEF I!Promise
<1>1. I!Init => I!Promise
  BY DEF I!Init
<1>2. I!Promise /\ [I!Next]_I!vars => I!Promise'
  <2> SUFFICES ASSUME I!Promise, [I!Next]_I!vars PROVE I!Promise'
    OBVIOUS
  <2>1. CASE I!TakeEffect
    BY <2>1 DEF I!TakeEffect
  <2>2. CASE I!Succeed \/ I!FailRetryable \/ I!FailUnknown \/ I!Retry
    BY <2>2 DEF I!Succeed, I!FailRetryable, I!FailUnknown, I!Retry
  <2>3. CASE UNCHANGED I!vars
    BY <2>3
  <2>4. QED
    BY <2>1, <2>2, <2>3 DEF I!Next
<1>3. QED
  BY <1>1, <1>2, PTL DEF I!Spec

\* So does every method of the Transport, by the refinement alone: after a result
\* the agent has done the work once, after a retryable error not at all, and nothing
\* that is still under way changes either.
THEOREM CallKeepsPromise == Spec => []I!Promise
BY CallIsInvocation, InvocationKeepsPromise, PTL DEF ImplementsInvocation
================================================================================
