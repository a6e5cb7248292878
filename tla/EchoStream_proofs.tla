---------------------------- MODULE EchoStream_proofs ----------------------------
(* Proofs about the echo agent over a streaming call, for any set of artifacts and *)
(* any choice of the events that do not convert at either end.  They rest on those *)
(* about StreamCall, of which EchoStream is an instance.                           *)
EXTENDS EchoStream, StreamCall_proofs

USE EchoStreamAssumption

LEMMA ScriptType ==
  ASSUME stored \in BOOLEAN, echo \in Artifacts
  PROVE  /\ Script \in Seq(Events)
         /\ \A i \in 1..Len(Script) : Script[i] = Completed => i = Len(Script)
<1>1. CASE stored
  <2>1. Script = <<Working, echo, Completed>>
    BY <1>1 DEF Script
  <2>2. QED
    BY <2>1
<1>2. CASE ~ stored
  <2>1. Script = <<Submitted, Working, echo, Completed>>
    BY <1>2 DEF Script
  <2>2. QED
    BY <2>1
<1>3. QED
  BY <1>1, <1>2

ScriptInv == TypeOK /\ Inv /\ stored \in BOOLEAN /\ echo \in Artifacts /\ FollowsScript

\* The executor is one of StreamCall's agents.
LEMMA EchoStepIsStep ==
  ASSUME stored \in BOOLEAN, echo \in Artifacts, TypeOK, [EchoNext]_echoVars
  PROVE  [Next]_vars
<1>1. CASE Yields
  <2>1. Script[Len(produced) + 1] \in Events
    BY <1>1, ScriptType DEF Yields, TypeOK
  <2>2. AgentStep
    BY <1>1, <2>1 DEF Yields, AgentStep
  <2>3. QED
    BY <2>2 DEF Next
<1>2. CASE Ends \/ \E err \in {"plain", "rpc"} : AgentFails(err)
  <2>1. AgentStep
    BY <1>2 DEF Ends, AgentStep
  <2>2. QED
    BY <2>1 DEF Next
<1>3. CASE Client \/ RequestArrives \/ HandleStep \/ SinkFails \/ Terminated
  BY <1>3 DEF Client, Next
<1>4. CASE UNCHANGED echoVars
  BY <1>4 DEF echoVars
<1>5. QED
  BY <1>1, <1>2, <1>3, <1>4 DEF EchoNext, EchoAgent

LEMMA StartsScript == Init => FollowsScript
BY DEF Init, FollowsScript, IsPrefixOf, Script

LEMMA KeepsScript == ScriptInv /\ [EchoNext]_echoVars => FollowsScript'
<1> SUFFICES ASSUME ScriptInv, [EchoNext]_echoVars PROVE FollowsScript'
  OBVIOUS
<1> DEFINE Kept == produced' = produced /\ (agent' = agent \/ agent' \in {"running", "stopped"})
<1>1. UNCHANGED <<stored, echo>> /\ Script' = Script
  BY DEF EchoNext, echoVars, Script
<1>2. CASE Yields
  <2>1. Script \in Seq(Events) /\ produced \in Seq(Events)
    BY ScriptType DEF ScriptInv, TypeOK
  <2>2. /\ Len(produced) < Len(Script) /\ agent # "finished" /\ agent' = agent
        /\ produced' = Append(produced, Script[Len(produced) + 1])
    BY <1>2 DEF Yields, AgentEmits, ScriptInv, Inv, ServerInv
  <2>3. IsPrefixOf(produced', Script)
    BY <2>1, <2>2 DEF IsPrefixOf, ScriptInv, FollowsScript
  <2>4. QED
    BY <1>1, <2>2, <2>3 DEF FollowsScript
<1>3. CASE Ends
  BY <1>1, <1>3 DEF Ends, AgentFinishes, ScriptInv, FollowsScript, IsPrefixOf
<1>4. ASSUME NEW err \in {"plain", "rpc"}, AgentFails(err) PROVE FollowsScript'
  BY <1>1, <1>4 DEF AgentFails, ScriptInv, FollowsScript, IsPrefixOf
<1>5. CASE Client \/ RequestArrives \/ HandleStep \/ SinkFails \/ Terminated
           \/ UNCHANGED echoVars
  <2> SUFFICES Kept
    BY <1>1 DEF ScriptInv, FollowsScript, IsPrefixOf
  <2>1. CASE Client
    BY <2>1
    DEF Client, EncodeFails, OpenFails, Open, Receive, ReceiveEvent, ReceiveUndecodable,
        ReceiveEnd, ReceiveError, ReceiveFails, DeadlineExpires, ConsumerReturns,
        ConsumerContinues, ConsumerBreaks, handleVars
  <2>2. CASE HandleStep \/ SinkFails
    BY <2>2
    DEF HandleStep, RejectRequest, StartHandler, ConvertRequest, EncodeEventFails,
        LeaveLoop, SendEvent, CloseSink, ReportFailure, SinkFails, SendFails, CloseFails,
        handleVars
  <2>3. CASE RequestArrives \/ Terminated \/ UNCHANGED echoVars
    BY <2>3 DEF RequestArrives, Terminated, handleVars, echoVars, vars
  <2>4. QED
    BY <1>5, <2>1, <2>2, <2>3
<1>6. QED
  BY <1>2, <1>3, <1>4, <1>5 DEF EchoNext, EchoAgent

LEMMA ScriptInvariance == EchoSpec => []ScriptInv
<1>1. EchoInit => ScriptInv
  BY TypeInit, InvInit, StartsScript DEF EchoInit, ScriptInv
<1>2. ScriptInv /\ [EchoNext]_echoVars => ScriptInv'
  <2> SUFFICES ASSUME ScriptInv, [EchoNext]_echoVars PROVE ScriptInv'
    OBVIOUS
  <2>1. [Next]_vars
    BY EchoStepIsStep DEF ScriptInv
  <2>2. TypeOK' /\ Inv'
    BY <2>1, TypeStep, InvStep DEF ScriptInv, Inv
  <2>3. stored' \in BOOLEAN /\ echo' \in Artifacts
    BY DEF ScriptInv, EchoNext, echoVars
  <2>4. FollowsScript'
    BY KeepsScript
  <2>5. QED
    BY <2>2, <2>3, <2>4 DEF ScriptInv
<1>3. QED
  BY <1>1, <1>2, PTL DEF EchoSpec

\* The echo agent's streaming call is a behaviour of StreamCall: whatever is proved
\* of StreamCall holds of it, that it implements EventStream included.
THEOREM EchoIsStreamCall == EchoSpec => Spec
<1>1. EchoInit => Init
  BY DEF EchoInit
<1>2. ScriptInv /\ [EchoNext]_echoVars => [Next]_vars
  BY EchoStepIsStep DEF ScriptInv
<1>3. QED
  BY <1>1, <1>2, ScriptInvariance, PTL DEF EchoSpec, Spec

\* A consumer that has seen the task completed has seen all of its story, in order:
\* no failure of either side can take the artifact out of the middle.
THEOREM CompletedComesLast == EchoSpec => []CompletedMeansComplete
<1>1. ScriptInv => CompletedMeansComplete
  <2> SUFFICES ASSUME ScriptInv, NEW i \in DOMAIN delivered, delivered[i] = Completed
               PROVE  delivered = Script
    BY DEF CompletedMeansComplete
  <2>1. /\ Script \in Seq(Events) /\ delivered \in Seq(Events)
        /\ sent \in Seq(Events) /\ produced \in Seq(Events)
    BY ScriptType DEF ScriptInv, TypeOK
  <2>2. i \in 1..Len(delivered) /\ IsPrefixOf(delivered, Script)
    BY <2>1 DEF ScriptInv, Inv, NoGap, FollowsScript, IsPrefixOf
  <2>3. i = Len(Script)
    BY <2>1, <2>2, ScriptType DEF IsPrefixOf, ScriptInv
  <2>4. Len(delivered) = Len(Script)
    BY <2>1, <2>2, <2>3 DEF IsPrefixOf
  <2>5. QED
    BY <2>1, <2>2, <2>4, FullPrefix
<1>2. QED
  BY <1>1, ScriptInvariance, PTL

\* A stream that ends cleanly, for a Handle call that saw no failure, told the task's
\* whole story: it cannot end for the consumer before the completed status.
THEOREM CleanEndTellsAll == EchoSpec => []CleanEndIsCompleted
<1>1. ScriptInv /\ CleanEndIsWhole => CleanEndIsCompleted
  BY DEF ScriptInv, FollowsScript, CleanEndIsWhole, CleanEndIsCompleted
<1>2. QED
  BY <1>1, ScriptInvariance, EchoIsStreamCall, CleanEndDeliversAll, PTL

\* The echo agent's stream implements EventStream, by way of StreamCall.
THEOREM EchoIsEventStream == EchoSpec => ImplementsEventStream
BY EchoIsStreamCall, CallIsEventStream, PTL
================================================================================
