-------------------------------- MODULE EchoStream --------------------------------
(***************************************************************************)
(* The echo agent over a streaming call: StreamCall in which the agent is  *)
(* the example's executor behind a2asrv, which hands on its events as they *)
(* come and may fail, but ends only after the task is completed.  A        *)
(* consumer can tell from the events alone how far the task has come; they *)
(* may be of a new task or go on with a stored one.                        *)
(***************************************************************************)
EXTENDS StreamCall

CONSTANTS Submitted, Working, Completed,  \* the executor's events about the task
          Artifacts                       \* and those with the text of a message

ASSUME EchoStreamAssumption ==
  /\ Events = {Submitted, Working, Completed} \cup Artifacts
  /\ MaxEvents >= 4
  /\ Submitted \notin Artifacts \cup {Working, Completed}
  /\ Working \notin Artifacts \cup {Completed} /\ Completed \notin Artifacts

VARIABLES stored,  \* the task exists already
          echo     \* the artifact that answers the message

echoVars == <<vars, stored, echo>>

\* Slip: the task is completed before its artifact is there.
Script_Hasty == IF stored THEN <<Working, Completed, echo>>
                          ELSE <<Submitted, Working, Completed, echo>>

\* The events Execute yields, in their order.
Script == IF stored THEN <<Working, echo, Completed>>
                    ELSE <<Submitted, Working, echo, Completed>>

EchoInit == Init /\ stored \in BOOLEAN /\ echo \in Artifacts

\* The executor yields its next event.
Yields == /\ Len(produced) < Len(Script)
          /\ AgentEmits(Script[Len(produced) + 1])

\* Slip: a yield's result is taken for the wrong one, and Execute returns early.
Ends_Early == produced # <<>> /\ AgentFinishes

\* Its last yield was for the completed task.
Ends == produced = Script /\ AgentFinishes

EchoAgent == Yields \/ Ends \/ \E err \in {"plain", "rpc"} : AgentFails(err)

Client == \/ EncodeFails \/ OpenFails \/ Open
          \/ Receive \/ ReceiveFails \/ DeadlineExpires \/ ConsumerReturns

EchoNext == /\ \/ Client \/ RequestArrives \/ EchoAgent \/ HandleStep \/ SinkFails
               \/ Terminated
            /\ UNCHANGED <<stored, echo>>

EchoSpec == EchoInit /\ [][EchoNext]_echoVars

--------------------------------------------------------------------------------

\* A consumer that has been given the completed status has been given everything
\* before it, in order: the artifact is never outstanding.
CompletedMeansComplete ==
  \A i \in DOMAIN delivered : delivered[i] = Completed => delivered = Script

\* A stream that ends cleanly, for a Handle call that saw no failure, told the whole
\* story of the task.
CleanEndIsCompleted ==
  outcome = "ended" /\ failure = "none" => delivered = Script

\* What the agent has emitted is the beginning of the script, all of it when it has
\* finished.
FollowsScript == /\ IsPrefixOf(produced, Script)
                 /\ agent = "finished" => produced = Script
================================================================================
