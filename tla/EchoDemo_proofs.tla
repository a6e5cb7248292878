----------------------------- MODULE EchoDemo_proofs -----------------------------
(* Proofs about EchoDemo, for any number of clients and any texts. *)
EXTENDS EchoDemo, TLAPS

USE EchoAssumption

\* The server goes on to serve only with a full table.
TableInv == server = "serving" => table = Served

\* What a client's request has come to: nothing before the server takes it up, and
\* one task from the executor's first event on.  The task's one artifact is the
\* client's own text, and is there when the task is completed; only then is the task
\* the answer.
TaskInv(c) ==
  /\ request[c] \in {"none", "flight", "inbox"} => task[c] = NoTask
  /\ made[c] = IF task[c].state = "none" THEN 0 ELSE 1
  /\ task[c].artifacts \in {<<>>, <<Text[c]>>}
  /\ task[c].state = "completed" => task[c].artifacts = <<Text[c]>>
  /\ reply[c] = "task" => task[c].state = "completed"
  /\ reply[c] = "unimplemented" => client[c].version \notin Served

\* How far a client's run is, and what it has on the way.
RunInv(c) ==
  /\ printed[c] # None => printed[c] = Text[c] /\ task[c].state = "completed"
  /\ code[c] = 0 => printed[c] # None
  /\ pc[c] \in DOMAIN Startup \cup {"subscribed"} => channel[c] = "none"
  /\ pc[c] \in {"opened", "calling"} => channel[c] = "open"
  /\ pc[c] \in DOMAIN Startup \cup {"subscribed", "opened"} => request[c] = "none"
  /\ pc[c] = "exited" => channel[c] # "open"
  /\ client[c].name = "malformed" =>
       channel[c] = "none" /\ pc[c] \in DOMAIN Startup \cup {"subscribed", "exited"}

EchoInv == TypeOK /\ TableInv /\ \A c \in Clients : TaskInv(c) /\ RunInv(c)

LEMMA StartupSteps ==
  /\ DOMAIN Startup = {"start", "created", "connected"}
  /\ \A s \in DOMAIN Startup : Startup[s] \in {"created", "connected", "subscribed"}
BY DEF Startup

LEMMA EchoInit == Init => EchoInv
BY StartupSteps
DEF Init, EchoInv, TypeOK, TableInv, TaskInv, RunInv, NoTask, Task, States

LEMMA ServerSteps ==
  ASSUME EchoInv, ServerStarts \/ ServerExits \/ ServerStep
  PROVE  EchoInv'
<1> USE StartupSteps DEF EchoInv, TypeOK, TableInv, TaskInv, RunInv, Served, clientVars
<1>1. CASE ServerStarts
  BY <1>1 DEF ServerStarts, callVars, taskVars
<1>2. CASE ServerExits
  <2>1. /\ UNCHANGED <<mode, client, table, task, made, reply, pc, channel, printed, code>>
        /\ request' \in [Clients -> {"none", "flight", "inbox", "handling", "answered", "gone"}]
        /\ \A c \in Clients :
             request'[c] = request[c] \/ (request[c] # "none" /\ request'[c] = "gone")
    BY <1>2 DEF ServerExits, taskVars
  <2>2. QED
    BY <1>2, <2>1 DEF ServerExits
<1>3. CASE ServerStep
  BY <1>3 DEF ServerStep, Register, ServeBlocking, callVars, taskVars, Versions, Modes
<1>4. QED
  BY <1>1, <1>2, <1>3

\* A step that touches neither the tasks nor the clients' runs; a request may move on.
LEMMA Aside ==
  ASSUME EchoInv, TypeOK', TableInv',
         UNCHANGED <<mode, client, task, made, pc, channel, printed, code>>,
         \A d \in Clients : \/ request'[d] = request[d]
                            \/ request[d] = "flight" /\ request'[d] = "inbox"
                            \/ request[d] # "none" /\ request'[d] \in {"handling", "answered", "gone"},
         \A d \in Clients : \/ reply'[d] = reply[d]
                            \/ reply'[d] = "task" /\ task[d].state = "completed"
                            \/ reply'[d] = "error"
                            \/ reply'[d] = "unimplemented" /\ client[d].version \notin Served
  PROVE  EchoInv'
BY DEF EchoInv, TaskInv, RunInv, Served

LEMMA RequestSteps ==
  ASSUME EchoInv, NEW c \in Clients,
         Arrive(c) \/ Lose(c) \/ ServeRequest(c) \/ HandleFails(c)
  PROVE  EchoInv'
<1> USE DEF serverVars, clientVars, taskVars
<1>1. TableInv'
  BY DEF EchoInv, TableInv, Served, Arrive, Lose, ServeRequest, TakeUp, Execute, Yield,
         Respond, HandleFails, Answer
<1>2. CASE Arrive(c) \/ Lose(c)
  <2>1. /\ UNCHANGED <<mode, client, server, table, pc, channel, printed, code, task, made, reply>>
        /\ \/ request[c] = "flight" /\ request' = [request EXCEPT ![c] = "inbox"]
           \/ request[c] # "none" /\ request' = [request EXCEPT ![c] = "gone"]
    BY <1>2 DEF Arrive, Lose
  <2>2. TypeOK'
    BY <2>1 DEF EchoInv, TypeOK
  <2>3. \A d \in Clients :
          \/ request'[d] = request[d]
          \/ request[d] = "flight" /\ request'[d] = "inbox"
          \/ request[d] # "none" /\ request'[d] \in {"handling", "answered", "gone"}
    BY <2>1 DEF EchoInv, TypeOK
  <2>4. QED
    BY <1>1, <2>1, <2>2, <2>3, Aside
<1>3. CASE TakeUp(c)
  <2>1. /\ UNCHANGED <<mode, client, server, table, pc, channel, printed, code, task, made>>
        /\ request[c] = "inbox"
        /\ \/ request' = [request EXCEPT ![c] = "handling"]
           \/ request' = [request EXCEPT ![c] = "answered"]
        /\ \/ reply' = reply
           \/ /\ reply' = [reply EXCEPT ![c] = "unimplemented"]
              /\ client[c].version \notin Served
    <3>1. task[c] = NoTask /\ [task EXCEPT ![c] = NoTask] = task
      BY <1>3 DEF TakeUp, EchoInv, TypeOK, TaskInv
    <3>2. QED
      BY <1>3, <3>1 DEF TakeUp, EchoInv, TableInv
  <2>2. TypeOK'
    BY <2>1 DEF EchoInv, TypeOK
  <2>3. \A d \in Clients :
          /\ \/ reply'[d] = reply[d]
             \/ reply'[d] = "unimplemented" /\ client[d].version \notin Served
          /\ \/ request'[d] = request[d]
             \/ request[d] # "none" /\ request'[d] \in {"handling", "answered", "gone"}
    BY <2>1 DEF EchoInv, TypeOK
  <2>4. QED
    BY <1>1, <2>1, <2>2, <2>3, Aside
<1>4. CASE Execute(c)
  <2>1. extractText(Message(c)) = Text[c]
    BY DEF extractText, Message
  <2>2. PICK from, to \in States, artifacts \in {<<>>, <<Text[c]>>} :
          /\ Yield(c, from, to, artifacts) /\ from # "completed" /\ to # "none"
          /\ to = "completed" => artifacts = <<Text[c]>>
    BY <1>4, <2>1 DEF Execute, States, EchoInv, TaskInv
  <2>3. /\ task' = [task EXCEPT ![c] = [state |-> to, artifacts |-> artifacts]]
        /\ task[c].state = from /\ from # "completed"
        /\ made' = [made EXCEPT ![c] = 1]
        /\ request[c] = "handling"
        /\ UNCHANGED <<mode, client, server, table, pc, channel, printed, code, request, reply>>
    <3>1. task[c].state = from /\ request[c] = "handling"
      BY <2>2 DEF Yield, Handling
    <3>2. (IF from = "none" THEN made[c] + 1 ELSE made[c]) = 1
      BY <3>1 DEF EchoInv, TaskInv
    <3>3. made' = [made EXCEPT ![c] = IF from = "none" THEN made[c] + 1 ELSE made[c]]
      BY <2>2 DEF Yield
    <3>4. made' = [made EXCEPT ![c] = 1]
      BY <3>2, <3>3
    <3>5. QED
      BY <2>2, <3>1, <3>4 DEF Yield
  <2>4. artifacts \in Seq({Text[d] : d \in Clients})
    <3> DEFINE Texts == {Text[d] : d \in Clients}
    <3>1. Text[c] \in Texts
      OBVIOUS
    <3> HIDE DEF Texts
    <3>2. <<>> \in Seq(Texts) /\ <<Text[c]>> \in Seq(Texts)
      BY <3>1
    <3>3. QED
      BY <3>2 DEF Texts
  <2>5. TypeOK'
    BY <2>3, <2>4 DEF EchoInv, TypeOK, Task
  <2>6. ASSUME NEW d \in Clients PROVE TaskInv(d)' /\ RunInv(d)'
    BY <2>2, <2>3 DEF EchoInv, TypeOK, TaskInv, RunInv, Served
  <2>7. QED
    BY <1>1, <2>5, <2>6 DEF EchoInv
<1>5. CASE Respond(c) \/ HandleFails(c)
  <2>1. PICK r \in {"task", "error"} :
          /\ UNCHANGED <<mode, client, server, table, pc, channel, printed, code, task, made>>
          /\ request[c] = "handling"
          /\ request' = [request EXCEPT ![c] = "answered"]
          /\ reply' = [reply EXCEPT ![c] = r]
          /\ r = "task" => task[c].state = "completed"
    BY <1>5 DEF Respond, HandleFails, Answer, Handling
  <2>2. TypeOK'
    BY <2>1 DEF EchoInv, TypeOK
  <2>3. \A d \in Clients :
          /\ \/ reply'[d] = reply[d]
             \/ reply'[d] = "task" /\ task[d].state = "completed"
             \/ reply'[d] = "error"
          /\ \/ request'[d] = request[d]
             \/ request[d] # "none" /\ request'[d] \in {"handling", "answered", "gone"}
    BY <2>1 DEF EchoInv, TypeOK
  <2>4. QED
    BY <1>1, <2>1, <2>2, <2>3, Aside
<1>6. QED
  BY <1>2, <1>3, <1>4, <1>5 DEF ServeRequest

LEMMA ClientSteps ==
  ASSUME EchoInv, NEW c \in Clients, ClientStep(c) \/ StartFails(c) \/ CallFails(c)
  PROVE  EchoInv'
<1> USE StartupSteps DEF serverVars, callVars, taskVars
<1>1. /\ TypeOK' /\ UNCHANGED <<mode, client, server, table, task, made, reply>>
      /\ \/ request' = request
         \/ /\ pc[c] = "opened" /\ pc'[c] = "calling"
            /\ request' = [request EXCEPT ![c] = "flight"]
      /\ \A d \in Clients : d # c => /\ pc'[d] = pc[d] /\ channel'[d] = channel[d]
                                     /\ printed'[d] = printed[d] /\ code'[d] = code[d]
  <2> USE DEF EchoInv, TypeOK
  <2>1. CASE ClientStarts(c)
    <3>1. Startup[pc[c]] \in {"created", "connected", "subscribed"}
      BY <2>1 DEF ClientStarts
    <3>2. QED
      BY <2>1, <3>1 DEF ClientStarts
  <2>2. CASE StartFails(c)
    BY <2>2 DEF StartFails, Exit
  <2>3. CASE OpenChannel(c)
    BY <2>3 DEF OpenChannel, Open
  <2>4. CASE CreateFromCard(c)
    <3>1. CASE Open(c)
      BY <2>4, <3>1 DEF CreateFromCard, Open
    <3>2. CASE Exit(c, 1) /\ UNCHANGED channel
      BY <2>4, <3>2 DEF CreateFromCard, Exit
    <3>3. QED
      BY <2>4, <3>1, <3>2 DEF CreateFromCard, Transport
  <2>5. CASE SendMessage(c)
    BY <2>5 DEF SendMessage
  <2>6. CASE ResultArrives(c)
    <3>1. extractResult(task[c]) \in {None, "state"} \cup {Text[d] : d \in Clients}
      BY <2>6 DEF ResultArrives, extractResult, TaskInv
    <3>2. QED
      BY <2>6, <3>1 DEF ResultArrives
  <2>7. CASE ErrorArrives(c) \/ CallFails(c)
    BY <2>7 DEF ErrorArrives, CallFails
  <2>8. CASE Destroy(c)
    <3>1. /\ channel' = [channel EXCEPT ![c] = "destroyed"]
          /\ UNCHANGED <<mode, client, server, table, printed, request, task, made, reply>>
          /\ \/ pc' = [pc EXCEPT ![c] = "released"] /\ code' = code
             \/ \E status \in {0, 1} : /\ pc' = [pc EXCEPT ![c] = "exited"]
                                       /\ code' = [code EXCEPT ![c] = status]
      BY <2>8 DEF Destroy, Exit
    <3>2. QED
      BY <3>1
  <2>9. QED
    BY <2>1, <2>2, <2>3, <2>4, <2>5, <2>6, <2>7, <2>8 DEF ClientStep
<1>2. TableInv' /\ \A d \in Clients : TaskInv(d)'
  BY <1>1 DEF EchoInv, TypeOK, TableInv, TaskInv, RunInv, Served
<1>3. \A d \in Clients : d # c => RunInv(d)'
  BY <1>1 DEF EchoInv, TypeOK, RunInv
<1>4. RunInv(c)'
  <2> USE <1>1 DEF EchoInv, TypeOK, RunInv, TaskInv
  <2>1. CASE ClientStarts(c) \/ StartFails(c)
    BY <2>1 DEF ClientStarts, StartFails, Exit
  <2>2. CASE OpenChannel(c)
    BY <2>2 DEF OpenChannel, Open
  <2>3. CASE CreateFromCard(c)
    BY <2>3 DEF CreateFromCard, Transport, Open, Exit
  <2>4. CASE SendMessage(c)
    BY <2>4 DEF SendMessage
  <2>5. CASE ResultArrives(c)
    <3>1. extractResult(task[c]) = Text[c]
      BY <2>5 DEF ResultArrives, extractResult
    <3>2. QED
      BY <2>5, <3>1 DEF ResultArrives
  <2>6. CASE ErrorArrives(c) \/ CallFails(c)
    BY <2>6 DEF ErrorArrives, CallFails
  <2>7. CASE Destroy(c)
    BY <2>7 DEF Destroy, Exit
  <2>8. QED
    BY <2>1, <2>2, <2>3, <2>4, <2>5, <2>6, <2>7 DEF ClientStep
<1>5. QED
  BY <1>1, <1>2, <1>3, <1>4 DEF EchoInv

LEMMA EchoStep == EchoInv /\ [Next]_vars => EchoInv'
<1> SUFFICES ASSUME EchoInv, [Next]_vars PROVE EchoInv'
  OBVIOUS
<1>1. CASE UNCHANGED vars
  BY <1>1 DEF vars, serverVars, clientVars, callVars, taskVars, EchoInv, TypeOK, TableInv, TaskInv,
              RunInv, Served
<1>2. QED
  BY <1>1, ServerSteps, RequestSteps, ClientSteps DEF Next, Terminated

LEMMA Invariance == Spec => []EchoInv
BY EchoInit, EchoStep, PTL DEF Spec

\* The variables keep their types.
THEOREM TypeCorrect == Spec => []TypeOK
BY Invariance, PTL DEF EchoInv

\* No client is given another's text, or the answer of a task that is not completed.
THEOREM EchoesAreOnesOwn == Spec => []ClientsPrintTheirEcho
<1>1. EchoInv => ClientsPrintTheirEcho
  BY DEF EchoInv, RunInv, ClientsPrintTheirEcho
<1>2. QED
  BY <1>1, Invariance, PTL

\* No process uses a channel that is not there, or leaves one behind.
THEOREM ChannelsReleased == Spec => []ChannelsAreReleased
<1>1. EchoInv => ChannelsAreReleased
  BY DEF EchoInv, RunInv, ChannelsAreReleased
<1>2. QED
  BY <1>1, Invariance, PTL

\* A request that came in before the handlers were there is served by them.
THEOREM EarlyRequestsServed == Spec => []EarlyRequestsAreKept
<1>1. EchoInv => EarlyRequestsAreKept
  BY DEF EchoInv, TaskInv, EarlyRequestsAreKept
<1>2. QED
  BY <1>1, Invariance, PTL

--------------------------------------------------------------------------------
(* The clients' calls as invocations. *)

\* What a step of one client, of its request or of its task leaves alone.
LEMMA OthersStay ==
  ASSUME TypeOK, NEW c \in Clients, NEW d \in Clients, d # c,
         \/ ClientStep(d) \/ StartFails(d) \/ CallFails(d)
         \/ Arrive(d) \/ Lose(d) \/ ServeRequest(d) \/ HandleFails(d)
  PROVE  /\ pc'[c] = pc[c] /\ printed'[c] = printed[c]
         /\ request'[c] = request[c] /\ task'[c] = task[c] /\ made'[c] = made[c]
<1> USE DEF TypeOK, serverVars, clientVars, callVars, taskVars
<1>1. CASE ClientStep(d)
  BY <1>1 DEF ClientStep, ClientStarts, OpenChannel, CreateFromCard, Transport, Open, Exit,
              SendMessage, ResultArrives, ErrorArrives, Destroy
<1>2. CASE StartFails(d) \/ CallFails(d)
  BY <1>2 DEF StartFails, Exit, CallFails
<1>3. CASE Arrive(d) \/ Lose(d)
  BY <1>3 DEF Arrive, Lose
<1>4. CASE ServeRequest(d) \/ HandleFails(d)
  BY <1>4 DEF ServeRequest, TakeUp, Execute, Yield, Respond, HandleFails, Answer
<1>5. QED
  BY <1>1, <1>2, <1>3, <1>4

\* How a step changes what the agent has of a client's call and what the client
\* knows of it: the client goes on, it sends, it gets a result, its run fails or is
\* wound up; its request moves on; the agent makes a task of it, or carries it on.
LEMMA CallCases ==
  ASSUME EchoInv, [Next]_vars, NEW c \in Clients
  PROVE  \/ /\ UNCHANGED <<task[c], printed[c], request[c]>>
            /\ pc[c] \in {"failed", "released", "exited"} =>
                 pc'[c] \in {"failed", "released", "exited"}
         \/ /\ pc[c] = "opened" /\ pc'[c] = "calling" /\ request'[c] # "none"
            /\ UNCHANGED <<task[c], printed[c]>>
         \/ /\ pc[c] = "calling" /\ task[c].state = "completed" /\ printed'[c] # None
            /\ UNCHANGED <<task[c], request[c]>>
         \/ /\ request[c] # "none" /\ request'[c] # "none"
            /\ UNCHANGED <<task[c], printed[c], pc[c]>>
         \/ /\ request[c] = "handling" /\ task'[c].state # "none"
            /\ UNCHANGED <<printed[c], pc[c], request[c]>>
<1> USE DEF TypeOK, EchoInv, serverVars, clientVars, callVars, taskVars
<1>1. CASE UNCHANGED vars
  BY <1>1 DEF vars
<1>2. CASE ServerStarts \/ ServerStep
  BY <1>2 DEF ServerStarts, ServerStep, Register, ServeBlocking
<1>3. CASE ServerExits
  BY <1>3 DEF ServerExits
<1>4. ASSUME NEW d \in Clients, d # c,
             \/ ClientStep(d) \/ StartFails(d) \/ CallFails(d)
             \/ Arrive(d) \/ Lose(d) \/ ServeRequest(d) \/ HandleFails(d)
      PROVE  UNCHANGED <<pc[c], printed[c], request[c], task[c]>>
  BY <1>4, OthersStay
<1>5. CASE ClientStarts(c) \/ StartFails(c) \/ OpenChannel(c) \/ CreateFromCard(c)
           \/ ErrorArrives(c) \/ CallFails(c) \/ Destroy(c)
  <2>1. CASE ClientStarts(c) \/ StartFails(c)
    BY <2>1, StartupSteps DEF ClientStarts, StartFails, Exit
  <2>2. CASE OpenChannel(c) \/ CreateFromCard(c)
    BY <2>2 DEF OpenChannel, CreateFromCard, Transport, Open, Exit
  <2>3. CASE ErrorArrives(c) \/ CallFails(c)
    BY <2>3 DEF ErrorArrives, CallFails
  <2>4. CASE Destroy(c)
    BY <2>4 DEF Destroy, Exit
  <2>5. QED
    BY <1>5, <2>1, <2>2, <2>3, <2>4
<1>6. CASE SendMessage(c)
  BY <1>6 DEF SendMessage
<1>7. CASE ResultArrives(c)
  <2>1. task[c].state = "completed" /\ extractResult(task[c]) = Text[c]
    BY <1>7 DEF ResultArrives, extractResult, TaskInv
  <2>2. QED
    BY <1>7, <2>1 DEF ResultArrives
<1>8. CASE Arrive(c) \/ Lose(c) \/ TakeUp(c) \/ Respond(c) \/ HandleFails(c)
  <2>1. request[c] = "inbox" => task[c] = NoTask
    BY DEF TaskInv
  <2>2. QED
    BY <1>8, <2>1 DEF Arrive, Lose, TakeUp, Respond, HandleFails, Answer, Handling
<1>9. CASE Execute(c)
  <2>1. extractText(Message(c)) = Text[c]
    BY DEF extractText, Message
  <2>2. PICK from, to \in States, artifacts \in {<<>>, <<Text[c]>>} :
          Yield(c, from, to, artifacts) /\ to # "none"
    BY <1>9, <2>1 DEF Execute, States, TaskInv
  <2>3. QED
    BY <2>2 DEF Yield, Handling
<1>10. QED
  BY <1>1, <1>2, <1>3, <1>4, <1>5, <1>6, <1>7, <1>8, <1>9
  DEF Next, ClientStep, ServeRequest, Terminated

LEMMA CallRefinesInit == ASSUME Init, NEW c \in Clients PROVE Call(c)!Init
BY StartupSteps DEF Init, Call!Init, Knows

LEMMA CallRefinesStep ==
  ASSUME EchoInv, EchoInv', [Next]_vars, NEW c \in Clients
  PROVE  [Call(c)!Next]_(Call(c)!vars)
<1> USE DEF Knows, Call!Next, Call!vars
\* The agent has made a task for the client as soon as there is one, and no other.
<1>0. /\ made[c] = (IF task[c].state = "none" THEN 0 ELSE 1)
      /\ made'[c] = (IF task'[c].state = "none" THEN 0 ELSE 1)
      /\ request[c] = "none" => task[c].state = "none"
      /\ printed[c] # None => task[c].state = "completed"
  BY DEF EchoInv, TaskInv, RunInv, NoTask
<1>1. CASE /\ UNCHANGED <<task[c], printed[c], request[c]>>
           /\ pc[c] \in {"failed", "released", "exited"} =>
                pc'[c] \in {"failed", "released", "exited"}
  BY <1>0, <1>1 DEF Call!FailRetryable, Call!FailUnknown
<1>2. CASE /\ pc[c] = "opened" /\ pc'[c] = "calling"
           /\ UNCHANGED <<task[c], printed[c]>>
  BY <1>0, <1>2
<1>3. CASE /\ pc[c] = "calling" /\ task[c].state = "completed" /\ printed'[c] # None
           /\ UNCHANGED <<task[c], request[c]>>
  BY <1>0, <1>3 DEF Call!Succeed
<1>4. CASE /\ request[c] # "none" /\ request'[c] # "none"
           /\ UNCHANGED <<task[c], printed[c], pc[c]>>
  BY <1>0, <1>4
<1>5. CASE /\ request[c] = "handling" /\ task'[c].state # "none"
           /\ UNCHANGED <<printed[c], pc[c], request[c]>>
  BY <1>0, <1>5 DEF Call!TakeEffect
<1>6. QED
  BY <1>1, <1>2, <1>3, <1>4, <1>5, CallCases

\* Every client's call is an invocation, with any number of clients.
THEOREM EchoCallsAreInvocations == Spec => CallsAreInvocations
<1>1. Init => \A c \in Clients : Call(c)!Init
  BY CallRefinesInit
<1>2. EchoInv /\ EchoInv' /\ [Next]_vars
        => [\A c \in Clients : [Call(c)!Next]_(Call(c)!vars)]_vars
  BY CallRefinesStep
<1>3. QED
  BY <1>1, <1>2, Invariance, PTL DEF Spec, CallsAreInvocations

\* So each of them, taken by itself, satisfies the specification that UnaryCall
\* implements.
THEOREM EachCallIsInvocation == ASSUME NEW c \in Clients PROVE Spec => Call(c)!Spec
<1>1. Init => Call(c)!Init
  BY CallRefinesInit
<1>2. EchoInv /\ EchoInv' /\ [Next]_vars => [Call(c)!Next]_(Call(c)!vars)
  BY CallRefinesStep
<1>3. QED
  BY <1>1, <1>2, Invariance, PTL DEF Spec, Call!Spec

\* What the application of an invocation may conclude, each client may: the agent has
\* made no more than one task for it, has made it when the client has printed a result,
\* and never makes one for a client that failed before it sent its request.
THEOREM EachCallKeepsPromise == ASSUME NEW c \in Clients PROVE Spec => []Call(c)!Promise
<1> USE DEF Call!Promise
<1>1. Call(c)!Init => Call(c)!Promise
  BY DEF Call!Init
<1>2. Call(c)!Promise /\ [Call(c)!Next]_(Call(c)!vars) => Call(c)!Promise'
  BY DEF Call!Next, Call!TakeEffect, Call!Succeed, Call!FailRetryable,
         Call!FailUnknown, Call!Retry, Call!vars
<1>3. QED
  BY <1>1, <1>2, EachCallIsInvocation, PTL DEF Call!Spec

--------------------------------------------------------------------------------
(* Finiteness: a client's part in the programs, its request and its task        *)
(* included, is a finite number of steps, whatever the others do.               *)

\* The steps left of the client's run, the five of a request it has not sent included.
RunWork(c) == CASE pc[c] = "start"      -> 12
                [] pc[c] = "created"    -> 11
                [] pc[c] = "connected"  -> 10
                [] pc[c] = "subscribed" -> 9
                [] pc[c] = "opened"     -> 8
                [] pc[c] = "calling"    -> 3
                [] pc[c] \in {"failed", "returned"} -> 2
                [] pc[c] = "released"   -> 1
                [] pc[c] = "exited"     -> 0

RequestWork(c) == CASE request[c] = "flight"   -> 4
                    [] request[c] = "inbox"    -> 3
                    [] request[c] = "handling" -> 2
                    [] request[c] = "answered" -> 1
                    [] request[c] \in {"none", "gone"} -> 0

\* The events of Execute that are still to come.
TaskWork(c) == CASE task[c].state = "none"      -> 4
                 [] task[c].state = "submitted" -> 3
                 [] task[c].state = "working"   -> IF task[c].artifacts = <<>> THEN 2 ELSE 1
                 [] task[c].state = "completed" -> 0

Work(c) == RunWork(c) + RequestWork(c) + TaskWork(c)

LEMMA WorkIsNat ==
  ASSUME NEW c \in Clients
  PROVE  TypeOK => /\ RunWork(c) \in 0..12
                   /\ RequestWork(c) \in 0..4
                   /\ TaskWork(c) \in 0..4
                   /\ Work(c) \in 0..20
<1> SUFFICES ASSUME TypeOK
             PROVE  /\ RunWork(c) \in 0..12 /\ RequestWork(c) \in 0..4
                    /\ TaskWork(c) \in 0..4 /\ Work(c) \in 0..20
  OBVIOUS
<1>1. RunWork(c) \in 0..12
  BY DEF TypeOK, RunWork
<1>2. RequestWork(c) \in 0..4
  BY DEF TypeOK, RequestWork
<1>3. TaskWork(c) \in 0..4
  <2>1. task[c].state \in States
    BY DEF TypeOK, Task
  <2>2. QED
    BY <2>1 DEF TaskWork, States
<1>4. QED
  BY <1>1, <1>2, <1>3 DEF Work

\* The ways the measure goes down.
LEMMA Weights ==
  ASSUME NEW r \in 0..12, NEW q \in 0..4, NEW t \in 0..4,
         NEW rr \in 0..12, NEW qq \in 0..4, NEW tt \in 0..4,
         \/ rr < r /\ qq = q /\ tt = t
         \/ r = 8 /\ rr = 3 /\ tt = t
         \/ rr = r /\ qq < q /\ tt = t
         \/ rr = r /\ qq = q /\ tt < t
  PROVE  rr + qq + tt < r + q + t
OBVIOUS

LEMMA WorkStep ==
  ASSUME EchoInv, [Next]_vars, NEW c \in Clients
  PROVE  (Work(c))' < Work(c) \/ UNCHANGED <<pc[c], request[c], task[c]>>
<1> USE DEF EchoInv
<1>1. RunWork(c) \in 0..12 /\ RequestWork(c) \in 0..4 /\ TaskWork(c) \in 0..4
  BY WorkIsNat
<1>2. (RunWork(c))' \in 0..12 /\ (RequestWork(c))' \in 0..4 /\ (TaskWork(c))' \in 0..4
  <2>1. TypeOK' => (RunWork(c) \in 0..12 /\ RequestWork(c) \in 0..4 /\ TaskWork(c) \in 0..4)'
    BY WorkIsNat, PTL
  <2>2. QED
    BY <2>1, EchoStep
<1>3. /\ Work(c) = RunWork(c) + RequestWork(c) + TaskWork(c)
      /\ (Work(c))' = (RunWork(c))' + (RequestWork(c))' + (TaskWork(c))'
  BY DEF Work
<1>4. /\ UNCHANGED pc[c] => (RunWork(c))' = RunWork(c)
      /\ UNCHANGED request[c] => (RequestWork(c))' = RequestWork(c)
      /\ UNCHANGED task[c] => (TaskWork(c))' = TaskWork(c)
  BY DEF RunWork, RequestWork, TaskWork
<1> USE DEF TypeOK, serverVars, clientVars, callVars, taskVars
<1>5. CASE UNCHANGED vars \/ ServerStarts \/ ServerStep
  BY <1>5 DEF vars, ServerStarts, ServerStep, Register, ServeBlocking
<1>6. CASE ServerExits
  <2>1. UNCHANGED <<pc[c], task[c]>>
    BY <1>6 DEF ServerExits
  <2>2. UNCHANGED request[c] \/ (RequestWork(c))' < RequestWork(c)
    BY <1>6 DEF ServerExits, RequestWork
  <2>3. QED
    BY <1>1, <1>2, <1>3, <1>4, <2>1, <2>2, Weights
<1>7. ASSUME NEW d \in Clients, d # c,
             \/ ClientStep(d) \/ StartFails(d) \/ CallFails(d)
             \/ Arrive(d) \/ Lose(d) \/ ServeRequest(d) \/ HandleFails(d)
      PROVE  UNCHANGED <<pc[c], request[c], task[c]>>
  BY <1>7, OthersStay
\* The client goes on.
<1>8. CASE ClientStarts(c) \/ StartFails(c) \/ OpenChannel(c) \/ CreateFromCard(c)
           \/ ResultArrives(c) \/ ErrorArrives(c) \/ CallFails(c) \/ Destroy(c)
  <2>1. UNCHANGED <<request[c], task[c]>>
    BY <1>8 DEF ClientStarts, StartFails, OpenChannel, CreateFromCard, ResultArrives,
                ErrorArrives, CallFails, Destroy
  <2>2. CASE ClientStarts(c) \/ StartFails(c)
    <3>1. (RunWork(c))' < RunWork(c)
      BY <2>2 DEF ClientStarts, StartFails, Exit, RunWork, Startup
    <3>2. QED
      BY <1>1, <1>2, <1>3, <1>4, <2>1, <3>1, Weights
  <2>3. CASE OpenChannel(c) \/ CreateFromCard(c)
    <3>1. (RunWork(c))' < RunWork(c)
      BY <2>3 DEF OpenChannel, CreateFromCard, Transport, Open, Exit, RunWork
    <3>2. QED
      BY <1>1, <1>2, <1>3, <1>4, <2>1, <3>1, Weights
  <2>4. CASE ResultArrives(c) \/ ErrorArrives(c) \/ CallFails(c) \/ Destroy(c)
    <3>1. (RunWork(c))' < RunWork(c)
      BY <2>4 DEF ResultArrives, ErrorArrives, CallFails, Destroy, Exit, RunWork
    <3>2. QED
      BY <1>1, <1>2, <1>3, <1>4, <2>1, <3>1, Weights
  <2>5. QED
    BY <1>8, <2>2, <2>3, <2>4
\* It sends its request.
<1>9. CASE SendMessage(c)
  <2>1. RunWork(c) = 8 /\ (RunWork(c))' = 3 /\ UNCHANGED task[c]
    BY <1>9 DEF SendMessage, RunWork
  <2>2. QED
    BY <1>1, <1>2, <1>3, <1>4, <2>1, Weights
\* The request moves on.
<1>10. CASE Arrive(c) \/ Lose(c) \/ TakeUp(c) \/ Respond(c) \/ HandleFails(c)
  <2>1. UNCHANGED <<pc[c], task[c]>>
    <3>1. request[c] = "inbox" => task[c] = NoTask
      BY DEF TaskInv
    <3>2. QED
      BY <1>10, <3>1 DEF Arrive, Lose, TakeUp, Respond, HandleFails, Answer
  <2>2. (RequestWork(c))' < RequestWork(c)
    BY <1>10 DEF Arrive, Lose, TakeUp, Respond, HandleFails, Answer, Handling, RequestWork
  <2>3. QED
    BY <1>1, <1>2, <1>3, <1>4, <2>1, <2>2, Weights
\* Its task does.
<1>11. CASE Execute(c)
  <2>1. UNCHANGED <<pc[c], request[c]>>
    BY <1>11 DEF Execute, Yield
  <2>2. (TaskWork(c))' < TaskWork(c)
    <3>1. CASE \/ Yield(c, "none", "submitted", <<>>)
               \/ Yield(c, "submitted", "working", <<>>)
      BY <3>1 DEF Yield, TaskWork
    <3>2. CASE /\ task[c].artifacts = <<>>
               /\ Yield(c, "working", "working", <<extractText(Message(c))>>)
      <4>1. task[c].state = "working" /\ task'[c].state = "working"
            /\ task'[c].artifacts = <<extractText(Message(c))>>
        BY <3>2 DEF Yield
      <4>2. TaskWork(c) = 2 /\ (TaskWork(c))' = 1
        BY <3>2, <4>1 DEF TaskWork
      <4>3. QED
        BY <4>2
    <3>3. CASE task[c].artifacts # <<>> /\ Yield(c, "working", "completed", task[c].artifacts)
      BY <3>3 DEF Yield, TaskWork
    <3>4. QED
      BY <1>11, <3>1, <3>2, <3>3 DEF Execute
  <2>3. QED
    BY <1>1, <1>2, <1>3, <1>4, <2>1, <2>2, Weights
<1>12. QED
  BY <1>5, <1>6, <1>7, <1>8, <1>9, <1>10, <1>11
  DEF Next, ClientStep, ServeRequest, Terminated

\* Each client has at most twenty steps, its request's and its task's included: every
\* step that changes anything of them leaves it fewer, and no step of another client
\* or of the server gives it more.
THEOREM ClientsAreFinite ==
  ASSUME NEW c \in Clients
  PROVE  Spec => /\ [](Work(c) \in 0..20)
                 /\ [][(Work(c))' < Work(c) \/ UNCHANGED <<pc[c], request[c], task[c]>>]_vars
<1>1. EchoInv => Work(c) \in 0..20
  BY WorkIsNat DEF EchoInv
<1>2. EchoInv /\ [Next]_vars
        => [(Work(c))' < Work(c) \/ UNCHANGED <<pc[c], request[c], task[c]>>]_vars
  BY WorkStep
<1>3. QED
  BY <1>1, <1>2, Invariance, PTL DEF Spec
================================================================================
