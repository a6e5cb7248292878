-------------------------------- MODULE EchoDemo --------------------------------
(***************************************************************************)
(* The example programs together: the echo agent server, and clients of    *)
(* two kinds that each make one call.  A plain client opens its channel    *)
(* itself; a factory client has a2a-go build it from an agent card.  All   *)
(* of them start with the same steps (app, connection, subscription) and   *)
(* exit at the first that fails.  Requests reach the server's app as soon  *)
(* as it has subscribed, before it has registered its handlers; nothing    *)
(* bounds a client's wait, since it calls with context.Background().       *)
(***************************************************************************)
EXTENDS Naturals, Sequences

CONSTANTS Clients,         \* the client processes
          Configurations,  \* the kind, version and agent name a client may have
          Text,            \* the text each client sends
          None

Versions == {"v0", "v1"}
Modes == {"v0", "v1", "both"}
Kinds == {"plain", "factory"}
Names == {"echo", "other", "malformed"}  \* of the agent a client is given

\* A plain client has the agent's name built in.
ASSUME EchoAssumption ==
  /\ Configurations \subseteq [kind : Kinds, version : Versions, name : Names]
  /\ \A k \in Configurations : k.kind = "plain" => k.name = "echo"
  /\ \A c \in Clients : Text[c] # "state" /\ Text[c] # None
  /\ None \notin {"state", "task", "error", "unimplemented"}
  /\ None \notin {0, 1}

VARIABLES
  mode,      \* the server's --a2a-version
  client,    \* per client, its kind, its version and the agent's name
  server,    \* where the server's run is
  table,     \* the versions whose handlers are registered
  pc,        \* per client, where its run is
  channel,   \* per client, the SLIM channel it created
  request,   \* per client, where its request is
  task,      \* per client, the task of its message: the state, the artifacts' text parts
  made,      \* per client, how many tasks the agent has made for it
  reply,     \* per client, what Handle answered
  printed,   \* per client, what it printed
  code       \* per client, its exit status

serverVars == <<server, table>>
taskVars == <<task, made>>
callVars == <<request, taskVars, reply>>
clientVars == <<pc, channel, printed, code>>
vars == <<mode, client, serverVars, clientVars, callVars>>

NoTask == [state |-> "none", artifacts |-> <<>>]

States == {"none", "submitted", "working", "completed"}
Task == [state : States, artifacts : Seq({Text[c] : c \in Clients})]

TypeOK ==
  /\ mode \in Modes
  /\ client \in [Clients -> Configurations]
  /\ server \in {"start", "created", "connected", "subscribed", "serving", "exited"}
  /\ table \subseteq Versions
  /\ pc \in [Clients -> {"start", "created", "connected", "subscribed", "opened",
                         "calling", "failed", "returned", "released", "exited"}]
  /\ channel \in [Clients -> {"none", "open", "destroyed"}]
  /\ request \in [Clients -> {"none", "flight", "inbox", "handling", "answered", "gone"}]
  /\ task \in [Clients -> Task]
  /\ made \in [Clients -> Nat]
  /\ reply \in [Clients -> {None, "task", "error", "unimplemented"}]
  /\ printed \in [Clients -> {None, "state"} \cup {Text[c] : c \in Clients}]
  /\ code \in [Clients -> {None, 0, 1}]

Init ==
  /\ mode \in Modes
  /\ client \in [Clients -> Configurations]
  /\ server = "start" /\ table = {}
  /\ pc = [c \in Clients |-> "start"]
  /\ channel = [c \in Clients |-> "none"]
  /\ request = [c \in Clients |-> "none"]
  /\ task = [c \in Clients |-> NoTask]
  /\ made = [c \in Clients |-> 0]
  /\ reply = [c \in Clients |-> None]
  /\ printed = [c \in Clients |-> None]
  /\ code = [c \in Clients |-> None]

\* CreateApp, Connect and Subscribe, in the order of every run function.
Startup == [start |-> "created", created |-> "connected", connected |-> "subscribed"]

--------------------------------------------------------------------------------
(* The server. *)

ServerStarts == /\ server \in DOMAIN Startup
                /\ server' = Startup[server]
                /\ UNCHANGED <<mode, client, table, clientVars, callVars>>

\* A step of the start fails, or ServeBlocking returns; what was under way is gone.
ServerExits ==
  /\ server \in DOMAIN Startup \cup {"serving"}
  /\ server' = "exited"
  /\ request' = [c \in Clients |-> IF request[c] \in {"inbox", "handling"} THEN "gone"
                                                                    ELSE request[c]]
  /\ UNCHANGED <<mode, client, table, clientVars, taskVars, reply>>

Served == IF mode = "both" THEN Versions ELSE {mode}

\* RegisterWith of one version: v0 before v1.
Register == /\ server = "subscribed" /\ table # Served
            /\ table' = IF "v0" \in Served \ table THEN table \cup {"v0"}
                                                   ELSE table \cup {"v1"}
            /\ UNCHANGED <<mode, client, server, clientVars, callVars>>

\* Slip: the server serves as soon as one version is registered.
ServeBlocking_Early == /\ server = "subscribed" /\ table # {}
                       /\ server' = "serving"
                       /\ UNCHANGED <<mode, client, table, clientVars, callVars>>

ServeBlocking == /\ server = "subscribed" /\ table = Served
                 /\ server' = "serving"
                 /\ UNCHANGED <<mode, client, table, clientVars, callVars>>

\* The server takes up a request of a version it has handlers for, to be executed
\* from the start, since no message names a task; it answers any other itself.
TakeUp(c) ==
  /\ server = "serving" /\ request[c] = "inbox"
  /\ IF client[c].version \in table
     THEN /\ request' = [request EXCEPT ![c] = "handling"]
          /\ task' = [task EXCEPT ![c] = NoTask]
          /\ UNCHANGED <<made, reply>>
     ELSE /\ request' = [request EXCEPT ![c] = "answered"]
          /\ reply' = [reply EXCEPT ![c] = "unimplemented"]
          /\ UNCHANGED taskVars
  /\ UNCHANGED <<mode, client, serverVars, clientVars>>

Handling(c) == server = "serving" /\ request[c] = "handling"

\* The parts of a client's message: one, with its text.
Message(c) == <<Text[c]>>

\* The text of the first part that has one.
extractText(parts) == Head(parts)

\* The executor yields the next event; a2asrv makes a task of the first and applies
\* the others to it.
Yield(c, from, to, artifacts) ==
  /\ Handling(c) /\ task[c].state = from
  /\ task' = [task EXCEPT ![c] = [state |-> to, artifacts |-> artifacts]]
  /\ made' = [made EXCEPT ![c] = IF from = "none" THEN @ + 1 ELSE @]
  /\ UNCHANGED <<mode, client, serverVars, clientVars, request, reply>>

\* Slip: the executor keeps the message of the request it saw last in a field.
Execute_Shared(c) ==
  \/ Yield(c, "none", "submitted", <<>>)
  \/ Yield(c, "submitted", "working", <<>>)
  \/ \E d \in Clients : /\ Handling(d) /\ task[c].artifacts = <<>>
                        /\ Yield(c, "working", "working", <<extractText(Message(d))>>)
  \/ task[c].artifacts # <<>> /\ Yield(c, "working", "completed", task[c].artifacts)

\* Slip: the executor returns after its artifact.
Execute_NoCompletion(c) ==
  \/ Yield(c, "none", "submitted", <<>>)
  \/ Yield(c, "submitted", "working", <<>>)
  \/ /\ task[c].artifacts = <<>>
     /\ Yield(c, "working", "working", <<extractText(Message(c))>>)

Execute(c) ==
  \/ Yield(c, "none", "submitted", <<>>)
  \/ Yield(c, "submitted", "working", <<>>)
  \/ /\ task[c].artifacts = <<>>
     /\ Yield(c, "working", "working", <<extractText(Message(c))>>)
  \/ task[c].artifacts # <<>> /\ Yield(c, "working", "completed", task[c].artifacts)

\* Handle returns: the completed task, or an error of a2asrv or a conversion.
Answer(c, r) == /\ Handling(c)
                /\ request' = [request EXCEPT ![c] = "answered"]
                /\ reply' = [reply EXCEPT ![c] = r]
                /\ UNCHANGED <<mode, client, serverVars, clientVars, taskVars>>

Respond(c) == task[c].state = "completed" /\ Answer(c, "task")

HandleFails(c) == Answer(c, "error")

--------------------------------------------------------------------------------
(* SLIM between the clients and the server. *)

Arrive(c) == /\ request[c] = "flight" /\ client[c].name = "echo"
             /\ server \in {"subscribed", "serving"}
             /\ request' = [request EXCEPT ![c] = "inbox"]
             /\ UNCHANGED <<mode, client, serverVars, clientVars, taskVars, reply>>

\* A request or an answer is lost.
Lose(c) == /\ request[c] \in {"flight", "answered"}
           /\ request' = [request EXCEPT ![c] = "gone"]
           /\ UNCHANGED <<mode, client, serverVars, clientVars, taskVars, reply>>

--------------------------------------------------------------------------------
(* The clients. *)

ClientStarts(c) == /\ pc[c] \in DOMAIN Startup
                   /\ pc' = [pc EXCEPT ![c] = Startup[pc[c]]]
                   /\ UNCHANGED <<mode, client, serverVars, channel, printed, code, callVars>>

Exit(c, status) == /\ pc' = [pc EXCEPT ![c] = "exited"]
                   /\ code' = [code EXCEPT ![c] = status]

StartFails(c) == /\ pc[c] \in DOMAIN Startup
                 /\ Exit(c, 1)
                 /\ UNCHANGED <<mode, client, serverVars, channel, printed, callVars>>

\* ChannelNewWithConnection and NewTransport.
Open(c) == /\ pc' = [pc EXCEPT ![c] = "opened"]
           /\ channel' = [channel EXCEPT ![c] = "open"]
           /\ UNCHANGED code

OpenChannel(c) == /\ pc[c] = "subscribed" /\ client[c].kind = "plain"
                  /\ Open(c)
                  /\ UNCHANGED <<mode, client, serverVars, printed, callVars>>

\* The transport factory: a name that does not parse is an error, and no channel.
Transport(c) == IF client[c].name # "malformed" THEN Open(c)
                ELSE Exit(c, 1) /\ UNCHANGED channel

\* CreateFromCard, for the transport of the client's version.
CreateFromCard(c) == /\ pc[c] = "subscribed" /\ client[c].kind = "factory"
                     /\ Transport(c)
                     /\ UNCHANGED <<mode, client, serverVars, printed, callVars>>

SendMessage(c) == /\ pc[c] = "opened"
                  /\ pc' = [pc EXCEPT ![c] = "calling"]
                  /\ request' = [request EXCEPT ![c] = "flight"]
                  /\ UNCHANGED <<mode, client, serverVars, channel, printed, code, taskVars, reply>>

\* The first text among the artifacts, or else a line about the task's state.
extractResult(t) == IF t.artifacts # <<>> THEN Head(t.artifacts) ELSE "state"

\* The result is printed; the deferred calls come next.
ResultArrives(c) == /\ pc[c] = "calling" /\ request[c] = "answered" /\ reply[c] = "task"
                    /\ pc' = [pc EXCEPT ![c] = "returned"]
                    /\ printed' = [printed EXCEPT ![c] = extractResult(task[c])]
                    /\ UNCHANGED <<mode, client, serverVars, channel, code, callVars>>

\* Slip: the transport answers an error by sending the request once more.
ErrorArrives_Resends(c) ==
  /\ pc[c] = "calling" /\ request[c] = "answered" /\ reply[c] \in {"error", "unimplemented"}
  /\ request' = [request EXCEPT ![c] = "flight"]
  /\ UNCHANGED <<mode, client, serverVars, clientVars, taskVars, reply>>

ErrorArrives(c) ==
  /\ pc[c] = "calling" /\ request[c] = "answered" /\ reply[c] \in {"error", "unimplemented"}
  /\ pc' = [pc EXCEPT ![c] = "failed"]
  /\ UNCHANGED <<mode, client, serverVars, channel, printed, code, callVars>>

\* SLIM reports a failure, or the request was not sent or the answer not decoded.
CallFails(c) == /\ pc[c] \in {"opened", "calling"}
                /\ pc' = [pc EXCEPT ![c] = "failed"]
                /\ UNCHANGED <<mode, client, serverVars, channel, printed, code, callVars>>

\* Slip: the error is returned by os.Exit, past the deferred calls.
Destroy_OnSuccess(c) ==
  /\ pc[c] \in {"returned", "failed"}
  /\ channel' = [channel EXCEPT ![c] = IF pc[c] = "failed" THEN @ ELSE "destroyed"]
  /\ Exit(c, IF printed[c] = None THEN 1 ELSE 0)
  /\ UNCHANGED <<mode, client, serverVars, printed, callVars>>

\* The deferred calls, in every return after the channel exists: the transport's
\* Destroy, and in the plain client the channel's own after it.  A second Destroy
\* changes nothing.
Destroy(c) ==
  /\ pc[c] \in {"returned", "failed", "released"}
  /\ channel' = [channel EXCEPT ![c] = "destroyed"]
  /\ IF client[c].kind = "plain" /\ pc[c] # "released"
     THEN pc' = [pc EXCEPT ![c] = "released"] /\ UNCHANGED code
     ELSE Exit(c, IF printed[c] = None THEN 1 ELSE 0)
  /\ UNCHANGED <<mode, client, serverVars, printed, callVars>>

--------------------------------------------------------------------------------

ClientStep(c) == \/ ClientStarts(c) \/ OpenChannel(c) \/ CreateFromCard(c) \/ SendMessage(c)
                 \/ ResultArrives(c) \/ ErrorArrives(c) \/ Destroy(c)

ServerStep == Register \/ ServeBlocking

ServeRequest(c) == TakeUp(c) \/ Execute(c) \/ Respond(c)

\* Every client has exited, or waits for an answer that will not come.
Terminated == /\ \A c \in Clients : \/ pc[c] = "exited"
                                    \/ pc[c] = "calling" /\ request[c] \in {"flight", "gone"}
              /\ server \in {"serving", "exited"}
              /\ UNCHANGED vars

Next == \/ ServerStarts \/ ServerExits \/ ServerStep
        \/ \E c \in Clients : \/ ClientStep(c) \/ StartFails(c) \/ CallFails(c)
                              \/ Arrive(c) \/ Lose(c)
                              \/ ServeRequest(c) \/ HandleFails(c)
        \/ Terminated

Spec == Init /\ [][Next]_vars

\* A client keeps running, a server that has subscribed goes on to serve, takes up
\* every request and lets the executor yield; no message is assumed to arrive, and
\* no step to fail.
Fairness == /\ WF_vars(ServerStep)
            /\ \A c \in Clients : WF_vars(ClientStep(c)) /\ WF_vars(ServeRequest(c))

FairSpec == Spec /\ Fairness

--------------------------------------------------------------------------------
(* Properties. *)

\* A client that exits without an error printed the text it sent itself, echoed by
\* a task that ran to its end, with any number of clients served side by side.
ClientsPrintTheirEcho ==
  \A c \in Clients : code[c] = 0 => printed[c] = Text[c] /\ task[c].state = "completed"

\* A channel is open whenever a call may use it, and no process leaves one behind,
\* on any of its returns; a factory given a malformed name never makes one.
ChannelsAreReleased ==
  \A c \in Clients : /\ pc[c] \in {"opened", "calling"} => channel[c] = "open"
                     /\ pc[c] = "exited" => channel[c] # "open"
                     /\ client[c].name = "malformed" => channel[c] = "none"

\* A request that comes in while the server is registering is not turned away: only
\* a version the server was not asked to serve is.
EarlyRequestsAreKept ==
  \A c \in Clients : reply[c] = "unimplemented" => client[c].version \notin Served

\* What a client knows: its result, or that nothing was sent, or neither.
Knows(c) == IF printed[c] # None THEN "ok"
            ELSE IF pc[c] \notin {"failed", "released", "exited"} THEN "open"
            ELSE IF request[c] = "none" THEN "retryable" ELSE "unknown"

Call(c) == INSTANCE Invocation WITH effects <- made[c], phase <- Knows(c)

\* The call of every client is an invocation, as UnaryCall's is, with the tasks the
\* agent makes for the client as its effects: there is never a second one, a client
\* that prints a result has one, and a client that fails before it sent its request
\* gets none, in any order of the two programs' steps and failures.
CallsAreInvocations ==
  /\ \A c \in Clients : Call(c)!Init
  /\ [][\A c \in Clients : [Call(c)!Next]_(Call(c)!vars)]_vars

\* A client whose request has reached a server exits, unless the server goes down
\* or the answer is lost: nothing else can keep it waiting.
ReachedClientsExit ==
  \A c \in Clients :
    (request[c] = "inbox") ~> (pc[c] = "exited" \/ request[c] = "gone" \/ server = "exited")
================================================================================
