-------------------------------- MODULE Dispatch --------------------------------
(***************************************************************************)
(* From a method of the A2A client to the operation of the agent: the      *)
(* client adapters choose a stub method, the stub names a service and a    *)
(* method on the wire, the server finds a handler in the table that the    *)
(* Handlers filled at start, and the handler calls the agent.  The names   *)
(* differ between protocol versions and between the layers, and each layer *)
(* has a list of its own.                                                  *)
(*                                                                         *)
(* RegisterWith passes the generated registration function a wrapper,      *)
(* caller.Server, that puts an adapter in the place of each generated      *)
(* handler and panics when it has none.  So the stubs here may also be     *)
(* regenerated ones, with methods more or methods of the other kind, while *)
(* the adapters are still the old ones.                                    *)
(***************************************************************************)
EXTENDS Naturals, Sequences

CONSTANTS Stubs,   \* the stubs there may be: those in the repository, and regenerated ones
          None     \* no request, no reply

Versions == {"v0", "v1"}
Modes == {"v0", "v1", "both"}
Kinds == {"unary", "stream"}

VARIABLES
  mode,      \* which versions the server registers
  stubs,     \* per version, what the generated registration function registers
  todo,      \* the registrations still to be made
  table,     \* the SLIM server's handlers, by service and method
  phase,     \* "registering", "panicked" or "serving"
  call,      \* a client's request under way, or None
  reply      \* what became of it: the agent's operation, "unimplemented" or None

vars == <<mode, stubs, todo, table, phase, call, reply>>

--------------------------------------------------------------------------------
(* The names of each layer, as written there.  A function gives the names that *)
(* change from one layer to the next; the others stay as they are.             *)

Renamed(name, by) == IF name \in DOMAIN by THEN by[name] ELSE name

\* The operations of a2aclient.Transport and of a2asrv.RequestHandler.
StreamOps == {"SendStreamingMessage", "SubscribeToTask"}
UnaryOps == {"SendMessage", "GetTask", "ListTasks", "CancelTask", "GetTaskPushConfig",
             "ListTaskPushConfigs", "CreateTaskPushConfig", "DeleteTaskPushConfig",
             "GetExtendedAgentCard"}
Ops == StreamOps \cup UnaryOps

\* Slip: v0 uses the same service name as v1.
Service_Shared == [v0 |-> "lf.a2a.v1.A2AService", v1 |-> "lf.a2a.v1.A2AService"]

Service == [v0 |-> "a2a.v1.A2AService", v1 |-> "lf.a2a.v1.A2AService"]

\* Client adapter of v0: the stub method an operation calls.
ClientV0 ==
  [GetTaskPushConfig    |-> "GetTaskPushNotificationConfig",
   ListTaskPushConfigs  |-> "ListTaskPushNotificationConfig",
   CreateTaskPushConfig |-> "CreateTaskPushNotificationConfig",
   DeleteTaskPushConfig |-> "DeleteTaskPushNotificationConfig",
   SubscribeToTask      |-> "TaskSubscription",
   GetExtendedAgentCard |-> "GetAgentCard"]

ClientV1 ==
  [GetTaskPushConfig    |-> "GetTaskPushNotificationConfig",
   ListTaskPushConfigs  |-> "ListTaskPushNotificationConfigs",
   CreateTaskPushConfig |-> "CreateTaskPushNotificationConfig",
   DeleteTaskPushConfig |-> "DeleteTaskPushNotificationConfig"]

StubMethod(v, op) == Renamed(op, IF v = "v0" THEN ClientV0 ELSE ClientV1)

\* Server adapter of v0: the operation of the RequestHandler a method calls.
HandlerV0 ==
  [GetTaskPushNotificationConfig    |-> "GetTaskPushConfig",
   ListTaskPushNotificationConfig   |-> "ListTaskPushConfigs",
   CreateTaskPushNotificationConfig |-> "CreateTaskPushConfig",
   DeleteTaskPushNotificationConfig |-> "DeleteTaskPushConfig",
   TaskSubscription                 |-> "SubscribeToTask",
   GetAgentCard                     |-> "GetExtendedAgentCard"]

\* Slip: one handler is the copy of another with its call left as it was.
HandlerV1_Copied ==
  [GetTaskPushNotificationConfig    |-> "GetTaskPushConfig",
   ListTaskPushNotificationConfigs  |-> "GetTaskPushConfig",
   CreateTaskPushNotificationConfig |-> "CreateTaskPushConfig",
   DeleteTaskPushNotificationConfig |-> "DeleteTaskPushConfig"]

HandlerV1 ==
  [GetTaskPushNotificationConfig    |-> "GetTaskPushConfig",
   ListTaskPushNotificationConfigs  |-> "ListTaskPushConfigs",
   CreateTaskPushNotificationConfig |-> "CreateTaskPushConfig",
   DeleteTaskPushNotificationConfig |-> "DeleteTaskPushConfig"]

AgentOp(v, method) == Renamed(method, IF v = "v0" THEN HandlerV0 ELSE HandlerV1)

\* The adapters RegisterWith passes for each kind of method.
AdaptersV0 ==
  [unary  |-> {"SendMessage", "GetTask", "ListTasks", "CancelTask",
               "CreateTaskPushNotificationConfig", "GetTaskPushNotificationConfig",
               "ListTaskPushNotificationConfig", "GetAgentCard",
               "DeleteTaskPushNotificationConfig"},
   stream |-> {"SendStreamingMessage", "TaskSubscription"}]

AdaptersV1 ==
  [unary  |-> {"SendMessage", "GetTask", "ListTasks", "CancelTask",
               "CreateTaskPushNotificationConfig", "GetTaskPushNotificationConfig",
               "ListTaskPushNotificationConfigs", "GetExtendedAgentCard",
               "DeleteTaskPushNotificationConfig"},
   stream |-> {"SendStreamingMessage", "SubscribeToTask"}]

Adapters(v) == IF v = "v0" THEN AdaptersV0 ELSE AdaptersV1

\* The generated registration functions, in their order.
Unary(name) == [method |-> name, kind |-> "unary"]
Stream(name) == [method |-> name, kind |-> "stream"]

RegisterV0 ==
  <<Unary("SendMessage"), Stream("SendStreamingMessage"), Unary("GetTask"),
    Unary("ListTasks"), Unary("CancelTask"), Stream("TaskSubscription"),
    Unary("CreateTaskPushNotificationConfig"), Unary("GetTaskPushNotificationConfig"),
    Unary("ListTaskPushNotificationConfig"), Unary("GetAgentCard"),
    Unary("DeleteTaskPushNotificationConfig")>>

RegisterV1 ==
  <<Unary("SendMessage"), Stream("SendStreamingMessage"), Unary("GetTask"),
    Unary("ListTasks"), Unary("CancelTask"), Stream("SubscribeToTask"),
    Unary("CreateTaskPushNotificationConfig"), Unary("GetTaskPushNotificationConfig"),
    Unary("ListTaskPushNotificationConfigs"), Unary("GetExtendedAgentCard"),
    Unary("DeleteTaskPushNotificationConfig")>>

Generated == [v0 |-> RegisterV0, v1 |-> RegisterV1]

\* A service has no two methods of one name, and the client adapters, which are
\* compiled together with the stubs, find the methods they call.
ASSUME DispatchAssumption ==
  /\ Generated \in Stubs
  /\ \A s \in Stubs, v \in Versions :
       /\ s[v] \in Seq([method : STRING, kind : Kinds])
       /\ \A i, j \in DOMAIN s[v] : s[v][i].method = s[v][j].method => i = j
       /\ \A op \in Ops : \E i \in DOMAIN s[v] : s[v][i].method = StubMethod(v, op)
  /\ None \notin [version : Versions, op : Ops] \cup Ops \cup {"unimplemented"}

--------------------------------------------------------------------------------
(* The server's start. *)

Registers(m, v) == m \in {v, "both"}

\* The registrations of version v: a service, a method and its kind.
Registrations(v) ==
  [i \in DOMAIN stubs[v] |-> [version |-> v, method |-> stubs[v][i].method,
                              kind |-> stubs[v][i].kind]]

Key(r) == <<Service[r.version], r.method>>

\* What RegisterWith of every version registers, in its order.
Plan == IF mode = "both" THEN Registrations("v0") \o Registrations("v1")
                         ELSE Registrations(mode)

Registration == [version : Versions, method : STRING, kind : Kinds]

TypeOK ==
  /\ mode \in Modes
  /\ stubs \in Stubs
  /\ todo \in Seq(Registration)
  /\ \A k \in DOMAIN table : table[k] \in Registration
  /\ phase \in {"registering", "panicked", "serving"}
  /\ call \in [version : Versions, op : Ops] \cup {None}
  /\ reply \in Ops \cup {"unimplemented", None}

Init ==
  /\ mode \in Modes
  /\ stubs \in Stubs
  /\ todo = Plan
  /\ table = <<>>
  /\ phase = "registering"
  /\ call = None
  /\ reply = None

HasAdapter(r) == r.method \in Adapters(r.version)[r.kind]

\* The SLIM server's own registration: a later handler takes the place of an
\* earlier one of the same service and method.
Put(r, entry) ==
  table' = [k \in DOMAIN table \cup {Key(r)} |-> IF k = Key(r) THEN entry ELSE table[k]]

\* Slip: a method without an adapter is left out.
RegisterNext_Skips ==
  /\ phase = "registering" /\ todo # <<>>
  /\ todo' = Tail(todo)
  /\ IF HasAdapter(Head(todo)) THEN Put(Head(todo), Head(todo)) ELSE UNCHANGED table
  /\ UNCHANGED <<mode, stubs, phase, call, reply>>

\* The wrapper registers the adapter, or panics: the process ends with the table
\* half full.
RegisterNext ==
  /\ phase = "registering" /\ todo # <<>>
  /\ \/ /\ HasAdapter(Head(todo))
        /\ todo' = Tail(todo)
        /\ Put(Head(todo), Head(todo))
        /\ UNCHANGED phase
     \/ /\ ~ HasAdapter(Head(todo))
        /\ phase' = "panicked"
        /\ UNCHANGED <<todo, table>>
  /\ UNCHANGED <<mode, stubs, call, reply>>

\* The server starts to serve when RegisterWith has returned for every version.
ServeBlocking ==
  /\ phase = "registering" /\ todo = <<>>
  /\ phase' = "serving"
  /\ UNCHANGED <<mode, stubs, todo, table, call, reply>>

--------------------------------------------------------------------------------
(* Requests.  The agent's name is subscribed before its handlers are           *)
(* registered, so a request may reach the app at any time; it is taken up when *)
(* the app serves.                                                             *)

Invoke == /\ call = None
          /\ \E v \in Versions, op \in Ops : call' = [version |-> v, op |-> op]
          /\ UNCHANGED <<mode, stubs, todo, table, phase, reply>>

KindOf(op) == IF op \in StreamOps THEN "stream" ELSE "unary"

\* The operation that the handler in the table calls for the request, if there
\* is a handler and it is one for this kind of call.
Dispatched(c) ==
  LET key == <<Service[c.version], StubMethod(c.version, c.op)>>
  IN  IF key \in DOMAIN table /\ table[key].kind = KindOf(c.op)
      THEN AgentOp(table[key].version, table[key].method)
      ELSE "unimplemented"

TakeUp == /\ phase = "serving" /\ call # None /\ reply = None
          /\ reply' = Dispatched(call)
          /\ UNCHANGED <<mode, stubs, todo, table, phase, call>>

Answer == /\ reply # None
          /\ call' = None
          /\ reply' = None
          /\ UNCHANGED <<mode, stubs, todo, table, phase>>

\* A process that panicked answers no request.
Terminated == phase = "panicked" /\ call # None /\ UNCHANGED vars

Next == RegisterNext \/ ServeBlocking \/ Invoke \/ TakeUp \/ Answer \/ Terminated

Spec == Init /\ [][Next]_vars

--------------------------------------------------------------------------------
(* Properties. *)

\* A call reaches the agent's operation of its own name when the server serves the
\* client's version, and no operation at all when it serves only the other one:
\* the lists of names of client adapter, stubs, adapters and handlers fit together.
RoutesToSameOperation ==
  reply # None => reply = IF Registers(mode, call.version) THEN call.op ELSE "unimplemented"

\* A server that serves has an adapter for every method its stubs register, also
\* when they were regenerated: with a method that has none it never starts.
ServesAllOrNothing ==
  phase = "serving" =>
    /\ \A v \in Versions : Registers(mode, v) =>
         \A i \in DOMAIN stubs[v] :
           LET key == <<Service[v], stubs[v][i].method>>
           IN  /\ key \in DOMAIN table
               /\ table[key] = Registrations(v)[i]
               /\ HasAdapter(Registrations(v)[i])
    /\ \A k \in DOMAIN table : Registers(mode, table[k].version)

\* Registering does not change a handler registered before: the two versions can
\* share a server.
EntriesStand ==
  [][\A k \in DOMAIN table : k \in DOMAIN table' /\ table'[k] = table[k]]_vars

--------------------------------------------------------------------------------
(* The inductive invariant behind them. *)

Made == Len(Plan) - Len(todo)

\* The table holds the registrations made so far, each with an adapter, and what is
\* still to be made is the rest of the plan.
RegistrationInv ==
  /\ Made \in 0..Len(Plan)
  /\ \A i \in DOMAIN todo : todo[i] = Plan[Made + i]
  /\ DOMAIN table = {Key(Plan[i]) : i \in 1..Made}
  /\ \A i \in 1..Made : table[Key(Plan[i])] = Plan[i] /\ HasAdapter(Plan[i])

\* A server that serves has registered everything, and a reply is what its table
\* makes of the call it belongs to.
ReplyInv ==
  /\ phase = "serving" => todo = <<>>
  /\ reply # None => phase = "serving" /\ call # None /\ reply = Dispatched(call)

Inv == RegistrationInv /\ ReplyInv
================================================================================
