# slim-a2a-go: specifications, model checking and proofs

slim-a2a-go carries the A2A (agent-to-agent) protocol over SLIM RPC. A client
adapter, `Transport`, implements the client interface of a2a-go on a SLIM channel;
a server adapter, `Handler`, serves an a2a-go `RequestHandler` to a SLIM server.
Both exist for A2A v0.3 (`a2aslimrpc/v0`) and v1 (`a2aslimrpc/v1`) with the same
control. This directory holds TLA+ models of that code, the TLC runs over them and
TLAPS proofs. `PROJECT.json` maps each definition to the lines it models.

## 1. Inventory

| component | state | operations | what must hold |
|---|---|---|---|
| `Transport` (`v*/client.go`) | the position of an iterator or call; nothing is shared between calls | 9 unary methods, 2 iterators, `Destroy` | no gap, no event after the end, a result only for an operation carried out |
| generated client stubs (`a2apb/v*/`) | none | one per method: timeout and metadata from the context, then the channel | the deadline and the metadata are passed on |
| caller adapters (`internal/caller/server.go`) | context, sink, error of one request | `unary.Handle`, `unaryStream.Handle`, `toRPCError` | one answer or one end, the error returned is the error sent, nothing left behind |
| `Handler` (`v*/handler.go`) | position in the agent's iterator | 11 methods: convert, call the agent, convert and send | stops at the first event it cannot pass on |
| caller identity (`internal/caller`) | context value, metadata map | `FromRPCContext`, `handlerContext`, `withoutSessionKeys` | the Caller is the sender; session keys stay in their hop |
| registration (`caller.Server`, `RegisterWith`) | the SLIM server's handler table | register an adapter, or panic | all or nothing; same operation at both ends |
| generated handlers (`a2apb/v*/`) | none | one per method; replaced at registration | the adapters answer like them |
| `WithSLIMRPCTransport`, `NewTransport`, `Destroy` | a channel | create, destroy | there when used, released on every return; names parsed before a channel exists |
| `slimconfig` (examples) | options, the app's identity, the connection | `RegisterFlags`, `CreateApp`, `Connect`, `ClientConfig`, the parsers | no option is lost; credentials are announced; compatible processes meet |
| example server, clients | startup, the table, one task per request | app, connect, subscribe, register, serve; open, call, print, destroy | early requests are kept, a client gets its own echo and exits |
| echo executor | position in its events | `Execute` | the artifact comes before the completed status |
| converters (`v*/converter.go`) | none | delegate to a2a-go's `pbconv` | outside the repository; that they may fail is modelled |
| SLIM bindings, a2a-go | channel, session, sink, task store | external | assumptions in section 5 |

**How they interact.** `Transport` method -> stub -> SLIM channel -> session -> SLIM
server -> adapter found in the table -> `Handler` method -> `RequestHandler`. The client
goroutine, the SLIM session and the server goroutine of the request run concurrently;
requests are handled side by side. Iterators call back: the consumer's loop body runs
inside `yield` on the client, and the handler's loop body runs inside the agent's
`yield` on the server.

**What is hard.** Errors on two concurrent sides of one stream; the end mark and a
later error on the same sink; a consumer that stops reading; a call that times out
while its operation is under way, and what may then be retried; metadata that
travels with a context into the next call; lists of names in six places that must
agree. `PROJECT.json` lists each such hazard at its line.

## 2. Modules

| module | models | state and actions |
|---|---|---|
| `EventStream` | *abstract*: what a streaming call promises | `Offer`, `Close`, `Deliver`, `End`, `Fail`, `Stop` |
| `StreamCall` | a whole streaming call: the iterator, the stub, the SLIM stream, `unaryStream.Handle`, the handler's range loop, the agent's iterator | one action per `return`, `yield`, send and close; `client` and `server` are the two program counters, `sent`/`read`/`terminal` the stream |
| `Invocation` | *abstract*: what a result says about effects | `TakeEffect`, `Succeed`, `FailRetryable`, `FailUnknown`, `Retry` |
| `UnaryCall` | a unary call of any method, `unary.Handle`, the handler, the agent, and an application that retries | as above; `effects` counts how often the agent carried the operation out |
| `CallerContext` | many requests, concurrent and relayed: sender, wire metadata, the session layer's keys, `handlerContext`, the executor's context | per request `ClientCalls` or `ExecutorCalls`, `Arrive`, `Handle`, `Return` |
| `Dispatch` | registration, and the names from client method to agent operation; `Stubs` are those the server may be built with | `Plan` is what `RegisterWith` registers, in its order; `RegisterNext` (adapter or panic), `ServeBlocking`, `Invoke`, `TakeUp`, `Answer` |
| `GeneratedHandlers` | a generated handler and the adapter that takes its place, on the same request | each is a function from what becomes of a request to a transcript (sink, return, context); `HandleGenerated`, `HandleAdapted` |
| `SlimConfig` | options, environment, app and connection of processes, and the sessions between them | `CreateApp`, `Connect`, `Exit`; the option functions as pure operators; `Meet` is SLIM's check of two identities |
| `EchoDemo` | the example server and clients of both kinds | startup steps, `Register`, `ServeBlocking`, `TakeUp`, `Execute`; `OpenChannel`/`CreateFromCard`, `SendMessage`, `ResultArrives`, `Destroy` |
| `EchoStream` | `StreamCall` with the echo executor as its agent | extends `StreamCall`; `Yields` and `Ends` follow `Script` |
| `MC*` | instances for TLC | |
| `*_proofs` | TLAPS proofs about the module named before `_proofs` | |

Operators marked `Slip` are plausible mistakes in the definition that follows them.
They are not part of any specification; each property is known to fail when one of
them takes the place of the definition it belongs to.

`StreamCall` has one action per way out of the code. `Transport` returns at six
places (`EncodeFails`, `OpenFails`, `ReceiveFails`/`ReceiveError`, `ReceiveEnd`,
`ReceiveUndecodable`, `ConsumerBreaks`). `Handle` leaves by `RejectRequest` (an error
on a sink that is not closed), or by `CloseSink`/`CloseFails` and then
`ReportFailure` (an error on a sink that is). Handler errors arise from
`ConvertRequest`, `AgentFails`, `EncodeEventFails` and `SendFails`. `toRPCError` is
`ErrorCode`.

Composition: `EchoStream` *is* `StreamCall` (it adds no step, and `EchoIsStreamCall`
proves it), so what holds of any agent holds of the executor, and the executor's
order of events adds what a consumer may conclude from them. `EchoDemo` takes the
unary call as a whole (request, answer, error, loss) and models what is around it:
the processes, their channels and the task. The call of each of its clients implements
`Invocation` (`Call(c)`: its effects are the tasks the agent has made for the client,
which the history variable `made` counts, since a request executed a second time would
replace the client's `task`; what the client knows is read off its run), the same
abstract specification that `UnaryCall` implements: so the two modules, which look at
one call from inside and from outside, agree on what it promises.

## 3. Runs

| run | question | bounds, and why they are enough |
|---|---|---|
| `stream_safety` | safety of a streaming call and refinement of `EventStream` | up to 3 events out of an ordinary, an unencodable and an undecodable one: a bad event can come first, between and last; 8 000 states |
| `stream_liveness` | handlers return, iterations stop | the same |
| `stream_truncation` | *expected to be violated*, see section 6 | the same |
| `unary_safety` | what a result says about the agent; refinement of `Invocation` | 3 kinds of method (converted both ways, no request body, no response body), 3 attempts: a retry after a retry |
| `unary_liveness` | handlers return, calls return | the same |
| `caller_context` | what an executor learns from its context | 2 requests (one relayed, or two side by side), 2 peers, 2 session keys (removing only the first is visible), 1 application key, every metadata a client can forge over them; 700 000 states |
| `dispatch` | do names and adapters fit, also with regenerated stubs | all modes, operations and versions; `MCStubs` are the stubs of the repository and those with one method added at any position or one method of the other kind; 56 000 states |
| `slim_config` | which command lines are refused, what connections carry, who gets a session | two processes with every pair of 135 identity lines (signing and trusted keys, algorithms with the two names of EdDSA, issuers given or not, pinned issuers, audiences with blank items, incomplete lines, SPIRE, secrets from flag and environment), and one process with each of 3 840 connection lines (all of TLS, CA, certificate, key, verification, scheme, authentication, token); 710 000 states |
| `echo_safety` | the example programs through every failure; each client's call refines `Invocation` | 2 clients, each plain or factory, v0 or v1, with the agent's name right, unknown or malformed; 3 server modes; 710 000 states. Two clients are enough for one to be given the other's echo, or for each version to be early |
| `echo_liveness` | clients exit | 2 clients, one plain with v1 or factory with v0 each, right name: both kinds and both versions; 117 000 states |
| `echo_stream` | what the events tell | an artifact that converts, one that the handler cannot encode, one that the client cannot decode; a new task and a stored one; 11 000 states |
| `generated_handlers` | do adapters answer like the generated handlers | every request over 2 session keys, an application key, all kinds of subject, 0 to 2 messages, every error at every place; 21 000 states |

The properties are stated, with the code behaviour each is about, next to their
definitions. No configuration switches deadlock checking off: the states in which
the system may stop are the actions called `Terminated`. In `StreamCall` and
`UnaryCall` that is an iterator or call that has ended with no handler active; in
`CallerContext` all requests done; in `Dispatch` a process that panicked; in
`SlimConfig` every process exited, or connected and met with the others; in `EchoDemo`
every client exited, or waiting for an answer that will not come (the code sets no
deadline); in `GeneratedHandlers` a request both have answered.

The type invariants of `StreamCall`, `UnaryCall`, `CallerContext`, `Dispatch`,
`SlimConfig` and `EchoDemo` are proved, for every value of the constants, and not
checked again by a run; so are the strengthenings (`Inv`, `ConfigInv`, `EchoInv`,
...), the `Promise`s of the two abstract specifications, and the measures
`Work`. Every property that a run checks is the statement of a theorem, but for the
liveness properties and the one that is expected to be violated.

**Fairness** (liveness runs only): weak fairness of the two goroutines' own steps,
of the agent (its iterator yields or returns, its method answers), of the consumer
returning from its loop body, and of a timeout handed to SLIM expiring. Go schedules
both goroutines, and the code has no lock or loop that could starve them. There is
no fairness for a request or response to arrive, for a session to survive, or for a
failure to happen. So `DeadlineStopsIteration` really rests on the timeout, and
without a deadline only `MarkedStreamStopsIteration` is claimed. `echo_liveness` has
weak fairness of a client's own steps, of a server that registers and serves, and of
its taking up a request and letting the executor yield; a client may still wait for
ever if its request is lost, since it calls with `context.Background()`, and
`ReachedClientsExit` says exactly that. A server that
crashes is a server that takes no further step: the safety properties cover it.

## 4. Proofs

All theorems hold for every value of the constants: every set of events and every
choice of those that do not convert, any stream length, any number of attempts, any
number of requests and peers, any keys, any stubs, any number of clients. The
assumptions are the named `ASSUME`s (subsets, a natural bound, distinct sentinels,
session and application keys disjoint, stubs that the client adapters compile against),
which TLC also evaluates.

* `StreamCall_proofs`: type correctness, `NoGap`, `CleanEndIsWhole`,
  `RejectedNeverEndsClean`, `OkMeansAccepted` and `ReportedAsReturned`,
  `NothingLeaks`, `InvalidArgumentMeansUntouched`, `IterationStopsOnce`, and that
  StreamCall implements EventStream. Inductive invariant `Inv`: `NoGap` alone is not
  inductive, since that the next event delivered is the next one sent depends on
  `read = Len(delivered)` (`ClientInv`), that the next event sent is the next one
  emitted depends on the handler's position (`ServerInv`), and that a clean end is
  whole depends on when the sink closes and which error was reported (`SinkInv`,
  `ReturnInv`). `CallsAreFinite`: `Work`, a natural number, gets smaller with every
  step. Its terms are what Handle can still do (each event costs two of its steps), the
  events the client has not taken (each costs it two) and the client's own position;
  three times the first outweighs the two steps an event sent gives to the client.
  `EventStreamKeepsPromise` derives from the abstract specification alone what a
  consumer may conclude, and `CallKeepsPromise` carries it over the refinement.
* `UnaryCall_proofs`: type correctness, `SuccessIsGenuine`, `AppliedAtMostOnce`,
  `RetryableMeansUntouched`, `NothingLeaks`, `AnswerSettles`, and that UnaryCall implements
  Invocation. `AppliedAtMostOnce` needs that a retryable error leaves nothing under
  way, which needs what each phase of Handle says about `effects` (`ServerInv`).
  `AnswerSettles`, an action property, extends half of that to the errors that are not
  retryable: only a call that was lost or timed out may still change the agent's state
  after it returned. It needs that every other result came from an answer (`ClientInv`),
  and that an answer is only there when Handle, and with it the agent, is done.
  `CallsAreFinite` as above: a call takes at most eight steps, and calling again uses up
  an attempt, which weighs nine. `InvocationKeepsPromise` and `CallKeepsPromise` as
  above: one effect at most, one after a success, none after a retryable failure.
* `CallerContext_proofs`: type correctness, `CallerIsTheSender`,
  `SessionKeysStayInTheirHop`, `AppMetadataIsKept`. The invariant follows a request's metadata over every stage (`MetadataOnItsWay`) and
  knows that SLIM's subject is the sender or nothing (`SubjectIsHonest`).
* `Dispatch_proofs`: type correctness, `ServesAllOrNothing`, `RoutesToSameOperation`,
  `EntriesStand`, for any set of stubs, not only those the run tries, whose methods have
  distinct names and include those the client adapters call (`DispatchAssumption`: the
  client adapters are Go code that does not compile otherwise). Invariant: the table is
  exactly the part of `Plan` registered so far, each entry with an adapter
  (`RegistrationInv`), and a reply is what the full table makes of the call
  (`ReplyInv`). That no registration replaces another one rests on the keys of a plan
  being distinct, which the two service names give across versions. Routing is then a
  fact about the names alone: each operation, through client adapter, stub and handler,
  comes back to itself, with its own kind.
* `EchoStream_proofs`: `EchoSpec => Spec` of StreamCall, by which its theorems carry
  over, `EchoIsEventStream` among them; `CompletedMeansComplete` and `CleanEndIsCompleted`. Invariant: what the agent
  has emitted is a prefix of the script (`FollowsScript`), which with `NoGap` makes
  what was delivered one.
* `GeneratedHandlers_proofs`: `SameAnswer`, `OnlyIdentityDiffers`, from lemmas that
  compare the two functions case by case, for streams of any length.
* `SlimConfig_proofs`: type correctness, `NoTlsOptionIsLost`, `CredentialsAreAnnounced`,
  `SessionsJoinCompatiblePeers`. The invariant says what each step has checked
  (`Checked`) and that a session stands for what was accepted at both ends (`Met`);
  `VerifierTrusts` is the heart of it: a verifier takes a token exactly when the options
  behind the one trust those behind the other. That needs that *no value* is neither
  `bearer` nor `jwt` (`SlimConfigAssumption`).
* `EchoDemo_proofs`: type correctness, `ClientsPrintTheirEcho`, `ChannelsAreReleased`,
  `EarlyRequestsAreKept`. The invariant relates task, answer and print (`TaskInv`,
  `RunInv`), and knows that a serving server has its whole table (`TableInv`).
  `CallsAreInvocations` and, for each client, `Call(c)!Spec`: `CallCases` reduces every
  step of the programs to five things that may happen to one client's call, each of which
  is a step of `Invocation`; it needs that the agent has no task for a request it has not
  taken up, and has made one when it has one and no other (`TaskInv`), which rests on a
  client sending only once, from a run that has no request yet (`RunInv`).
  `EachCallKeepsPromise` follows from the refinement.
  `ClientsAreFinite`: a client's run, request and task together take at most twenty steps
  (`Work(c)`), and no step of another client or of the server adds to them.

Only model-checked: liveness under fairness (and ENABLED), which the prover cannot
reason about: `HandlerReturns`, `DeadlineStopsIteration`, `MarkedStreamStopsIteration`,
`DeadlineEndsCall`, `ResponseEndsCall`, `ReachedClientsExit`. What is proved of them is
the safety half, `CallsAreFinite` and `ClientsAreFinite`: a call cannot go round in
circles, so what is left to TLC is that it does not stop half way.

## 5. What is assumed of code outside the repository

* A SLIM stream keeps the order of the messages sent and hands each out at most
  once; a send, a close or a receive may fail at any time. A request is delivered at
  most once or lost.
* `SendErrorAsync` may be discarded, or end the stream with its code, also when the
  sink was closed before; it may overtake an end mark not yet read. A failed
  `CloseAsync` may or may not have marked the end.
* `SendAsync` does not wait for the client to read; otherwise a consumer that breaks
  out of its loop could block a handler (`SendEvent_Rendezvous` shows it).
* The SLIM server looks a handler up by service and method, a later registration
  replaces an earlier one, and it answers unknown methods with an error.
* `PeerSubject` is the verified sender, an empty string, or nil. The session layer
  sets its own keys over whatever the sender wrote there, or leaves them.
* A request that reaches a subscribed app waits there until the app serves
  (`EchoDemo`, `Dispatch`). A message that names no task, and the example clients' name
  none, gets a new one from `a2asrv`, with the executor's first event. `a2asrv` answers a SendMessage with the task when it is
  completed, or with an error; over a stream it hands the executor's events on, and ends
  only after the last.
* `Destroy` of a channel that is destroyed changes nothing: the plain client does it
  twice. What a2a-go's factory does between the card and the transport fails or comes to
  the transport factory of the version given.
* Two identities meet as SLIM's verifiers are described in `slimconfig.go`: a token
  must name an issuer (`slimconfig.go:272`), be signed by a trusted key with the
  verifier's algorithm, come from the pinned issuer if there is one, and share an
  audience if any is asked for; the subject is not checked. What SPIRE answers is open.
* A context's timeout is not taken to cancel the agent: the adapter cancels the
  agent's context when Handle returns; what the server's rpc context does at a
  deadline is left open. A client context that is cancelled without a deadline does
  not end a call, since the stubs only read `Deadline()`.
* The agent's iterator is finite (`MaxEvents`) and stops when `yield` returns false.
  The consumer does not panic.

Abstractions: events, messages, names and errors are members of small sets. An error
is `plain` or `rpc` (its dynamic type is `*RpcError`), and the code an `*RpcError`
carries is `Own`: an agent that returns InvalidArgument by itself is not what
`InvalidArgumentMeansUntouched` speaks of. A deadline that has passed gives a timeout
that is zero or negative; the model lets a deadline expire at any moment after the
call is made. A request the handler cannot *convert* is reported as Internal, not
InvalidArgument, so a client is not told that it may correct and resend.

In `SlimConfig` a name is taken modulo case where the code compares it so, a file is
what it holds, and options that only pass through (token durations, the SPIRE socket
and audiences) are left out. `EchoDemo` leaves out the printing of the request and of
answers that are not tasks, which this agent does not give.

## 6. Finding

`unaryStream.Handle` closes the sink before it sends the handler's error on it. A
client that takes the end mark first sees the stream end cleanly. Before any event
that is an empty stream, as the tests say ("server errors end the stream silently (0
events)", `handler_test.go:937`, which accept only an error or an empty stream). After
some events, it is a truncated stream that looks complete: `stream_truncation`
violates `FailedStreamIsErrorOrEmpty`. The tests only fail before the first event.
`CleanEndIsWhole` therefore says what a clean end is worth: the whole stream, if the
server saw no failure.

## 7. Not modelled, and what is left

Modelled: every component of section 1 but the following.

* The generated multicast clients (`...GroupClient`, lines 981 to 1266 of each stub
  file): nothing in the repository calls them, and everything that makes a group hard
  (who is a member, which answers arrive, when the group's stream ends) is in the
  binding. A model would be one of assumptions.
* The converters: they delegate to a2a-go's `pbconv`. That a conversion may fail,
  at every place where one is called, is modelled; its result is not in this repository.
* The executor's `Cancel`: one event, whose effect is a2asrv's; no example calls it.
* What a destroyed channel answers to a call under way, and what SLIM does with a
  timeout that is not positive: in the binding. An error that *wraps* an `*RpcError`
  is `plain` in the models, as in the code; nothing says that it should not be.
* Build files; tests, which are read for what they say of the program.

Left for later: several streams of several peers on one channel (`StreamCall` composed
with `CallerContext`; the code shares nothing between them, so this would be about the
session layer).
