----------------------------- MODULE Dispatch_proofs -----------------------------
(* Proofs about Dispatch, for any stubs that a client adapter compiles against:    *)
(* with any number of methods more, in any order and of any kind.                  *)
EXTENDS Dispatch, SequenceTheorems, TLAPS

--------------------------------------------------------------------------------
(* The lists of names. *)

\* In v0 the stub method of an operation has an adapter, of the operation's kind
\* and of no other, and that adapter calls the operation.
LEMMA NamesV0 ==
  ASSUME NEW op \in Ops
  PROVE  /\ StubMethod("v0", op) \in Adapters("v0")[KindOf(op)]
         /\ \A k \in Kinds : StubMethod("v0", op) \in Adapters("v0")[k] => k = KindOf(op)
         /\ AgentOp("v0", StubMethod("v0", op)) = op
<1> USE DEF StubMethod, AgentOp, Renamed, ClientV0, HandlerV0, Adapters, AdaptersV0, KindOf,
            Kinds, StreamOps
<1>1. CASE op \in StreamOps
  BY <1>1
<1>2. CASE op \in UnaryOps
  BY <1>2 DEF UnaryOps
<1>3. QED
  BY <1>1, <1>2 DEF Ops

\* The same in v1.
LEMMA NamesV1 ==
  ASSUME NEW op \in Ops
  PROVE  /\ StubMethod("v1", op) \in Adapters("v1")[KindOf(op)]
         /\ \A k \in Kinds : StubMethod("v1", op) \in Adapters("v1")[k] => k = KindOf(op)
         /\ AgentOp("v1", StubMethod("v1", op)) = op
<1> USE DEF StubMethod, AgentOp, Renamed, ClientV1, HandlerV1, Adapters, AdaptersV1, KindOf,
            Kinds, StreamOps
<1>1. CASE op \in StreamOps
  BY <1>1
<1>2. CASE op \in UnaryOps
  BY <1>2 DEF UnaryOps
<1>3. QED
  BY <1>1, <1>2 DEF Ops

LEMMA Names ==
  ASSUME NEW v \in Versions, NEW op \in Ops
  PROVE  /\ StubMethod(v, op) \in Adapters(v)[KindOf(op)]
         /\ \A k \in Kinds : StubMethod(v, op) \in Adapters(v)[k] => k = KindOf(op)
         /\ AgentOp(v, StubMethod(v, op)) = op
BY NamesV0, NamesV1 DEF Versions

\* The services of the two versions have different names.
LEMMA Keys ==
  ASSUME NEW r, NEW q, r.version \in Versions, q.version \in Versions, Key(r) = Key(q)
  PROVE  r.version = q.version /\ r.method = q.method
BY DEF Key, Service, Versions

--------------------------------------------------------------------------------
(* The plan of registrations. *)

\* Where the elements of a concatenation come from.
LEMMA Concatenated ==
  ASSUME NEW S, NEW s \in Seq(S), NEW t \in Seq(S)
  PROVE  /\ s \o t \in Seq(S)
         /\ \A i \in 1..Len(s) : i \in 1..Len(s \o t) /\ (s \o t)[i] = s[i]
         /\ \A i \in 1..Len(t) : Len(s) + i \in 1..Len(s \o t) /\ (s \o t)[Len(s) + i] = t[i]
         /\ \A i \in 1..Len(s \o t) :
              \/ i \in 1..Len(s)
              \/ i \in Int /\ i - Len(s) \in 1..Len(t) /\ (s \o t)[i] = t[i - Len(s)]
<1>1. Len(s) \in Nat /\ Len(t) \in Nat
  OBVIOUS
<1>2. QED
  BY <1>1, ConcatProperties

LEMMA RegistrationsOf ==
  ASSUME stubs \in Stubs, NEW v \in Versions
  PROVE  /\ Registrations(v) \in Seq(Registration)
         /\ Len(Registrations(v)) = Len(stubs[v])
         /\ \A i \in 1..Len(stubs[v]) :
              /\ Registrations(v)[i].version = v
              /\ Registrations(v)[i].method = stubs[v][i].method
         /\ \A i, j \in 1..Len(Registrations(v)) :
              Key(Registrations(v)[i]) = Key(Registrations(v)[j]) => i = j
<1>1. stubs[v] \in Seq([method : STRING, kind : Kinds])
  BY DispatchAssumption
<1>2. DOMAIN stubs[v] = 1..Len(stubs[v]) /\ Len(stubs[v]) \in Nat
  BY <1>1
<1>3. \A i \in 1..Len(stubs[v]) : /\ stubs[v][i].method \in STRING
                                  /\ stubs[v][i].kind \in Kinds
  <2>1. \A i \in 1..Len(stubs[v]) : stubs[v][i] \in [method : STRING, kind : Kinds]
    BY <1>1, ElementOfSeq
  <2>2. QED
    BY <2>1
<1>4. Registrations(v) = [i \in 1..Len(stubs[v]) |-> [version |-> v,
                            method |-> stubs[v][i].method, kind |-> stubs[v][i].kind]]
  BY <1>2 DEF Registrations
<1>5. Registrations(v) \in Seq(Registration)
  <2>1. \A i \in 1..Len(stubs[v]) : [version |-> v, method |-> stubs[v][i].method,
                                      kind |-> stubs[v][i].kind] \in Registration
    BY <1>3 DEF Registration
  <2>2. QED
    BY <1>2, <1>4, <2>1
<1>6. Len(Registrations(v)) = Len(stubs[v])
  BY <1>2, <1>4
<1>7. \A i \in 1..Len(stubs[v]) : /\ Registrations(v)[i].version = v
                                  /\ Registrations(v)[i].method = stubs[v][i].method
  BY <1>4
<1>8. ASSUME NEW i \in 1..Len(stubs[v]), NEW j \in 1..Len(stubs[v]),
             Key(Registrations(v)[i]) = Key(Registrations(v)[j])
      PROVE  i = j
  <2>1. stubs[v][i].method = stubs[v][j].method
    BY <1>7, <1>8, Keys
  <2>2. QED
    BY <1>2, <2>1, DispatchAssumption
<1>9. QED
  BY <1>5, <1>6, <1>7, <1>8

\* The plan registers no service and method twice, nothing of a version that is not
\* asked for, and all that the stubs of the versions asked for have.
LEMMA PlanProperties ==
  ASSUME stubs \in Stubs, mode \in Modes
  PROVE  /\ Plan \in Seq(Registration)
         /\ \A i, j \in 1..Len(Plan) : Key(Plan[i]) = Key(Plan[j]) => i = j
         /\ \A i \in 1..Len(Plan) : Registers(mode, Plan[i].version)
         /\ \A v \in Versions : Registers(mode, v) =>
              \A i \in 1..Len(Registrations(v)) :
                \E j \in 1..Len(Plan) : Plan[j] = Registrations(v)[i]
<1> DEFINE R(v) == Registrations(v)
<1>1. \A v \in Versions : /\ R(v) \in Seq(Registration)
                          /\ \A i \in 1..Len(R(v)) : R(v)[i].version = v
                          /\ \A i, j \in 1..Len(R(v)) : Key(R(v)[i]) = Key(R(v)[j]) => i = j
  BY RegistrationsOf
<1>2. CASE mode \in Versions
  <2>1. Plan = R(mode) /\ \A v \in Versions : Registers(mode, v) <=> v = mode
    BY <1>2 DEF Plan, Registers, Versions
  <2>2. QED
    BY <1>1, <1>2, <2>1
<1>3. CASE mode = "both"
  <2> DEFINE R0 == R("v0")
             R1 == R("v1")
  <2>1. Plan = R0 \o R1
    BY <1>3 DEF Plan
  <2>2. /\ R0 \in Seq(Registration) /\ R1 \in Seq(Registration)
        /\ \A i \in 1..Len(R0) : R0[i].version = "v0"
        /\ \A i \in 1..Len(R1) : R1[i].version = "v1"
        /\ \A i, j \in 1..Len(R0) : Key(R0[i]) = Key(R0[j]) => i = j
        /\ \A i, j \in 1..Len(R1) : Key(R1[i]) = Key(R1[j]) => i = j
    <3>1. "v0" \in Versions /\ "v1" \in Versions
      BY DEF Versions
    <3>2. QED
      BY <1>1, <3>1
  <2>3. \A v \in Versions : R(v) = R0 \/ R(v) = R1
    BY DEF Versions
  <2> HIDE DEF R0, R1, R
  <2>4. /\ Plan \in Seq(Registration)
        /\ \A i \in 1..Len(R0) : i \in 1..Len(Plan) /\ Plan[i] = R0[i]
        /\ \A i \in 1..Len(R1) : Len(R0) + i \in 1..Len(Plan) /\ Plan[Len(R0) + i] = R1[i]
        /\ \A i \in 1..Len(Plan) :
             \/ i \in 1..Len(R0)
             \/ i \in Int /\ i - Len(R0) \in 1..Len(R1) /\ Plan[i] = R1[i - Len(R0)]
    BY <2>1, <2>2, Concatenated
  <2>5. ASSUME NEW i \in 1..Len(Plan), NEW j \in 1..Len(Plan), Key(Plan[i]) = Key(Plan[j])
        PROVE  i = j
    <3>1. Plan[i] \in Registration /\ Plan[j] \in Registration
      BY <2>4, ElementOfSeq
    <3>2. Plan[i].version = Plan[j].version
      BY <2>5, <3>1, Keys DEF Registration
    <3>3. CASE i \in 1..Len(R0)
      <4>1. Plan[i].version = "v0"
        BY <2>2, <2>4, <3>3
      <4>2. ASSUME j - Len(R0) \in 1..Len(R1), Plan[j] = R1[j - Len(R0)] PROVE FALSE
        <5>1. Plan[j].version = "v1"
          BY <2>2, <4>2
        <5>2. QED
          BY <3>2, <4>1, <5>1
      <4>3. j \in 1..Len(R0)
        BY <2>4, <4>2
      <4>4. QED
        BY <2>2, <2>4, <2>5, <3>3, <4>3
    <3>4. CASE i \notin 1..Len(R0)
      <4>1. i \in Int /\ i - Len(R0) \in 1..Len(R1) /\ Plan[i] = R1[i - Len(R0)]
        BY <2>4, <3>4
      <4>2. j \notin 1..Len(R0)
        BY <2>2, <2>4, <3>2, <4>1
      <4>3. j \in Int /\ j - Len(R0) \in 1..Len(R1) /\ Plan[j] = R1[j - Len(R0)]
        BY <2>4, <4>2
      <4>4. i - Len(R0) = j - Len(R0)
        BY <2>2, <2>5, <4>1, <4>3
      <4>5. Len(R0) \in Nat
        BY <2>2
      <4>6. QED
        BY <4>1, <4>3, <4>4, <4>5
    <3>5. QED
      BY <3>3, <3>4
  <2>6. \A i \in 1..Len(Plan) : Registers(mode, Plan[i].version)
    BY <1>3 DEF Registers
  <2>7. \A v \in Versions : \A i \in 1..Len(R(v)) : \E j \in 1..Len(Plan) : Plan[j] = R(v)[i]
    <3>1. ASSUME NEW v \in Versions, NEW i \in 1..Len(R(v))
          PROVE  \E j \in 1..Len(Plan) : Plan[j] = R(v)[i]
      <4>1. CASE R(v) = R0
        BY <2>4, <4>1
      <4>2. CASE R(v) = R1
        BY <2>4, <4>2
      <4>3. QED
        BY <2>3, <4>1, <4>2
    <3>2. QED
      BY <3>1
  <2>8. QED
    BY <2>4, <2>5, <2>6, <2>7 DEF R
<1>4. QED
  BY <1>2, <1>3 DEF Modes, Versions

--------------------------------------------------------------------------------
(* The invariant. *)

\* No step but the start chooses what is to be registered.
LEMMA PlanStays == [Next]_vars => UNCHANGED <<mode, stubs>> /\ Plan' = Plan
<1>1. [Next]_vars => UNCHANGED <<mode, stubs>>
  BY DEF Next, RegisterNext, ServeBlocking, Invoke, TakeUp, Answer, Terminated, vars
<1>2. UNCHANGED <<mode, stubs>> => Plan' = Plan
  BY DEF Plan, Registrations
<1>3. QED
  BY <1>1, <1>2

LEMMA InvInit == Init => TypeOK /\ Inv
<1> SUFFICES ASSUME Init PROVE TypeOK /\ Inv
  OBVIOUS
<1>1. mode \in Modes /\ stubs \in Stubs /\ todo = Plan /\ table = <<>> /\ DOMAIN table = {}
      /\ phase = "registering" /\ call = None /\ reply = None
  BY DEF Init
<1>2. Plan \in Seq(Registration)
  BY <1>1, PlanProperties
<1>3. TypeOK
  BY <1>1, <1>2 DEF TypeOK
<1>4. Len(Plan) \in Nat /\ Made = 0 /\ DOMAIN Plan = 1..Len(Plan)
  BY <1>1, <1>2 DEF Made
<1>5. RegistrationInv
  BY <1>1, <1>4 DEF RegistrationInv
<1>6. ReplyInv
  BY <1>1 DEF ReplyInv
<1>7. QED
  BY <1>3, <1>5, <1>6 DEF Inv

\* The registration that comes next is the one of the plan after those made, and its
\* service and method are not in the table.
LEMMA NextRegistration ==
  ASSUME TypeOK, RegistrationInv, todo # <<>>
  PROVE  /\ Made \in Nat /\ Made + 1 \in 1..Len(Plan)
         /\ Head(todo) = Plan[Made + 1] /\ Head(todo) \in Registration
         /\ Key(Head(todo)) \notin DOMAIN table
         /\ Tail(todo) \in Seq(Registration)
         /\ Len(Tail(todo)) = Len(todo) - 1
         /\ \A i \in DOMAIN Tail(todo) : Tail(todo)[i] = Plan[Made + 1 + i]
<1>1. Plan \in Seq(Registration)
  BY PlanProperties DEF TypeOK
<1>2. /\ todo \in Seq(Registration) /\ Len(todo) \in Nat \ {0} /\ DOMAIN todo = 1..Len(todo)
      /\ Len(Plan) \in Nat
  BY <1>1 DEF TypeOK
<1>3. Made \in Nat /\ Made + 1 \in 1..Len(Plan) /\ Made < Made + 1
  BY <1>2 DEF Made, RegistrationInv
<1>4. Head(todo) = todo[1] /\ Head(todo) = Plan[Made + 1] /\ Head(todo) \in Registration
  BY <1>2, <1>3 DEF RegistrationInv
<1>5. Key(Head(todo)) \notin DOMAIN table
  <2>1. ASSUME NEW i \in 1..Made, Key(Plan[Made + 1]) = Key(Plan[i]) PROVE FALSE
    <3>1. i \in 1..Len(Plan) /\ i # Made + 1
      BY <1>2, <1>3
    <3>2. QED
      BY <1>3, <2>1, <3>1, PlanProperties DEF TypeOK
  <2>2. QED
    BY <1>4, <2>1 DEF RegistrationInv
<1>6. /\ Tail(todo) \in Seq(Registration)
      /\ Len(Tail(todo)) = Len(todo) - 1
      /\ \A i \in 1..Len(Tail(todo)) : Tail(todo)[i] = todo[i + 1]
  BY <1>2, HeadTailProperties
<1>7. \A i \in DOMAIN Tail(todo) : Tail(todo)[i] = Plan[Made + 1 + i]
  <2>1. ASSUME NEW i \in DOMAIN Tail(todo) PROVE Tail(todo)[i] = Plan[Made + 1 + i]
    <3>1. i \in 1..Len(Tail(todo)) /\ i \in Nat /\ i + 1 \in DOMAIN todo
      BY <1>2, <1>6
    <3>2. Tail(todo)[i] = Plan[Made + (i + 1)]
      BY <1>6, <3>1 DEF RegistrationInv
    <3>3. Made + (i + 1) = Made + 1 + i
      BY <1>3, <3>1
    <3>4. QED
      BY <3>2, <3>3
  <2>2. QED
    BY <2>1
<1>8. QED
  BY <1>3, <1>4, <1>5, <1>6, <1>7

\* Putting an entry in the table changes no other entry.
LEMMA PutProperties ==
  ASSUME NEW r, NEW entry, Put(r, entry)
  PROVE  /\ DOMAIN table' = DOMAIN table \cup {Key(r)}
         /\ table'[Key(r)] = entry
         /\ \A k \in DOMAIN table : k # Key(r) => table'[k] = table[k]
BY DEF Put

\* A handler of the table belongs to its key: it calls the operation of the request.
LEMMA DispatchedOp ==
  ASSUME TypeOK, RegistrationInv, NEW c \in [version : Versions, op : Ops]
  PROVE  /\ Dispatched(c) \in {c.op, "unimplemented"}
         /\ \A i \in 1..Made : /\ Plan[i].version = c.version
                               /\ Plan[i].method = StubMethod(c.version, c.op)
              => Dispatched(c) = c.op
<1> DEFINE m == StubMethod(c.version, c.op)
           key == <<Service[c.version], m>>
<1>1. c.version \in Versions /\ c.op \in Ops
  OBVIOUS
<1>2. AgentOp(c.version, m) = c.op
  BY <1>1, Names
<1>3. Made \in Nat /\ \A i \in 1..Made : Plan[i] \in Registration
  <2>1. Plan \in Seq(Registration) /\ Len(Plan) \in Nat
    BY PlanProperties DEF TypeOK
  <2>2. \A i \in 1..Made : i \in 1..Len(Plan)
    BY <2>1 DEF RegistrationInv
  <2>3. QED
    BY <2>1, <2>2, ElementOfSeq DEF RegistrationInv
<1>4. ASSUME NEW i \in 1..Made, key = Key(Plan[i])
      PROVE  Plan[i].version = c.version /\ Plan[i].method = m
  <2> DEFINE r == [version |-> c.version, method |-> m]
  <2>1. Key(r) = key /\ r.version = c.version /\ r.method = m
    BY DEF Key
  <2>2. Plan[i].version \in Versions
    BY <1>3 DEF Registration
  <2>3. QED
    BY <1>1, <1>4, <2>1, <2>2, Keys
<1>5. key \in DOMAIN table => AgentOp(table[key].version, table[key].method) = c.op
  <2>1. SUFFICES ASSUME key \in DOMAIN table
                 PROVE  AgentOp(table[key].version, table[key].method) = c.op
    OBVIOUS
  <2>2. PICK i \in 1..Made : key = Key(Plan[i])
    BY <2>1 DEF RegistrationInv
  <2>3. table[key] = Plan[i]
    BY <2>2 DEF RegistrationInv
  <2>4. QED
    BY <1>2, <1>4, <2>2, <2>3
<1>6. Dispatched(c) = IF key \in DOMAIN table /\ table[key].kind = KindOf(c.op)
                      THEN AgentOp(table[key].version, table[key].method)
                      ELSE "unimplemented"
  BY DEF Dispatched
<1>7. ASSUME NEW i \in 1..Made, Plan[i].version = c.version, Plan[i].method = m
      PROVE  Dispatched(c) = c.op
  <2>1. key = Key(Plan[i])
    BY <1>7 DEF Key
  <2>2. key \in DOMAIN table /\ table[key] = Plan[i] /\ HasAdapter(Plan[i])
    BY <2>1 DEF RegistrationInv
  <2>3. Plan[i].kind \in Kinds
    BY <1>3 DEF Registration
  <2>4. m \in Adapters(c.version)[Plan[i].kind]
    BY <1>7, <2>2 DEF HasAdapter
  <2>5. Plan[i].kind = KindOf(c.op)
    BY <1>1, <2>3, <2>4, Names
  <2>6. QED
    BY <1>5, <1>6, <2>2, <2>5
<1>8. QED
  BY <1>5, <1>6, <1>7

LEMMA TypeStep == TypeOK /\ RegistrationInv /\ [Next]_vars => TypeOK'
<1> SUFFICES ASSUME TypeOK, RegistrationInv, [Next]_vars PROVE TypeOK'
  OBVIOUS
<1>1. CASE RegisterNext
  <2>1. todo # <<>>
    BY <1>1 DEF RegisterNext
  <2>2. CASE HasAdapter(Head(todo)) /\ todo' = Tail(todo) /\ Put(Head(todo), Head(todo))
             /\ UNCHANGED phase
    <3>1. todo' \in Seq(Registration)
      BY <2>1, <2>2, NextRegistration
    <3>2. \A k \in DOMAIN table' : table'[k] \in Registration
      <4> DEFINE r == Head(todo)
      <4>1. r \in Registration
        BY <2>1, NextRegistration
      <4> HIDE DEF r
      <4>2. Put(r, r)
        BY <2>2 DEF r
      <4>3. QED
        BY <4>1, <4>2, PutProperties DEF TypeOK
    <3>3. QED
      BY <1>1, <2>2, <3>1, <3>2 DEF TypeOK, RegisterNext
  <2>3. CASE phase' = "panicked" /\ UNCHANGED <<todo, table>>
    BY <1>1, <2>3 DEF TypeOK, RegisterNext
  <2>4. QED
    BY <1>1, <2>2, <2>3 DEF RegisterNext
<1>2. CASE ServeBlocking
  BY <1>2 DEF TypeOK, ServeBlocking
<1>3. CASE Invoke
  BY <1>3 DEF TypeOK, Invoke
<1>4. CASE TakeUp
  <2>1. call \in [version : Versions, op : Ops]
    BY <1>4 DEF TypeOK, TakeUp
  <2>2. Dispatched(call) \in Ops \cup {"unimplemented"}
    BY <2>1, DispatchedOp
  <2>3. QED
    BY <1>4, <2>2 DEF TypeOK, TakeUp
<1>5. CASE Answer
  BY <1>5 DEF TypeOK, Answer
<1>6. CASE UNCHANGED vars
  BY <1>6 DEF TypeOK, vars
<1>7. QED
  BY <1>1, <1>2, <1>3, <1>4, <1>5, <1>6 DEF Next, Terminated

LEMMA RegistrationStep == TypeOK /\ RegistrationInv /\ [Next]_vars => RegistrationInv'
<1> SUFFICES ASSUME TypeOK, RegistrationInv, [Next]_vars PROVE RegistrationInv'
  OBVIOUS
<1>1. Plan' = Plan
  BY PlanStays
<1>2. CASE RegisterNext /\ UNCHANGED phase
  <2> DEFINE r == Head(todo)
  <2>1. todo # <<>> /\ HasAdapter(r) /\ todo' = Tail(todo) /\ Put(r, r)
    BY <1>2 DEF RegisterNext
  <2>2. /\ Made \in Nat /\ Made + 1 \in 1..Len(Plan)
        /\ r = Plan[Made + 1] /\ Key(r) \notin DOMAIN table
        /\ Len(Tail(todo)) = Len(todo) - 1
        /\ \A i \in DOMAIN Tail(todo) : Tail(todo)[i] = Plan[Made + 1 + i]
    BY <2>1, NextRegistration
  <2>3. Len(todo) \in Nat /\ Len(Plan) \in Nat
    BY PlanProperties DEF TypeOK
  <2> HIDE DEF r
  <2>4. Made' = Made + 1
    BY <1>1, <2>1, <2>2, <2>3 DEF Made
  <2>5. 1..Made' = 1..Made \cup {Made + 1}
    BY <2>2, <2>4
  <2>6. /\ DOMAIN table' = DOMAIN table \cup {Key(r)}
        /\ table'[Key(r)] = r
        /\ \A k \in DOMAIN table : table'[k] = table[k]
    BY <2>1, <2>2, PutProperties
  <2>7. Made' \in 0..Len(Plan') /\ \A i \in DOMAIN todo' : todo'[i] = Plan'[Made' + i]
    BY <1>1, <2>1, <2>2, <2>3, <2>4
  <2>8. DOMAIN table' = {Key(Plan[i]) : i \in 1..Made'}
    BY <2>2, <2>5, <2>6 DEF RegistrationInv
  <2>9. \A i \in 1..Made' : table'[Key(Plan[i])] = Plan[i] /\ HasAdapter(Plan[i])
    BY <2>1, <2>2, <2>5, <2>6 DEF RegistrationInv
  <2>10. QED
    BY <1>1, <2>7, <2>8, <2>9 DEF RegistrationInv, Key, HasAdapter
<1>3. CASE UNCHANGED <<todo, table>>
  BY <1>1, <1>3 DEF RegistrationInv, Made, Key, HasAdapter
<1>4. QED
  BY <1>2, <1>3 DEF Next, RegisterNext, ServeBlocking, Invoke, TakeUp, Answer, Terminated, vars

\* A table that is not written to any more dispatches a request the same way.
LEMMA ReplyStep == TypeOK /\ Inv /\ [Next]_vars => ReplyInv'
<1> SUFFICES ASSUME TypeOK, Inv, [Next]_vars PROVE ReplyInv'
  OBVIOUS
<1> USE DEF Inv, ReplyInv
<1>1. CASE RegisterNext
  BY <1>1 DEF RegisterNext
<1>2. CASE ServeBlocking
  BY <1>2 DEF ServeBlocking
<1>3. CASE Invoke
  BY <1>3 DEF Invoke
<1>4. CASE TakeUp
  BY <1>4 DEF TakeUp, Dispatched
<1>5. CASE Answer
  BY <1>5 DEF Answer
<1>6. CASE UNCHANGED vars
  BY <1>6 DEF vars, Dispatched
<1>7. QED
  BY <1>1, <1>2, <1>3, <1>4, <1>5, <1>6 DEF Next, Terminated

LEMMA Invariance == Spec => [](TypeOK /\ Inv)
<1>1. TypeOK /\ Inv /\ [Next]_vars => (TypeOK /\ Inv)'
  BY TypeStep, RegistrationStep, ReplyStep DEF Inv
<1>2. QED
  BY <1>1, InvInit, PTL DEF Spec

--------------------------------------------------------------------------------
(* What follows. *)

\* The variables keep their types, whatever the generator made of the service.
THEOREM TypeCorrect == Spec => []TypeOK
BY Invariance, PTL

\* A server that serves has every registration of its plan, each with an adapter.
LEMMA ServingHasAll ==
  ASSUME TypeOK, Inv, phase = "serving"
  PROVE  Made = Len(Plan) /\ Len(Plan) \in Nat
<1>1. Plan \in Seq(Registration)
  BY PlanProperties DEF TypeOK
<1>2. QED
  BY <1>1 DEF Inv, ReplyInv, Made

\* With whatever methods more the stubs have, a server that serves has an adapter for
\* each of them, and handlers of the versions it was asked to serve only.
THEOREM AdaptersForAll == Spec => []ServesAllOrNothing
<1>1. ASSUME TypeOK, Inv, phase = "serving", NEW v \in Versions, Registers(mode, v),
             NEW i \in DOMAIN stubs[v]
      PROVE  LET key == <<Service[v], stubs[v][i].method>>
             IN  /\ key \in DOMAIN table
                 /\ table[key] = Registrations(v)[i]
                 /\ HasAdapter(Registrations(v)[i])
  <2>1. DOMAIN stubs[v] = 1..Len(stubs[v])
    BY <1>1, DispatchAssumption, LenProperties DEF TypeOK
  <2>2. /\ i \in 1..Len(Registrations(v))
        /\ Registrations(v)[i].version = v
        /\ Registrations(v)[i].method = stubs[v][i].method
    BY <1>1, <2>1, RegistrationsOf DEF TypeOK
  <2>3. PICK j \in 1..Len(Plan) : Plan[j] = Registrations(v)[i]
    BY <1>1, <2>2, PlanProperties DEF TypeOK
  <2>4. j \in 1..Made
    BY <1>1, ServingHasAll
  <2>5. Key(Plan[j]) = <<Service[v], stubs[v][i].method>>
    BY <2>2, <2>3 DEF Key
  <2>6. QED
    BY <1>1, <2>3, <2>4, <2>5 DEF Inv, RegistrationInv
<1>2. ASSUME TypeOK, Inv, phase = "serving", NEW k \in DOMAIN table
      PROVE  Registers(mode, table[k].version)
  <2>1. PICK i \in 1..Made : k = Key(Plan[i])
    BY <1>2 DEF Inv, RegistrationInv
  <2>2. table[k] = Plan[i] /\ i \in 1..Len(Plan)
    BY <1>2, <2>1, ServingHasAll DEF Inv, RegistrationInv
  <2>3. QED
    BY <1>2, <2>2, PlanProperties DEF TypeOK
<1>3. TypeOK /\ Inv => ServesAllOrNothing
  BY <1>1, <1>2 DEF ServesAllOrNothing
<1>4. QED
  BY <1>3, Invariance, PTL

\* A call comes to the agent's operation of its name when its version is served, and
\* to none when it is not.
THEOREM RoutesCorrectly == Spec => []RoutesToSameOperation
<1>1. ASSUME TypeOK, Inv, reply # None
      PROVE  reply = IF Registers(mode, call.version) THEN call.op ELSE "unimplemented"
  <2>1. call \in [version : Versions, op : Ops] /\ phase = "serving" /\ reply = Dispatched(call)
    BY <1>1 DEF TypeOK, Inv, ReplyInv
  <2>2. CASE Registers(mode, call.version)
    <3> DEFINE v == call.version
    <3>1. v \in Versions /\ call.op \in Ops
      BY <2>1
    <3>2. PICK i \in DOMAIN stubs[v] : stubs[v][i].method = StubMethod(v, call.op)
      <4>1. \A w \in Versions, op \in Ops :
              \E i \in DOMAIN stubs[w] : stubs[w][i].method = StubMethod(w, op)
        BY <1>1, DispatchAssumption DEF TypeOK
      <4>2. QED
        BY <3>1, <4>1
    <3>3. /\ i \in 1..Len(Registrations(v))
          /\ Registrations(v)[i].version = v
          /\ Registrations(v)[i].method = stubs[v][i].method
      <4>1. DOMAIN stubs[v] = 1..Len(stubs[v])
        BY <1>1, <3>1, DispatchAssumption, LenProperties DEF TypeOK
      <4>2. QED
        BY <1>1, <3>1, <3>2, <4>1, RegistrationsOf DEF TypeOK
    <3>4. PICK j \in 1..Len(Plan) : Plan[j] = Registrations(v)[i]
      BY <1>1, <2>2, <3>1, <3>3, PlanProperties DEF TypeOK
    <3>5. j \in 1..Made
      BY <1>1, <2>1, ServingHasAll
    <3>6. Dispatched(call) = call.op
      BY <1>1, <2>1, <3>2, <3>3, <3>4, <3>5, DispatchedOp DEF Inv
    <3>7. QED
      BY <2>1, <2>2, <3>6
  <2>3. CASE ~ Registers(mode, call.version)
    <3> DEFINE key == <<Service[call.version], StubMethod(call.version, call.op)>>
    <3>1. ASSUME key \in DOMAIN table PROVE FALSE
      <4>1. PICK i \in 1..Made : key = Key(Plan[i])
        BY <1>1, <3>1 DEF Inv, RegistrationInv
      <4>2. i \in 1..Len(Plan) /\ Plan \in Seq(Registration)
        BY <1>1, <2>1, <4>1, ServingHasAll, PlanProperties DEF TypeOK
      <4>3. Registers(mode, Plan[i].version) /\ Plan[i] \in Registration
        BY <1>1, <4>2, PlanProperties, ElementOfSeq DEF TypeOK
      <4>4. Service[Plan[i].version] = Service[call.version]
        BY <4>1 DEF Key
      <4>5. Plan[i].version = call.version
        BY <2>1, <4>3, <4>4 DEF Service, Versions, Registration
      <4>6. QED
        BY <2>3, <4>3, <4>5
    <3>2. QED
      BY <2>1, <2>3, <3>1 DEF Dispatched
  <2>4. QED
    BY <2>2, <2>3
<1>2. TypeOK /\ Inv => RoutesToSameOperation
  BY <1>1 DEF RoutesToSameOperation
<1>3. QED
  BY <1>2, Invariance, PTL

\* No registration replaces an earlier one.
THEOREM HandlersStand == Spec => EntriesStand
<1>1. TypeOK /\ Inv /\ [Next]_vars
        => [\A k \in DOMAIN table : k \in DOMAIN table' /\ table'[k] = table[k]]_vars
  <2> SUFFICES ASSUME TypeOK, Inv, [Next]_vars, NEW k \in DOMAIN table
               PROVE  k \in DOMAIN table' /\ table'[k] = table[k]
    OBVIOUS
  <2>1. CASE RegisterNext /\ UNCHANGED phase
    <3> DEFINE r == Head(todo)
    <3>1. Put(r, r) /\ todo # <<>>
      BY <2>1 DEF RegisterNext
    <3>2. Key(r) \notin DOMAIN table
      BY <3>1, NextRegistration DEF Inv
    <3> HIDE DEF r
    <3>3. QED
      BY <3>1, <3>2, PutProperties
  <2>2. CASE UNCHANGED table
    BY <2>2
  <2>3. QED
    BY <2>1, <2>2 DEF Next, RegisterNext, ServeBlocking, Invoke, TakeUp, Answer, Terminated, vars
<1>2. QED
  BY <1>1, Invariance, PTL DEF Spec, EntriesStand
================================================================================
