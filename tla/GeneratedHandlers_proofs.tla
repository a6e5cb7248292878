------------------------- MODULE GeneratedHandlers_proofs -------------------------
(* Proofs about GeneratedHandlers, for any metadata keys, any peers and streams of *)
(* any length.                                                                     *)
EXTENDS GeneratedHandlers, TLAPS

USE HandlersAssumption

\* The two error functions agree on every error of a call that got to its agent.
LEMMA SameCode ==
  ASSUME NEW err \in Results
  PROVE  toRPCError(err, "Internal") = GeneratedError(err)
BY DEF toRPCError, GeneratedError

LEMMA SameUnary ==
  ASSUME NEW r \in Requests
  PROVE  /\ UnaryAdapter(r).sink = GeneratedUnary(r).sink
         /\ UnaryAdapter(r).returned = GeneratedUnary(r).returned
<1>1. CASE ~ r.unmarshals
  BY <1>1 DEF UnaryAdapter, GeneratedUnary, Transcript, toRPCError
<1>2. CASE r.unmarshals /\ r.result # "ok"
  BY <1>2 DEF UnaryAdapter, GeneratedUnary, Transcript, toRPCError, GeneratedError
<1>3. CASE r.unmarshals /\ r.result = "ok"
  BY <1>3 DEF UnaryAdapter, GeneratedUnary, Transcript, toRPCError
<1>4. QED
  BY <1>1, <1>2, <1>3

LEMMA SameStream ==
  ASSUME NEW r \in Requests
  PROVE  /\ StreamAdapter(r).sink = GeneratedStream(r).sink
         /\ StreamAdapter(r).returned = GeneratedStream(r).returned
<1>1. CASE ~ r.unmarshals
  BY <1>1 DEF StreamAdapter, GeneratedStream, Transcript, toRPCError
<1>2. CASE r.unmarshals
  <2> DEFINE err == IF r.result = "ok" THEN r.closes ELSE r.result
  <2>1. toRPCError(err, "Internal") = GeneratedError(err)
    BY SameCode DEF Requests
  <2> HIDE DEF err
  <2>2. QED
    BY <1>2, <2>1 DEF StreamAdapter, GeneratedStream, Transcript, err
<1>3. QED
  BY <1>1, <1>2

\* The contexts of the two kinds of handler.
LEMMA Contexts ==
  ASSUME NEW r \in Requests
  PROVE  /\ GeneratedUnary(r).ctx = IF r.unmarshals THEN GeneratedContext(r) ELSE NotCalled
         /\ GeneratedStream(r).ctx = IF r.unmarshals THEN GeneratedContext(r) ELSE NotCalled
         /\ UnaryAdapter(r).ctx = IF r.unmarshals THEN handlerContext(r) ELSE NotCalled
         /\ StreamAdapter(r).ctx = IF r.unmarshals THEN handlerContext(r) ELSE NotCalled
BY DEF GeneratedUnary, GeneratedStream, UnaryAdapter, StreamAdapter, Transcript

LEMMA OnlyTheSessionIsTakenOut ==
  ASSUME NEW r \in Requests
  PROVE  /\ handlerContext(r).metadata = GeneratedContext(r).metadata \cap AppKeys
         /\ handlerContext(r).caller = IF r.subject \in Peers THEN r.subject ELSE Absent
BY DEF handlerContext, GeneratedContext, Requests

--------------------------------------------------------------------------------

Handled == IF kind = "unary" THEN GeneratedUnary(request) ELSE GeneratedStream(request)

Adapted == IF kind = "unary" THEN UnaryAdapter(request) ELSE StreamAdapter(request)

\* Each transcript is the one of its handler, for the request that was given.
TranscriptsInv == /\ request \in Requests
                  /\ generated \in {Idle, Handled}
                  /\ adapted \in {Idle, Adapted}

LEMMA Invariance == Spec => []TranscriptsInv
<1>1. Init => TranscriptsInv
  BY DEF Init, TranscriptsInv
<1>2. TranscriptsInv /\ [Next]_vars => TranscriptsInv'
  BY DEF TranscriptsInv, Next, HandleGenerated, HandleAdapted, Terminated, vars,
         Handled, Adapted
<1>3. QED
  BY <1>1, <1>2, PTL DEF Spec

\* A client is answered the same by the generated handler and by the adapter, for
\* every request and everything that may become of it.
THEOREM AdaptersAnswerAlike == Spec => []SameAnswer
<1>1. TranscriptsInv => SameAnswer
  BY SameUnary, SameStream DEF TranscriptsInv, SameAnswer, Answered, Handled, Adapted
<1>2. QED
  BY <1>1, Invariance, PTL

\* An agent behind an adapter is called when it is behind a generated handler, and
\* sees no more and no less but for the session's keys and the Caller.
THEOREM AdaptersAddIdentity == Spec => []OnlyIdentityDiffers
<1>1. TranscriptsInv => OnlyIdentityDiffers
  <2> SUFFICES ASSUME TranscriptsInv, Answered
               PROVE  /\ adapted.ctx.called = generated.ctx.called
                      /\ adapted.ctx.metadata = generated.ctx.metadata \cap AppKeys
                      /\ adapted.ctx.called =>
                           adapted.ctx.caller = IF request.subject \in Peers
                                                THEN request.subject ELSE Absent
    BY DEF OnlyIdentityDiffers
  <2>1. /\ generated.ctx = IF request.unmarshals THEN GeneratedContext(request) ELSE NotCalled
        /\ adapted.ctx = IF request.unmarshals THEN handlerContext(request) ELSE NotCalled
    BY Contexts DEF TranscriptsInv, Answered, Handled, Adapted
  <2>2. CASE request.unmarshals
    BY <2>1, <2>2, OnlyTheSessionIsTakenOut
    DEF TranscriptsInv, handlerContext, GeneratedContext
  <2>3. CASE ~ request.unmarshals
    BY <2>1, <2>3 DEF NotCalled
  <2>4. QED
    BY <2>2, <2>3
<1>2. QED
  BY <1>1, Invariance, PTL
================================================================================
