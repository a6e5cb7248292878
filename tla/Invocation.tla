------------------------------- MODULE Invocation -------------------------------
(***************************************************************************)
(* What a request/response call promises the application about the agent's *)
(* state.  The request takes effect at most once.  A successful call did   *)
(* take effect.  A call that failed in a way the application may retry     *)
(* took no effect and never will; after any other failure the effect may   *)
(* have happened, or may still happen, behind the caller's back.           *)
(* UnaryCall implements it.                                                *)
(***************************************************************************)
EXTENDS Naturals

VARIABLES effects,  \* how many times the request took effect
          phase     \* "open", "ok", "retryable" or "unknown"

vars == <<effects, phase>>

Init == effects = 0 /\ phase = "open"

TakeEffect == /\ effects = 0
              /\ phase \in {"open", "unknown"}
              /\ effects' = 1
              /\ UNCHANGED phase

Succeed == /\ phase = "open" /\ effects = 1
           /\ phase' = "ok"
           /\ UNCHANGED effects

FailRetryable == /\ phase = "open" /\ effects = 0
                 /\ phase' = "retryable"
                 /\ UNCHANGED effects

FailUnknown == /\ phase = "open"
               /\ phase' = "unknown"
               /\ UNCHANGED effects

Retry == /\ phase = "retryable"
         /\ phase' = "open"
         /\ UNCHANGED effects

Next == TakeEffect \/ Succeed \/ FailRetryable \/ FailUnknown \/ Retry

Spec == Init /\ [][Next]_vars

--------------------------------------------------------------------------------

\* What the application may conclude at any moment: the request took effect at most
\* once, a call that succeeded did, and one that may be repeated did not, nor has
\* anything under way that would.
Promise == /\ effects \in {0, 1}
           /\ phase = "ok" => effects = 1
           /\ phase = "retryable" => effects = 0
================================================================================
