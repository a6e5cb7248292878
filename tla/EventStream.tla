------------------------------ MODULE EventStream ------------------------------
(***************************************************************************)
(* What one streaming call promises to the code that ranges over it, with  *)
(* no channel, handler or context in sight.  A source offers events and    *)
(* closes; the consumer receives the offered events one at a time, in      *)
(* order, and the iteration stops exactly once: cleanly, when everything   *)
(* that was offered before the close has been delivered; with an error, at *)
(* any moment; or because the consumer broke out of its loop.              *)
(* StreamCall implements it.                                               *)
(***************************************************************************)
EXTENDS Naturals, Sequences

CONSTANT Events

VARIABLES offered,    \* the events the source has offered, in order
          closed,     \* whether the source has closed
          delivered,  \* the events the consumer was given, in order
          outcome     \* "running", or how the iteration stopped

vars == <<offered, closed, delivered, outcome>>

Init == /\ offered = <<>>
        /\ closed = FALSE
        /\ delivered = <<>>
        /\ outcome = "running"

Offer(e) == /\ ~closed
            /\ offered' = Append(offered, e)
            /\ UNCHANGED <<closed, delivered, outcome>>

Close == /\ ~closed
         /\ closed' = TRUE
         /\ UNCHANGED <<offered, delivered, outcome>>

Deliver == /\ outcome = "running"
           /\ Len(delivered) < Len(offered)
           /\ delivered' = Append(delivered, offered[Len(delivered) + 1])
           /\ UNCHANGED <<offered, closed, outcome>>

\* A clean end loses nothing: the source closed and all of it was delivered.
End == /\ outcome = "running"
       /\ closed
       /\ delivered = offered
       /\ outcome' = "ended"
       /\ UNCHANGED <<offered, closed, delivered>>

Fail == /\ outcome = "running"
        /\ outcome' = "failed"
        /\ UNCHANGED <<offered, closed, delivered>>

\* The consumer can only break out of its loop body, which an event started.
Stop == /\ outcome = "running"
        /\ delivered # <<>>
        /\ outcome' = "stopped"
        /\ UNCHANGED <<offered, closed, delivered>>

Next == \/ \E e \in Events : Offer(e)
        \/ Close \/ Deliver \/ End \/ Fail \/ Stop

Spec == Init /\ [][Next]_vars

--------------------------------------------------------------------------------

\* What a consumer may conclude at any moment: it has a gap-free prefix of what was
\* offered, and after a clean end it has all of it and nothing can be added.
Promise == /\ Len(delivered) <= Len(offered)
           /\ \A i \in 1..Len(delivered) : delivered[i] = offered[i]
           /\ outcome = "ended" => closed /\ delivered = offered
           /\ outcome = "stopped" => delivered # <<>>
================================================================================
