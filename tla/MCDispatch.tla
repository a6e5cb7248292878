-------------------------------- MODULE MCDispatch --------------------------------
(* Dispatch is finite but for the stubs: here those of the repository, and one    *)
(* version's stubs regenerated with a method more, at any place, or with one      *)
(* method of the other kind.                                                      *)
EXTENDS Dispatch, SequencesExt

Other(kind) == IF kind = "unary" THEN "stream" ELSE "unary"

MCStubs ==
  {Generated}
  \cup
  UNION {{[Generated EXCEPT ![v] = InsertAt(@, i, [method |-> "NewMethod", kind |-> k])] :
            i \in 1..Len(Generated[v]) + 1, k \in Kinds} : v \in Versions}
  \cup
  UNION {{[Generated EXCEPT ![v][i].kind = Other(@)] : i \in DOMAIN Generated[v]} :
            v \in Versions}
================================================================================
