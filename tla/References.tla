----------------------------- MODULE References -----------------------------
(***************************************************************************)
(* What the registry of a VM promises to the Rust side: a reference gives  *)
(* back the value it was made for until it is released, whatever happens   *)
(* to other references.  Registry implements this.                         *)
(***************************************************************************)
CONSTANTS Ref, Value, NilValue, None

VARIABLE value   \* what a reference refers to; None if there is no such one

ReferInit == value = [r \in Ref |-> None]

Refer(r, v) ==
  /\ value[r] = None
  /\ value' = [value EXCEPT ![r] = v]

Copy(r, q) ==
  /\ value[r] # None /\ value[q] = None
  /\ value' = [value EXCEPT ![q] = value[r]]

Release(r) ==
  /\ value[r] # None
  /\ value' = [value EXCEPT ![r] = None]

ReferNext ==
  \E r \in Ref :
    \/ \E v \in Value \cup {NilValue} : Refer(r, v)
    \/ \E q \in Ref : Copy(r, q)
    \/ Release(r)

ReferSpec == ReferInit /\ [][ReferNext]_value
=============================================================================
