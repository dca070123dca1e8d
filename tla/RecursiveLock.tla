--------------------------- MODULE RecursiveLock ---------------------------
(***************************************************************************)
(* What ReentrantMutex promises: a lock that one thread holds at a time,   *)
(* as many times over as it likes, and that is free again after as many    *)
(* releases.                                                               *)
(***************************************************************************)
EXTENDS Naturals

CONSTANTS Thread, None

VARIABLES holder, depth

Init == holder = None /\ depth = 0

Acquire(t) ==
  /\ holder \in {None, t}
  /\ holder' = t
  /\ depth' = depth + 1

Release(t) ==
  /\ holder = t
  /\ depth' = depth - 1
  /\ holder' = IF depth' = 0 THEN None ELSE t

Next == \E t \in Thread : Acquire(t) \/ Release(t)

Spec == Init /\ [][Next]_<<holder, depth>>
=============================================================================
