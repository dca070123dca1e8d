----------------------- MODULE ReentrantMutex_proofs -----------------------
(***************************************************************************)
(* Proofs about ReentrantMutex, for any number of threads and calls.       *)
(***************************************************************************)
EXTENDS ReentrantMutex, TLAPS

\* The count alone is not known to be a natural number after a drop: that the
\* dropping thread owns the lock comes from MutualExclusion, so the type
\* invariant and mutual exclusion are inductive only together.
IInv == TypeOK /\ MutualExclusion

\* Initially no thread is in lock() or drop(), and nobody owns the lock.
LEMMA InitIInv == Init => IInv
BY DEF Init, IInv, TypeOK, MutualExclusion, Pending, PC

\* Every step of lock(), drop() and the condition variable preserves IInv.
LEMMA NextIInv == IInv /\ [Next]_vars => IInv'
<1> SUFFICES ASSUME IInv, [Next]_vars
             PROVE  IInv'
    OBVIOUS
<1> USE ThreadAssumption DEF IInv, TypeOK, PC, Goto
<1>1. CASE UNCHANGED vars
  BY <1>1 DEF vars, MutualExclusion, Pending
<1>2. ASSUME NEW t \in Thread, Call(t)
      PROVE  IInv'
  BY <1>2 DEF Call, MutualExclusion, Pending
<1>3. ASSUME NEW t \in Thread, LockInner(t)
      PROVE  IInv'
  BY <1>3 DEF LockInner, MutualExclusion, Pending
<1>4. ASSUME NEW t \in Thread, Acquire(t)
      PROVE  IInv'
  BY <1>4 DEF Acquire, MutualExclusion, Pending
<1>5. ASSUME NEW t \in Thread, Reenter(t)
      PROVE  IInv'
  BY <1>5 DEF Reenter, MutualExclusion, Pending
<1>6. ASSUME NEW t \in Thread, Wait(t)
      PROVE  IInv'
  BY <1>6 DEF Wait, MutualExclusion, Pending
<1>7. ASSUME NEW t \in Thread, SpuriousWake(t)
      PROVE  IInv'
  BY <1>7 DEF SpuriousWake, MutualExclusion, Pending
<1>8. ASSUME NEW t \in Thread, Drop(t)
      PROVE  IInv'
  BY <1>8 DEF Drop, MutualExclusion, Pending
<1>9. ASSUME NEW t \in Thread, Release(t)
      PROVE  IInv'
  <2>1. owner = t /\ count = guards[t] + 1
    BY <1>9 DEF Release, MutualExclusion, Pending
  <2>2. TypeOK'
    BY <1>9, <2>1 DEF Release
  <2>3. MutualExclusion'
    BY <1>9, <2>1 DEF Release, MutualExclusion, Pending
  <2> QED BY <2>2, <2>3
<1>10. ASSUME NEW t \in Thread, NotifyOne(t)
       PROVE  IInv'
  BY <1>10 DEF NotifyOne, waiting, MutualExclusion, Pending
<1> QED
  BY <1>1, <1>2, <1>3, <1>4, <1>5, <1>6, <1>7, <1>8, <1>9, <1>10
  DEF Next, Progress

\* The variables of the lock keep their types; the count never underflows.
THEOREM TypeCorrect == Spec => []TypeOK
<1>1. IInv => TypeOK
  BY DEF IInv
<1> QED BY <1>1, InitIInv, NextIInv, PTL DEF Spec

\* No two threads hold guards of the lock at the same time, and the count is
\* that of the owner's guards.
THEOREM Exclusive == Spec => []MutualExclusion
<1>1. IInv => MutualExclusion
  BY DEF IInv
<1> QED BY <1>1, InitIInv, NextIInv, PTL DEF Spec

\* A thread that frees the lock goes on to notify, and a waiter that is woken
\* looks at the owner again, so the witness of NoLostWakeup is never lost.
LEMMA NextWakeup == IInv /\ NoLostWakeup /\ [Next]_vars => NoLostWakeup'
<1> SUFFICES ASSUME IInv, NoLostWakeup, [Next]_vars,
                    owner' = None, NEW w \in Thread, pc'[w] = "wait"
             PROVE  \E t \in Thread : pc'[t] \in {"enter", "loop", "notify"}
    BY DEF NoLostWakeup, waiting
<1> USE ThreadAssumption DEF IInv, TypeOK, PC, Goto, waiting, NoLostWakeup
<1>1. CASE UNCHANGED vars
  BY <1>1 DEF vars
<1>2. ASSUME NEW t \in Thread, Call(t)
      PROVE  \E u \in Thread : pc'[u] \in {"enter", "loop", "notify"}
  BY <1>2 DEF Call
<1>3. ASSUME NEW t \in Thread, LockInner(t)
      PROVE  \E u \in Thread : pc'[u] \in {"enter", "loop", "notify"}
  BY <1>3 DEF LockInner
<1>4. ASSUME NEW t \in Thread, Acquire(t) \/ Reenter(t) \/ Wait(t)
      PROVE  FALSE
  BY <1>4 DEF Acquire, Reenter, Wait
<1>5. ASSUME NEW t \in Thread, SpuriousWake(t)
      PROVE  pc'[t] = "enter"
  BY <1>5 DEF SpuriousWake
<1>6. ASSUME NEW t \in Thread, Drop(t)
      PROVE  \E u \in Thread : pc'[u] \in {"enter", "loop", "notify"}
  BY <1>6 DEF Drop
<1>7. ASSUME NEW t \in Thread, Release(t)
      PROVE  \E u \in Thread : pc'[u] \in {"enter", "loop", "notify"}
  <2>1. owner = t
    BY <1>7 DEF Release, MutualExclusion, Pending
  <2> QED BY <1>7, <2>1 DEF Release
<1>8. ASSUME NEW t \in Thread, NotifyOne(t)
      PROVE  \E u \in Thread : pc'[u] \in {"enter", "loop", "notify"}
  BY <1>8 DEF NotifyOne
<1> QED
  BY <1>1, <1>2, <1>3, <1>4, <1>5, <1>6, <1>7, <1>8 DEF Next, Progress

\* Whenever the lock is free and threads wait for it, a thread is under way
\* that will take it or notify: notify_one after the inner mutex is released
\* loses no wake-up.
THEOREM WakeupsAreKept == Spec => []NoLostWakeup
<1>1. Init => NoLostWakeup
  BY DEF Init, NoLostWakeup, waiting
<1> QED BY <1>1, InitIInv, NextIInv, NextWakeup, PTL DEF Spec

\* A step of the mutex that changes the owner or the count takes or releases
\* the recursive lock; every other step leaves it alone.
THEOREM Implements == Spec => Refinement
<1>1. Init => Abstract!Init
  BY DEF Init, Abstract!Init
<1>2. IInv /\ [Next]_vars => [Abstract!Next]_<<owner, count>>
  <2> SUFFICES ASSUME IInv, [Next]_vars
               PROVE  [Abstract!Next]_<<owner, count>>
      OBVIOUS
  <2> USE ThreadAssumption DEF IInv, TypeOK
  <2>1. CASE UNCHANGED vars
    BY <2>1 DEF vars
  <2>2. ASSUME NEW t \in Thread, Acquire(t) \/ Reenter(t)
        PROVE  Abstract!Acquire(t)
    BY <2>2 DEF Acquire, Reenter, Abstract!Acquire, MutualExclusion
  <2>3. ASSUME NEW t \in Thread, Release(t)
        PROVE  Abstract!Release(t)
    <3>1. owner = t
      BY <2>3 DEF Release, MutualExclusion, Pending
    <3> QED BY <2>3, <3>1 DEF Release, Abstract!Release
  <2>4. ASSUME NEW t \in Thread,
               \/ Call(t) \/ LockInner(t) \/ Wait(t) \/ SpuriousWake(t)
               \/ Drop(t) \/ NotifyOne(t)
        PROVE  UNCHANGED <<owner, count>>
    BY <2>4 DEF Call, LockInner, Wait, SpuriousWake, Drop, NotifyOne
  <2> QED
    BY <2>1, <2>2, <2>3, <2>4 DEF Next, Progress, Abstract!Next
<1> QED
  BY <1>1, <1>2, InitIInv, NextIInv, PTL DEF Spec, Refinement, Abstract!Spec
=============================================================================
