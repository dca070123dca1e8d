--------------------------- MODULE ReentrantMutex --------------------------
(***************************************************************************)
(* The per-VM lock of crates/luaur-rt (sync.rs): a re-entrant mutex made   *)
(* of a std Mutex around an owner and a count, and a Condvar.  The inner   *)
(* mutex and the wait set of the condition variable are explicit, so that  *)
(* a wake-up can come late, be stolen by a thread that barges in, or be    *)
(* spurious.                                                               *)
(***************************************************************************)
EXTENDS Naturals, FiniteSets

CONSTANTS
  Thread,
  None,
  MaxCalls,      \* calls of lock() a thread makes
  MaxSpurious    \* wake-ups of the condition variable without a notify

ASSUME ThreadAssumption == None \notin Thread
ASSUME CallsAssumption == MaxCalls \in Nat /\ MaxSpurious \in Nat

VARIABLES
  inner,         \* who holds the inner std Mutex
  owner, count,  \* LockState
  guards,        \* ReentrantGuards a thread has not dropped
  pc,
  calls, spurious

vars == <<inner, owner, count, guards, pc, calls, spurious>>

\* run      outside of lock() and drop()
\* enter    before the inner mutex is locked in lock()
\* loop     at the head of the loop, inner mutex held
\* wait     in Condvar::wait, inner mutex released
\* drop     before the inner mutex is locked in drop()
\* release  inner mutex held in drop()
\* notify   outermost guard dropped, inner mutex released, not yet notified
PC == {"run", "enter", "loop", "wait", "drop", "release", "notify"}

waiting == {t \in Thread : pc[t] = "wait"}

Goto(t, l) == pc' = [pc EXCEPT ![t] = l]

(***************************************************************************)
(* ReentrantMutex::lock                                                    *)
(***************************************************************************)
Call(t) ==
  /\ pc[t] = "run"
  /\ calls[t] < MaxCalls
  /\ calls' = [calls EXCEPT ![t] = @ + 1]
  /\ Goto(t, "enter")
  /\ UNCHANGED <<inner, owner, count, guards, spurious>>

LockInner(t) ==
  /\ inner = None
  /\ inner' = t
  /\ \/ pc[t] = "enter" /\ Goto(t, "loop")
     \/ pc[t] = "drop" /\ Goto(t, "release")
  /\ UNCHANGED <<owner, count, guards, calls, spurious>>

Acquire(t) ==
  /\ pc[t] = "loop"
  /\ owner = None
  /\ owner' = t
  /\ count' = 1
  /\ guards' = [guards EXCEPT ![t] = @ + 1]
  /\ inner' = None
  /\ Goto(t, "run")
  /\ UNCHANGED <<calls, spurious>>

Reenter(t) ==
  /\ pc[t] = "loop"
  /\ owner = t
  /\ count' = count + 1
  /\ guards' = [guards EXCEPT ![t] = @ + 1]
  /\ inner' = None
  /\ Goto(t, "run")
  /\ UNCHANGED <<owner, calls, spurious>>

\* Mutant: the owner is treated like every other thread.
Wait_owner(t) ==
  /\ pc[t] = "loop"
  /\ owner # None
  /\ inner' = None
  /\ Goto(t, "wait")
  /\ UNCHANGED <<owner, count, guards, calls, spurious>>

\* Condvar::wait releases the inner mutex and joins the wait set in one step.
Wait(t) ==
  /\ pc[t] = "loop"
  /\ owner \notin {None, t}
  /\ inner' = None
  /\ Goto(t, "wait")
  /\ UNCHANGED <<owner, count, guards, calls, spurious>>

SpuriousWake(t) ==
  /\ pc[t] = "wait"
  /\ spurious < MaxSpurious
  /\ spurious' = spurious + 1
  /\ Goto(t, "enter")
  /\ UNCHANGED <<inner, owner, count, guards, calls>>

(***************************************************************************)
(* Drop of a ReentrantGuard                                                *)
(***************************************************************************)
\* Mutant: a guard that is gone already is dropped again.
Drop_again(t) ==
  /\ pc[t] = "run"
  /\ guards' = [guards EXCEPT ![t] = @ - 1]
  /\ Goto(t, "drop")
  /\ UNCHANGED <<inner, owner, count, calls, spurious>>

Drop(t) ==
  /\ pc[t] = "run"
  /\ guards[t] > 0
  /\ guards' = [guards EXCEPT ![t] = @ - 1]
  /\ Goto(t, "drop")
  /\ UNCHANGED <<inner, owner, count, calls, spurious>>

\* Mutant: the first guard dropped frees the lock.
Release_inner(t) ==
  /\ pc[t] = "release"
  /\ count' = 0 /\ owner' = None /\ Goto(t, "notify")
  /\ inner' = None
  /\ UNCHANGED <<guards, calls, spurious>>

\* Mutant: the lock becomes free without a notify.
Release_silent(t) ==
  /\ pc[t] = "release"
  /\ count' = count - 1
  /\ owner' = IF count = 1 THEN None ELSE owner
  /\ Goto(t, "run")
  /\ inner' = None
  /\ UNCHANGED <<guards, calls, spurious>>

Release(t) ==
  /\ pc[t] = "release"
  /\ count' = count - 1
  /\ IF count' = 0 THEN owner' = None /\ Goto(t, "notify")
                   ELSE UNCHANGED owner /\ Goto(t, "run")
  /\ inner' = None
  /\ UNCHANGED <<guards, calls, spurious>>

NotifyOne(t) ==
  /\ pc[t] = "notify"
  /\ \/ /\ waiting = {}
        /\ Goto(t, "run")
     \/ \E w \in waiting : pc' = [pc EXCEPT ![t] = "run", ![w] = "enter"]
  /\ UNCHANGED <<inner, owner, count, guards, calls, spurious>>

(***************************************************************************)
(* The specification.                                                      *)
(***************************************************************************)
Init ==
  /\ inner = None
  /\ owner = None /\ count = 0
  /\ guards = [t \in Thread |-> 0]
  /\ pc = [t \in Thread |-> "run"]
  /\ calls = [t \in Thread |-> 0]
  /\ spurious = 0

Progress(t) ==
  \/ LockInner(t) \/ Acquire(t) \/ Reenter(t) \/ Wait(t)
  \/ Drop(t) \/ Release(t) \/ NotifyOne(t)

Next == \E t \in Thread : Call(t) \/ Progress(t) \/ SpuriousWake(t)

Spec == Init /\ [][Next]_vars

\* Every thread that can take a step of lock() or drop() is scheduled again,
\* and a guard is dropped in the end; nobody has to call lock().
FairSpec == Spec /\ \A t \in Thread : WF_vars(Progress(t))

(***************************************************************************)
(* Properties.                                                             *)
(***************************************************************************)
TypeOK ==
  /\ inner \in Thread \cup {None}
  /\ owner \in Thread \cup {None}
  /\ count \in Nat
  /\ guards \in [Thread -> Nat]
  /\ pc \in [Thread -> PC]
  /\ calls \in [Thread -> Nat]
  /\ spurious \in Nat

\* The lock serialises access to the VM: two threads never hold guards at the
\* same time, and the count is the number of guards whose drop has not
\* finished, so that debug_assert_eq!(st.owner, current) holds in every drop.
Pending(t) == guards[t] + IF pc[t] \in {"drop", "release"} THEN 1 ELSE 0

MutualExclusion ==
  /\ \A t \in Thread : Pending(t) = IF owner = t THEN count ELSE 0
  /\ owner = None => count = 0

\* lock() waits and drop() notifies so that no wake-up is lost: whenever the
\* lock is free and threads wait for it, some thread is on its way to look at
\* the owner again or to notify a waiter.
NoLostWakeup ==
  owner = None /\ waiting # {} =>
    \E t \in Thread : pc[t] \in {"enter", "loop", "notify"}

\* A call of lock() returns, however the wake-ups are distributed: no thread
\* is left in Condvar::wait or in front of the inner mutex for ever.
LockReturns ==
  \A t \in Thread : pc[t] \in {"enter", "loop", "wait"} ~> pc[t] = "run"

\* The two-level lock implements the recursive lock it stands for.
Abstract == INSTANCE RecursiveLock WITH holder <- owner, depth <- count
Refinement == Abstract!Spec
=============================================================================
