------------------------------- MODULE VMState ------------------------------
(***************************************************************************)
(* The life of a VM in crates/luaur-rt under the send feature: who may be  *)
(* inside it, which lock they take, and how it is torn down.               *)
(*                                                                         *)
(* A LuaInner wraps a lua_State.  The owned one closes it when its last    *)
(* handle is dropped; the callback trampoline makes borrowed ones, which   *)
(* never do.  All of them take the lock that vm_lock_registry has for the  *)
(* address of the global_State.  Locks behave like RecursiveLock, which    *)
(* ReentrantMutex implements.                                              *)
(***************************************************************************)
EXTENDS Naturals, Sequences, FiniteSets

CONSTANTS
  Thread,
  Addr,      \* addresses the allocator has for a global_State
  Inner,     \* LuaInners; each is made at most once in a behaviour
  MaxDepth,  \* guards a thread nests
  Escape,    \* where a handle made in a callback may go when it returns
  Nil

ASSUME EscapeAssumption == Escape \subseteq {"thread", "userdata"}
ASSUME IdsAssumption ==
  /\ Nil \notin Inner \cup Addr \cup Thread
  /\ Thread \cap Inner = {}
  /\ MaxDepth \in Nat \ {0}

VARIABLES
  vm,       \* the owned LuaInner whose VM is at an address
  locks,    \* vm_lock_registry: a lock is named by the LuaInner that made it
  controls, \* memory_controls: a control block is named by its VM
  limited,  \* VMs whose allocator points to their control block
  addr, vmof, lock,  \* fields of a LuaInner; Nil until they are known
  handles,  \* strong handles: threads, and VMs whose userdata hold one
  inside,   \* StateRef guards of a thread, the innermost last
  swept,    \* VMs whose lua_close has freed the registry table
  early,    \* history: VMs opened at an address that was being given up
  pc        \* what a thread is in the middle of

lifetime == <<vm, swept, early>>
stores   == <<locks, controls, limited>>
fields   == <<addr, vmof, lock>>
vars == <<lifetime, stores, fields, handles, inside, pc>>

Idle == [op |-> "idle", i |-> Nil]
At(t, op) == pc[t].op = op
Goto(t, op, i) == pc' = [pc EXCEPT ![t] = [op |-> op, i |-> i]]

Teardown == {"drop", "closing", "clear", "unlock", "unregister"}
Ops == {"idle", "lookup", "insert"} \cup Teardown

Alive(v)     == vm[addr[v]] = v
Frames(t)    == {inside[t][k] : k \in 1..Len(inside[t])}
InVM(t)      == {vmof[i] : i \in Frames(t)}
Borrowed     == {i \in Inner : vmof[i] \notin {Nil, i}}
BorrowedOf(v) == {i \in Borrowed : vmof[i] = v}

\* lua_close runs the destructors of userdata, which may hold handles.
InDestructor(t) == At(t, "closing") /\ "userdata" \in Escape

\* The lock l can be taken by t: RecursiveLock!Acquire.
Free(l, t) == \A u \in Thread \ {t} : \A i \in Frames(u) : lock[i] # l

Push(t, i) == inside' = [inside EXCEPT ![t] = Append(@, i)]
Pop(t)     == inside' = [inside EXCEPT ![t] = SubSeq(@, 1, Len(@) - 1)]

(***************************************************************************)
(* Making a LuaInner.                                                      *)
(***************************************************************************)
\* lua_close has given the address back, and the thread that closes has still
\* to clear the stores that have it as a key.
GivingUp(a) ==
  \E t \in Thread : pc[t].op \in {"clear", "unlock", "unregister"} /\ addr[pc[t].i] = a

\* lua_l_newstate: the allocator may return any address that is free
New(t, i, a) ==
  /\ pc[t] = Idle
  /\ vmof[i] = Nil
  /\ vm[a] = Nil
  /\ vm' = [vm EXCEPT ![a] = i]
  /\ early' = IF GivingUp(a) THEN early \cup {i} ELSE early
  /\ addr' = [addr EXCEPT ![i] = a]
  /\ vmof' = [vmof EXCEPT ![i] = i]
  /\ Goto(t, "lookup", i)
  /\ UNCHANGED <<swept, stores, lock, handles, inside>>

\* The trampoline of a callback: Lua::from_borrowed of the calling state
Borrow(t, i) ==
  /\ pc[t] = Idle
  /\ vmof[i] = Nil
  /\ inside[t] # <<>>
  /\ LET j == inside[t][Len(inside[t])]
     IN /\ Alive(vmof[j])
        /\ addr' = [addr EXCEPT ![i] = addr[j]]
        /\ vmof' = [vmof EXCEPT ![i] = vmof[j]]
  /\ Goto(t, "lookup", i)
  /\ UNCHANGED <<lifetime, stores, lock, handles, inside>>

Made(t, i, l) ==
  /\ lock' = [lock EXCEPT ![i] = l]
  /\ handles' = [handles EXCEPT ![i] = {t}]
  /\ pc' = [pc EXCEPT ![t] = Idle]

\* Mutant: a LuaInner gets a lock of its own.
LockForRead_own(t) ==
  LET i == pc[t].i
  IN /\ At(t, "lookup")
     /\ Made(t, i, i)
     /\ UNCHANGED <<lifetime, stores, addr, vmof, inside>>

\* lock_for under the read lock of the registry
LockForRead(t) ==
  LET i == pc[t].i
  IN /\ At(t, "lookup")
     /\ \/ /\ locks[addr[i]] # Nil
           /\ Made(t, i, locks[addr[i]])
        \/ /\ locks[addr[i]] = Nil
           /\ Goto(t, "insert", i)
           /\ UNCHANGED <<lock, handles>>
     /\ UNCHANGED <<lifetime, stores, addr, vmof, inside>>

\* Mutant: what the map held before the insertion is returned.
LockForInsert_old(t) ==
  LET i == pc[t].i
  IN /\ At(t, "insert")
     /\ locks' = IF locks[addr[i]] = Nil THEN [locks EXCEPT ![addr[i]] = i]
                                         ELSE locks
     /\ Made(t, i, locks[addr[i]])
     /\ UNCHANGED <<lifetime, controls, limited, addr, vmof, inside>>

\* and, for a key that was not there, under its write lock
LockForInsert(t) ==
  LET i == pc[t].i
  IN /\ At(t, "insert")
     /\ locks' = IF locks[addr[i]] = Nil THEN [locks EXCEPT ![addr[i]] = i]
                                         ELSE locks
     /\ Made(t, i, locks'[addr[i]])
     /\ UNCHANGED <<lifetime, controls, limited, addr, vmof, inside>>

(***************************************************************************)
(* Handles.                                                                *)
(***************************************************************************)
\* A clone is sent to thread u, or u upgrades a WeakLua.
Share(u, i) ==
  /\ pc[u] = Idle
  /\ handles[i] \cap Thread # {} /\ u \notin handles[i]
  /\ i \in Borrowed => "thread" \in Escape
  /\ handles' = [handles EXCEPT ![i] = @ \cup {u}]
  /\ UNCHANGED <<lifetime, stores, fields, inside, pc>>

\* A callback moves a handle into a userdata or closure of its VM ...
Stash(t, i) ==
  /\ "userdata" \in Escape
  /\ pc[t] = Idle
  /\ i \in Borrowed /\ t \in handles[i] /\ i \notin Frames(t)
  /\ vmof[i] \in InVM(t)
  /\ handles' = [handles EXCEPT ![i] = (@ \ {t}) \cup {vmof[i]}]
  /\ UNCHANGED <<lifetime, stores, fields, inside, pc>>

\* ... whose destructor gets it back, in a sweep or in lua_close.
Destruct(t, i) ==
  /\ pc[t] = Idle \/ InDestructor(t)
  /\ i \in Borrowed /\ vmof[i] \in handles[i]
  /\ vmof[i] \in InVM(t)
  /\ handles' = [handles EXCEPT ![i] = (@ \ {vmof[i]}) \cup {t}]
  /\ UNCHANGED <<lifetime, stores, fields, inside, pc>>

\* Mutant: the lock is not taken.
Enter_unlocked(t, i) ==
  /\ pc[t] = Idle \/ InDestructor(t)
  /\ t \in handles[i]
  /\ Len(inside[t]) < MaxDepth
  /\ Push(t, i)
  /\ UNCHANGED <<lifetime, stores, fields, handles, pc>>

\* lock_state: any operation on the VM, LuaRef::drop too
Enter(t, i) ==
  /\ pc[t] = Idle \/ InDestructor(t)
  /\ t \in handles[i]
  /\ Free(lock[i], t)
  /\ Len(inside[t]) < MaxDepth
  /\ Push(t, i)
  /\ UNCHANGED <<lifetime, stores, fields, handles, pc>>

\* The guard is dropped.  Unless handles may escape to the thread, those made
\* in a callback are gone when the thread leaves their VM.
Leave(t) ==
  /\ pc[t] = Idle \/ (At(t, "closing") /\ inside[t][Len(inside[t])] # pc[t].i)
  /\ inside[t] # <<>>
  /\ Pop(t)
  /\ \/ "thread" \in Escape
     \/ \A i \in Borrowed : t \in handles[i] =>
          vmof[i] \in {vmof[inside'[t][k]] : k \in 1..Len(inside'[t])}
  /\ UNCHANGED <<lifetime, stores, fields, handles, pc>>

\* The first limit installs a control block; later ones only change its cap.
set_memory_limit(t, i) ==
  /\ pc[t] = Idle
  /\ t \in handles[i]
  /\ Free(lock[i], t)
  /\ vm[addr[i]] = vmof[i]
  /\ controls[addr[i]] = Nil
  /\ controls' = [controls EXCEPT ![addr[i]] = vmof[i]]
  /\ limited' = limited \cup {vmof[i]}
  /\ UNCHANGED <<lifetime, locks, fields, handles, inside, pc>>

(***************************************************************************)
(* Dropping a handle; the last one of an owned LuaInner closes the VM.     *)
(***************************************************************************)
\* Mutant: a borrowed LuaInner closes the state as well.
DropHandle_owned(t, i) ==
  /\ t \in handles[i] /\ i \notin Frames(t)
  /\ pc[t] = Idle
  /\ handles' = [handles EXCEPT ![i] = @ \ {t}]
  /\ IF handles'[i] = {} THEN Goto(t, "drop", i) ELSE UNCHANGED pc
  /\ UNCHANGED <<lifetime, stores, fields, inside>>

DropHandle(t, i) ==
  /\ t \in handles[i] /\ i \notin Frames(t)
  /\ pc[t] = Idle \/ (InDestructor(t) /\ i \in Borrowed)
  /\ handles' = [handles EXCEPT ![i] = @ \ {t}]
  /\ IF handles'[i] = {} /\ i \notin Borrowed
     THEN Goto(t, "drop", i)
     ELSE UNCHANGED pc
  /\ UNCHANGED <<lifetime, stores, fields, inside>>

\* Mutant: the control block goes with the other stores, before lua_close.
DropLock_early(t) ==
  LET i == pc[t].i
  IN /\ At(t, "drop")
     /\ Free(lock[i], t)
     /\ Push(t, i)
     /\ controls' = [controls EXCEPT ![addr[i]] = Nil]
     /\ Goto(t, "closing", i)
     /\ UNCHANGED <<lifetime, locks, limited, fields, handles>>

\* the lock is taken, the stores keyed by the live state are cleared
DropLock(t) ==
  LET i == pc[t].i
  IN /\ At(t, "drop")
     /\ Free(lock[i], t)
     /\ Push(t, i)
     /\ Goto(t, "closing", i)
     /\ UNCHANGED <<lifetime, stores, fields, handles>>

\* lua_close frees the objects in the order of their pages, and runs the
\* destructors of userdata as it meets them: the registry may go first
FreeRegistry(t) ==
  /\ At(t, "closing") /\ pc[t].i \notin swept
  /\ inside[t][Len(inside[t])] = pc[t].i
  /\ swept' = swept \cup {pc[t].i}
  /\ UNCHANGED <<vm, early, stores, fields, handles, inside, pc>>

\* and gives the global_State back to the allocator
Close(t) ==
  LET i == pc[t].i
  IN /\ At(t, "closing") /\ i \in swept
     /\ inside[t][Len(inside[t])] = i
     /\ \A b \in BorrowedOf(i) :
          /\ i \notin handles[b]
          /\ t \in handles[b] => "thread" \in Escape
     /\ vm' = [vm EXCEPT ![addr[i]] = Nil]
     /\ Goto(t, "clear", i)
     /\ UNCHANGED <<swept, early, stores, fields, handles, inside>>

clear_memory(t) ==
  LET i == pc[t].i
  IN /\ At(t, "clear")
     /\ controls' = [controls EXCEPT ![addr[i]] = Nil]
     /\ Goto(t, "unlock", i)
     /\ UNCHANGED <<lifetime, locks, limited, fields, handles, inside>>

\* Mutant: the key stays in the registry.
DropGuard_last(t) ==
  /\ At(t, "unlock")
  /\ Pop(t)
  /\ pc' = [pc EXCEPT ![t] = Idle]
  /\ UNCHANGED <<lifetime, stores, fields, handles>>

DropGuard(t) ==
  /\ At(t, "unlock")
  /\ Pop(t)
  /\ Goto(t, "unregister", pc[t].i)
  /\ UNCHANGED <<lifetime, stores, fields, handles>>

unregister(t) ==
  /\ At(t, "unregister")
  /\ locks' = [locks EXCEPT ![addr[pc[t].i]] = Nil]
  /\ pc' = [pc EXCEPT ![t] = Idle]
  /\ UNCHANGED <<lifetime, controls, limited, fields, handles, inside>>

(***************************************************************************)
(* The specification.                                                      *)
(***************************************************************************)
Init ==
  /\ vm = [a \in Addr |-> Nil]
  /\ locks = [a \in Addr |-> Nil]
  /\ controls = [a \in Addr |-> Nil]
  /\ limited = {}
  /\ addr = [i \in Inner |-> Nil]
  /\ vmof = [i \in Inner |-> Nil]
  /\ lock = [i \in Inner |-> Nil]
  /\ handles = [i \in Inner |-> {}]
  /\ inside = [t \in Thread |-> <<>>]
  /\ swept = {} /\ early = {}
  /\ pc = [t \in Thread |-> Idle]

\* lua_close visits every object once and runs every destructor to its end.
CloseStep(t) ==
  \/ FreeRegistry(t) \/ Close(t)
  \/ \E i \in Inner : At(t, "closing") /\ (Destruct(t, i) \/ DropHandle(t, i))

\* What a thread does by itself once it has begun.
Progress(t) ==
  \/ LockForRead(t) \/ LockForInsert(t)
  \/ Leave(t)
  \/ DropLock(t) \/ clear_memory(t) \/ DropGuard(t) \/ unregister(t)

Step(t) ==
  \/ Progress(t)
  \/ CloseStep(t)
  \/ \E i \in Inner :
       \/ \E a \in Addr : New(t, i, a)
       \/ Borrow(t, i)
       \/ Share(t, i)
       \/ Stash(t, i)
       \/ Destruct(t, i)
       \/ Enter(t, i)
       \/ set_memory_limit(t, i)
       \/ DropHandle(t, i)

Next == \E t \in Thread : Step(t)

Spec == Init /\ [][Next]_vars

\* A thread goes on with what it began, and its guards are dropped some time.
\* Destructors take and drop guards inside lua_close, which disables and
\* enables its steps again, but there are finitely many of them.
FairSpec ==
  Spec /\ \A t \in Thread : WF_vars(Progress(t)) /\ SF_vars(CloseStep(t))

(***************************************************************************)
(* Properties.                                                             *)
(***************************************************************************)
\* The type invariant; a handle exists only once its LuaInner has a lock.
TypeOK ==
  /\ vm \in [Addr -> Inner \cup {Nil}]
  /\ locks \in [Addr -> Inner \cup {Nil}]
  /\ controls \in [Addr -> Inner \cup {Nil}]
  /\ limited \subseteq Inner
  /\ addr \in [Inner -> Addr \cup {Nil}]
  /\ vmof \in [Inner -> Inner \cup {Nil}]
  /\ lock \in [Inner -> Inner \cup {Nil}]
  /\ handles \in [Inner -> SUBSET (Thread \cup Inner)]
  /\ inside \in [Thread -> Seq(Inner)]
  /\ swept \cup early \subseteq Inner
  /\ pc \in [Thread -> [op : Ops, i : Inner \cup {Nil}]]
  /\ \A i \in Inner : handles[i] # {} => lock[i] # Nil

\* "Concurrent access through shared handles is serialized": two threads are
\* never inside one VM, whichever LuaInner, owned or borrowed, they entered
\* it by, and whether one of them is tearing it down.  The VMs of early are
\* the only ones of which this cannot be said.
Serialized ==
  \A t, u \in Thread : t # u =>
    \A v \in InVM(t) \cap InVM(u) : ~Alive(v) \/ v \in early

\* The wrappers of the VM v have one lock.
SameLock(v) ==
  \A i, j \in Inner :
    lock[i] # Nil /\ lock[j] # Nil /\ vmof[i] = v /\ vmof[j] = v => lock[i] = lock[j]

\* vm_lock_registry: "gives every wrapper of the same VM the same lock".  A
\* teardown that is not over takes the lock of no VM that was there before it
\* or comes after it: only one opened at the address in the meantime suffers.
OneLock == \A v \in Inner \ early : vmof[v] = v /\ Alive(v) => SameLock(v)

\* What the documentation says, without that exception.
EveryVMOneLock == \A v \in Inner : vmof[v] = v /\ Alive(v) => SameLock(v)

\* clear_memory: the control block that limited_alloc reads belongs to the
\* VM for as long as the VM is open, again but for VMs opened at an address
\* that was being given up.
ControlBlock ==
  \A v \in limited \ early : Alive(v) => controls[addr[v]] = v

EveryVMControlBlock ==
  \A v \in limited : Alive(v) => controls[addr[v]] = v

\* LuaRef: "keeps both the value reachable (registry slot) and the VM alive":
\* no guard is held on a VM that is closed, or whose registry is gone, except
\* by the teardown itself.
NoUseAfterClose ==
  \A t \in Thread : \A i \in Frames(t) :
    (Alive(vmof[i]) /\ vmof[i] \notin swept) \/ pc[t].i = i

\* A guard taken through an owned LuaInner keeps the VM open and its registry
\* there, whatever borrowed wrappers escaped: only the teardown of that very
\* LuaInner is inside a VM that closes.
OwnersKeepAlive ==
  \A t \in Thread : \A i \in Frames(t) \ Borrowed :
    (Alive(i) /\ i \notin swept) \/ pc[t].i = i

\* unregister: after a VM is dropped its key leaves the registry again, so
\* that the address can serve a new VM.
KeyUnregistered ==
  \A t \in Thread, i \in Inner :
    pc[t] = [op |-> "closing", i |-> i] ~> \A a \in Addr : locks[a] # lock[i]
=============================================================================
