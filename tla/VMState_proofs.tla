--------------------------- MODULE VMState_proofs ---------------------------
(***************************************************************************)
(* Theorems about VMState for any number of threads, VMs and wrappers, for *)
(* handles that escape anywhere and an allocator that returns any address  *)
(* that is free, the ones that are being given up too.                     *)
(***************************************************************************)
EXTENDS VMState, TLAPS

\* Whoever is at an address knows it.
Owners ==
  \A a \in Addr : vm[a] # Nil => vmof[vm[a]] = vm[a] /\ addr[vm[a]] = a

\* A LuaInner that was not made has nothing, a made one is at the address of
\* its VM.
Wrappers ==
  \A i \in Inner :
    /\ vmof[i] = Nil => lock[i] = Nil /\ handles[i] = {} /\ i \notin limited
    /\ vmof[i] # Nil =>
         vmof[vmof[i]] = vmof[i] /\ addr[i] = addr[vmof[i]] /\ addr[i] \in Addr

\* A strong handle of the owner keeps the VM open.
OwnedAlive == \A i \in Inner : vmof[i] = i /\ handles[i] # {} => Alive(i)

\* The lock of a LuaInner is the registered one while its VM is open,
Registered ==
  \A i \in Inner : lock[i] # Nil /\ Alive(vmof[i]) /\ vmof[i] \notin early =>
    locks[addr[i]] = lock[i]

\* because nobody gives up the address of a VM that did not open too early.
Undisturbed ==
  \A v \in Inner \ early : vmof[v] = v /\ Alive(v) => ~GivingUp(addr[v])

\* What is known of the LuaInner a thread is making or tearing down.
Begun ==
  \A t \in Thread : pc[t] # Idle =>
    /\ pc[t].i \in Inner /\ pc[t].op # "idle"
    /\ vmof[pc[t].i] # Nil /\ handles[pc[t].i] = {}
    /\ pc[t].op \in {"lookup", "insert"} =>
         lock[pc[t].i] = Nil /\ (vmof[pc[t].i] = pc[t].i => Alive(pc[t].i))
    /\ pc[t].op \in Teardown => lock[pc[t].i] # Nil /\ vmof[pc[t].i] = pc[t].i
    /\ pc[t].op \in {"drop", "closing"} => Alive(pc[t].i)

\* No two threads work on one LuaInner.
Distinct ==
  \A t, u \in Thread : t # u /\ pc[t] # Idle /\ pc[u] # Idle => pc[t].i # pc[u].i

\* Guards are guards of a lock, which one thread has.
Held ==
  \A t \in Thread : \A i \in Frames(t) :
    /\ lock[i] # Nil
    /\ \A u \in Thread \ {t} : \A j \in Frames(u) : lock[i] # lock[j]

\* The inductive invariant.
IInv ==
  /\ TypeOK /\ Owners /\ Wrappers /\ OwnedAlive /\ Registered /\ Undisturbed
  /\ Begun /\ Distinct /\ Held /\ ControlBlock

\* Taking a guard adds one frame.
LEMMA PushFrames ==
  ASSUME TypeOK, NEW t \in Thread, NEW i \in Inner, Push(t, i)
  PROVE  /\ inside' \in [Thread -> Seq(Inner)]
         /\ \A u \in Thread : Frames(u)' = IF u = t THEN Frames(u) \cup {i} ELSE Frames(u)
<1>1. inside'[t] = Append(inside[t], i) /\ inside[t] \in Seq(Inner)
  BY DEF Push, TypeOK
<1>2. Frames(t)' = Frames(t) \cup {i}
  BY <1>1 DEF Frames
<1>3. ASSUME NEW u \in Thread, u # t PROVE Frames(u)' = Frames(u)
  <2>1. inside'[u] = inside[u]
    BY <1>3 DEF Push, TypeOK
  <2> QED BY <2>1 DEF Frames
<1>4. inside' \in [Thread -> Seq(Inner)]
  BY <1>1 DEF Push, TypeOK
<1> QED BY <1>2, <1>3, <1>4

\* Dropping a guard adds no frame.
LEMMA PopFrames ==
  ASSUME TypeOK, NEW t \in Thread, Pop(t)
  PROVE  /\ inside' \in [Thread -> Seq(Inner)]
         /\ \A u \in Thread : Frames(u)' \subseteq Frames(u)
<1> DEFINE s == inside[t]
<1>1. s \in Seq(Inner) /\ Len(s) \in Nat
  BY DEF TypeOK
<1>2. inside'[t] = SubSeq(s, 1, Len(s) - 1)
  BY DEF Pop, TypeOK
<1>3. /\ SubSeq(s, 1, Len(s) - 1) \in Seq(Inner)
      /\ \A k \in 1..Len(SubSeq(s, 1, Len(s) - 1)) :
           k \in 1..Len(s) /\ SubSeq(s, 1, Len(s) - 1)[k] = s[k]
  BY <1>1
<1>4. Frames(t)' \subseteq Frames(t)
  BY <1>2, <1>3 DEF Frames
<1>5. ASSUME NEW u \in Thread, u # t PROVE Frames(u)' = Frames(u)
  <2>1. inside'[u] = inside[u]
    BY <1>5 DEF Pop, TypeOK
  <2> QED BY <2>1 DEF Frames
<1>6. inside' \in [Thread -> Seq(Inner)]
  BY <1>3 DEF Pop, TypeOK
<1> QED BY <1>4, <1>5, <1>6

\* A step that opens and closes no VM and starts to give up no address.
LEMMA StillUndisturbed ==
  ASSUME IInv, UNCHANGED <<vm, early>>,
         \A k \in Inner : /\ vmof[k] # Nil => vmof'[k] = vmof[k] /\ addr'[k] = addr[k]
                          /\ vmof'[k] = k => vmof[k] = k,
         \A u \in Thread : pc'[u].op \in {"clear", "unlock", "unregister"} =>
            pc[u].op \in {"clear", "unlock", "unregister"} /\ pc'[u].i = pc[u].i
  PROVE  Undisturbed'
<1> SUFFICES ASSUME NEW v \in Inner, v \notin early, vmof'[v] = v, Alive(v)',
                    NEW u \in Thread, pc'[u].op \in {"clear", "unlock", "unregister"},
                    addr'[pc'[u].i] = addr'[v]
             PROVE  FALSE
  BY DEF Undisturbed, GivingUp
<1>1. vmof[v] = v /\ addr'[v] = addr[v] /\ Alive(v)
  BY IdsAssumption DEF Alive
<1>2. pc[u].i \in Inner /\ vmof[pc[u].i] # Nil /\ pc[u].op \in {"clear", "unlock", "unregister"}
  BY DEF IInv, Begun, Idle
<1>3. addr[pc[u].i] = addr[v]
  BY <1>1, <1>2
<1> QED BY <1>1, <1>2, <1>3 DEF IInv, Undisturbed, GivingUp

\* A LuaInner is finished with the lock l, which is or becomes registered.
LEMMA MadeKeeps ==
  ASSUME IInv, NEW t \in Thread, NEW l \in Inner, pc[t].op \in {"lookup", "insert"},
         Made(t, pc[t].i, l), locks' \in [Addr -> Inner \cup {Nil}],
         locks'[addr[pc[t].i]] = l,
         \A a \in Addr : locks[a] # Nil => locks'[a] = locks[a],
         UNCHANGED <<lifetime, controls, limited, addr, vmof, inside>>
  PROVE  IInv'
<1> USE IdsAssumption DEF IInv, Idle, lifetime
<1> DEFINE i == pc[t].i
<1>1. /\ i \in Inner /\ vmof[i] # Nil /\ lock[i] = Nil /\ addr[i] \in Addr
      /\ vmof[i] = i => Alive(i)
  BY DEF Begun, Wrappers
<1>2. /\ pc'[t] = Idle
      /\ \A u \in Thread \ {t} : pc'[u] = pc[u] /\ (pc[u] # Idle => pc[u].i # i)
  BY DEF Made, TypeOK, Distinct
<1>3. /\ lock'[i] = l /\ handles'[i] = {t}
      /\ \A k \in Inner \ {i} : lock'[k] = lock[k] /\ handles'[k] = handles[k]
  BY <1>1 DEF Made, TypeOK
<1>4. TypeOK'
  <2>1. /\ lock' \in [Inner -> Inner \cup {Nil}]
        /\ handles' \in [Inner -> SUBSET (Thread \cup Inner)]
    BY <1>1 DEF Made, TypeOK
  <2>2. pc' \in [Thread -> [op : Ops, i : Inner \cup {Nil}]]
    BY DEF Made, TypeOK, Ops
  <2>3. \A k \in Inner : handles'[k] # {} => lock'[k] # Nil
    BY <1>3 DEF TypeOK
  <2> QED BY <2>1, <2>2, <2>3 DEF TypeOK
<1>5. Owners' /\ ControlBlock'
  BY DEF Owners, ControlBlock, Alive
<1>6. Wrappers'
  BY <1>1, <1>3 DEF Wrappers
<1>7. OwnedAlive'
  BY <1>1, <1>3 DEF OwnedAlive, Alive
<1>8. Registered'
  <2>1. ASSUME NEW k \in Inner, k # i, lock[k] # Nil, Alive(vmof[k]), vmof[k] \notin early
        PROVE  locks'[addr[k]] = lock[k]
    BY <2>1 DEF Registered, Wrappers, TypeOK
  <2> QED BY <1>3, <2>1 DEF Registered, Alive
<1>9. Begun' /\ Undisturbed'
  <2>1. Begun'
    BY <1>2, <1>3 DEF Begun, Alive
  <2> QED BY <1>2, <2>1, StillUndisturbed
<1>10. Distinct'
  BY <1>2 DEF Distinct
<1>11. Held'
  <2>1. \A u \in Thread : Frames(u)' = Frames(u) /\ i \notin Frames(u) /\ Frames(u) \subseteq Inner
    BY <1>1 DEF Frames, Held, TypeOK
  <2> QED BY <1>3, <2>1 DEF Held
<1> QED BY <1>4, <1>5, <1>6, <1>7, <1>8, <1>9, <1>10, <1>11

\* Every step of a thread keeps the invariant.
LEMMA StepKeeps == ASSUME IInv, NEW t \in Thread, Step(t) PROVE IInv'
<1> USE IdsAssumption DEF IInv, Idle, At, Goto, lifetime, stores, fields, Borrowed
<1>1. ASSUME NEW i \in Inner, NEW a \in Addr, New(t, i, a) PROVE IInv'
  <2>0. \A u \in Thread : Frames(u)' = Frames(u)
    BY <1>1 DEF New, Frames
  <2>1. TypeOK'
    BY <1>1 DEF New, TypeOK, Ops, Teardown, Wrappers, Begun
  <2>2. Owners'
    BY <1>1 DEF New, TypeOK, Owners, Wrappers
  <2>3. Wrappers'
    BY <1>1 DEF New, TypeOK, Wrappers, Begun, Held, Teardown
  <2>4. OwnedAlive'
    BY <1>1
    DEF New, TypeOK, Wrappers, OwnedAlive, Owners, Begun, Alive, Distinct, Teardown
  <2>5. Registered'
    BY <1>1
    DEF New, TypeOK, Wrappers, Owners, Registered, Alive, Begun, Teardown
  <2>6. Begun'
    BY <1>1
    DEF New, TypeOK, Wrappers, Owners, OwnedAlive, Registered, Begun, Distinct,
        Alive, Teardown
  <2>7. Distinct'
    BY <1>1 DEF New, TypeOK, Wrappers, Begun, Distinct, Alive, Teardown
  <2>8. ControlBlock'
    <3>1. SUFFICES ASSUME NEW v \in limited, v \notin early', Alive(v)' PROVE controls'[addr'[v]] = v
      BY <1>1 DEF New, ControlBlock
    <3>2. v \in Inner /\ v # i /\ addr[v] \in Addr
      BY <1>1, <3>1 DEF New, TypeOK, Wrappers
    <3>3. addr'[v] = addr[v] /\ Alive(v) /\ v \notin early
      BY <1>1, <3>1, <3>2 DEF New, TypeOK, Alive
    <3> QED BY <1>1, <3>3 DEF New, ControlBlock
  <2>9. Held'
    BY <1>1, <2>0 DEF New, Held
  <2>10. Undisturbed'
    <3> SUFFICES ASSUME NEW v \in Inner, v \notin early', vmof'[v] = v, Alive(v)',
                        NEW u \in Thread, pc'[u].op \in {"clear", "unlock", "unregister"},
                        addr'[pc'[u].i] = addr'[v]
                 PROVE  FALSE
      BY DEF Undisturbed, GivingUp
    <3>1. u # t /\ pc'[u] = pc[u] /\ pc[u].i \in Inner /\ vmof[pc[u].i] # Nil
      BY <1>1 DEF New, TypeOK, Begun
    <3>2. pc[u].i # i /\ addr'[pc[u].i] = addr[pc[u].i]
      BY <1>1, <3>1 DEF New, TypeOK
    <3>3. CASE v = i
      <4>1. ~GivingUp(a) /\ addr'[i] = a
        BY <1>1, <3>3 DEF New, TypeOK
      <4> QED BY <3>1, <3>2, <3>3, <4>1 DEF GivingUp
    <3>4. CASE v # i
      <4>1. vmof[v] = v /\ addr'[v] = addr[v] /\ v \notin early
        BY <1>1, <3>4 DEF New, TypeOK
      <4>2. Alive(v)
        BY <1>1, <3>4, <4>1 DEF New, TypeOK, Alive
      <4> QED BY <3>1, <3>2, <4>1, <4>2 DEF Undisturbed, GivingUp
    <3> QED BY <3>3, <3>4
  <2> QED BY <2>1, <2>2, <2>3, <2>4, <2>5, <2>6, <2>7, <2>8, <2>9, <2>10
<1>2. ASSUME NEW i \in Inner, Borrow(t, i) PROVE IInv'
  <2>0. \A u \in Thread : Frames(u)' = Frames(u)
    BY <1>2 DEF Borrow, Frames
  <2>1. PICK j \in Inner :
          /\ vmof[j] # Nil /\ vmof[vmof[j]] = vmof[j]
          /\ addr' = [addr EXCEPT ![i] = addr[j]]
          /\ vmof' = [vmof EXCEPT ![i] = vmof[j]]
    <3> DEFINE j == inside[t][Len(inside[t])]
    <3>1. j \in Frames(t) /\ j \in Inner
      BY <1>2 DEF Borrow, Frames, TypeOK
    <3>2. vmof[j] # Nil /\ vmof[vmof[j]] = vmof[j]
      BY <3>1 DEF Held, Wrappers
    <3> QED BY <1>2, <3>1, <3>2 DEF Borrow
  <2>2. TypeOK'
    BY <1>2, <2>1 DEF Borrow, TypeOK, Ops, Teardown, Wrappers, Begun
  <2>3. Owners'
    BY <1>2, <2>1 DEF Borrow, TypeOK, Owners, Wrappers
  <2>4. Wrappers'
    BY <1>2, <2>1 DEF Borrow, TypeOK, Wrappers, Begun, Held, Teardown
  <2>5. OwnedAlive'
    BY <1>2, <2>1
    DEF Borrow, TypeOK, Wrappers, OwnedAlive, Owners, Begun, Alive, Distinct,
        Teardown
  <2>6. Registered'
    <3>1. SUFFICES ASSUME NEW k \in Inner, lock'[k] # Nil, Alive(vmof[k])', vmof'[k] \notin early'
                   PROVE  locks'[addr'[k]] = lock'[k]
      BY DEF Registered
    <3>2. lock[k] # Nil /\ vmof[k] # Nil /\ k # i /\ vmof[k] # i
      BY <1>2, <3>1 DEF Borrow, Wrappers
    <3>3. vmof[k] \in Inner /\ vmof'[k] = vmof[k] /\ addr'[k] = addr[k]
      BY <2>1, <3>2 DEF TypeOK
    <3>4. addr'[vmof[k]] = addr[vmof[k]]
      BY <2>1, <3>2, <3>3 DEF TypeOK
    <3>5. Alive(vmof[k])
      BY <1>2, <3>1, <3>3, <3>4 DEF Borrow, Alive
    <3> QED BY <1>2, <3>1, <3>2, <3>3, <3>5 DEF Borrow, Registered
  <2>7. Begun'
    <3>1. ASSUME NEW u \in Thread, u # t, pc[u] # Idle
          PROVE  pc'[u] = pc[u] /\ pc[u].i \in Inner /\ pc[u].i # i
      BY <1>2, <3>1 DEF Borrow, Begun, TypeOK
    <3>2. \A k \in Inner \ {i} : vmof'[k] = vmof[k] /\ addr'[k] = addr[k]
      BY <2>1 DEF TypeOK
    <3>3. /\ pc'[t] = [op |-> "lookup", i |-> i]
          /\ vmof'[i] = vmof[j] /\ vmof[j] # i
          /\ lock[i] = Nil /\ handles[i] = {}
      BY <1>2, <2>1 DEF Borrow, TypeOK, Wrappers
    <3>4. UNCHANGED <<vm, lock, locks, handles>>
      BY <1>2 DEF Borrow
    <3> QED
      BY <1>2, <2>1, <3>1, <3>2, <3>3, <3>4
      DEF Begun, Alive, Borrow, Teardown, TypeOK
  <2>8. Distinct'
    <3>1. ASSUME NEW u \in Thread, u # t, pc[u] # Idle
          PROVE  pc'[u] = pc[u] /\ pc[u].i \in Inner \ {i}
      BY <1>2, <3>1 DEF Borrow, Begun, TypeOK
    <3>2. \A k \in Inner \ {i} : addr'[k] = addr[k]
      BY <2>1 DEF TypeOK
    <3>3. pc'[t] = [op |-> "lookup", i |-> i] /\ \A u \in Thread \ {t} : pc'[u] = pc[u]
      BY <1>2 DEF Borrow, TypeOK
    <3> QED BY <3>1, <3>2, <3>3 DEF Distinct
  <2>9. ControlBlock'
    BY <1>2, <2>1
    DEF Borrow, TypeOK, Wrappers, Owners, ControlBlock, Alive, Begun,
        Teardown
  <2>10. Held'
    BY <1>2, <2>0 DEF Borrow, Held
  <2>11. Undisturbed'
    <3>1. \A k \in Inner : k # i => vmof'[k] = vmof[k] /\ addr'[k] = addr[k]
      BY <2>1 DEF TypeOK
    <3>2. vmof[i] = Nil /\ vmof'[i] = vmof[j] /\ vmof[j] # i
      BY <1>2, <2>1 DEF Borrow, TypeOK
    <3>3. \A u \in Thread : pc'[u] = IF u = t THEN [op |-> "lookup", i |-> i] ELSE pc[u]
      BY <1>2 DEF Borrow, TypeOK
    <3> QED BY <1>2, <3>1, <3>2, <3>3, StillUndisturbed DEF Borrow
  <2> QED BY <2>2, <2>3, <2>4, <2>5, <2>6, <2>7, <2>8, <2>9, <2>10, <2>11
<1>3. ASSUME LockForRead(t) PROVE IInv'
  <2>1. pc[t].i \in Inner /\ addr[pc[t].i] \in Addr
    BY <1>3 DEF LockForRead, Begun, Wrappers
  <2>2. CASE locks[addr[pc[t].i]] # Nil
    <3>1. locks[addr[pc[t].i]] \in Inner
      BY <2>1, <2>2 DEF TypeOK
    <3> QED
      BY <1>3, <2>2, <3>1, MadeKeeps DEF LockForRead, TypeOK
  <2>3. CASE locks[addr[pc[t].i]] = Nil
    <3>1. /\ pc' = [pc EXCEPT ![t] = [op |-> "insert", i |-> pc[t].i]]
          /\ pc[t].op = "lookup"
          /\ UNCHANGED <<lifetime, stores, fields, handles, inside>>
      BY <1>3, <2>3 DEF LockForRead
    <3>2. \A u \in Thread : Frames(u)' = Frames(u)
      BY <3>1 DEF Frames
    <3>3. TypeOK' /\ Begun'
      BY <2>1, <3>1 DEF TypeOK, Ops, Begun, Teardown, Alive
    <3>4. Distinct'
      BY <3>1 DEF TypeOK, Distinct
    <3>5. Owners' /\ Wrappers' /\ OwnedAlive' /\ Registered' /\ Held' /\ ControlBlock'
      BY <3>1, <3>2
      DEF Owners, Wrappers, OwnedAlive, Registered, Held, ControlBlock, Alive
    <3>6. Undisturbed'
      BY <3>1, StillUndisturbed DEF TypeOK
    <3> QED BY <3>3, <3>4, <3>5, <3>6
  <2> QED BY <2>2, <2>3
<1>4. ASSUME LockForInsert(t) PROVE IInv'
  <2>1. pc[t].i \in Inner /\ addr[pc[t].i] \in Addr
    BY <1>4 DEF LockForInsert, Begun, Wrappers
  <2>2. /\ locks' \in [Addr -> Inner \cup {Nil}]
        /\ locks'[addr[pc[t].i]] \in Inner
        /\ \A a \in Addr : locks[a] # Nil => locks'[a] = locks[a]
    BY <1>4, <2>1 DEF LockForInsert, TypeOK
  <2> QED
    BY <1>4, <2>1, <2>2, MadeKeeps DEF LockForInsert
<1>5. ASSUME NEW i \in Inner, Share(t, i) PROVE IInv'
  <2>0. \A u \in Thread : Frames(u)' = Frames(u)
    BY <1>5 DEF Share, Frames
  <2>1. TypeOK'
    BY <1>5 DEF Share, TypeOK, Ops, Teardown, Wrappers, Begun
  <2>2. Wrappers'
    BY <1>5 DEF Share, TypeOK, Wrappers, Begun, Held, Teardown
  <2>3. OwnedAlive'
    BY <1>5
    DEF Share, TypeOK, Wrappers, OwnedAlive, Owners, Begun, Alive, Distinct,
        Teardown
  <2>4. Begun'
    BY <1>5
    DEF Share, TypeOK, Wrappers, Owners, OwnedAlive, Registered, Begun, Distinct,
        Alive, Teardown
  <2>5. Owners' /\ Registered' /\ Distinct' /\ Held' /\ ControlBlock'
    BY <1>5, <2>0 DEF Share, Owners, Registered, Alive, Distinct, Held, ControlBlock
  <2>6. Undisturbed'
    BY <1>5, StillUndisturbed DEF Share, TypeOK
  <2> QED BY <2>1, <2>2, <2>3, <2>4, <2>5, <2>6
<1>6. ASSUME NEW i \in Inner, Stash(t, i) PROVE IInv'
  <2>0. \A u \in Thread : Frames(u)' = Frames(u)
    BY <1>6 DEF Stash, Frames
  <2>1. TypeOK'
    BY <1>6 DEF Stash, TypeOK, Ops, Teardown, Wrappers, Begun
  <2>2. Wrappers'
    BY <1>6 DEF Stash, TypeOK, Wrappers, Begun, Held, Teardown
  <2>3. OwnedAlive'
    BY <1>6
    DEF Stash, TypeOK, Wrappers, OwnedAlive, Owners, Begun, Alive, Distinct,
        Teardown
  <2>4. Begun'
    BY <1>6
    DEF Stash, TypeOK, Wrappers, Owners, OwnedAlive, Registered, Begun, Distinct,
        Alive, Teardown
  <2>5. Owners' /\ Registered' /\ Distinct' /\ Held' /\ ControlBlock'
    BY <1>6, <2>0 DEF Stash, Owners, Registered, Alive, Distinct, Held, ControlBlock
  <2>6. Undisturbed'
    BY <1>6, StillUndisturbed DEF Stash, TypeOK
  <2> QED BY <2>1, <2>2, <2>3, <2>4, <2>5, <2>6
<1>7. ASSUME NEW i \in Inner, Destruct(t, i) PROVE IInv'
  <2>0. \A u \in Thread : Frames(u)' = Frames(u)
    BY <1>7 DEF Destruct, Frames
  <2>1. TypeOK'
    BY <1>7 DEF Destruct, TypeOK, Ops, Teardown, Wrappers, Begun
  <2>2. Wrappers'
    BY <1>7 DEF Destruct, TypeOK, Wrappers, Begun, Held, Teardown
  <2>3. OwnedAlive'
    BY <1>7
    DEF Destruct, TypeOK, Wrappers, OwnedAlive, Owners, Begun, Alive, Distinct,
        Teardown
  <2>4. Begun'
    BY <1>7
    DEF Destruct, TypeOK, Wrappers, Owners, OwnedAlive, Registered, Begun, Distinct,
        Alive, Teardown
  <2>5. Owners' /\ Registered' /\ Distinct' /\ Held' /\ ControlBlock'
    BY <1>7, <2>0
    DEF Destruct, Owners, Registered, Alive, Distinct, Held, ControlBlock
  <2>6. Undisturbed'
    BY <1>7, StillUndisturbed DEF Destruct, TypeOK
  <2> QED BY <2>1, <2>2, <2>3, <2>4, <2>5, <2>6
<1>8. ASSUME NEW i \in Inner, Enter(t, i) PROVE IInv'
  <2>0. /\ inside' \in [Thread -> Seq(Inner)]
        /\ \A u \in Thread :
             Frames(u)' = IF u = t THEN Frames(u) \cup {i} ELSE Frames(u)
    BY <1>8, PushFrames DEF Enter
  <2>1. TypeOK'
    BY <1>8, <2>0 DEF Enter, TypeOK, Ops, Teardown, Wrappers, Begun
  <2>2. Held'
    <3>1. lock[i] # Nil /\ Free(lock[i], t) /\ UNCHANGED lock
      BY <1>8 DEF Enter, TypeOK, Begun, Teardown
    <3> QED BY <2>0, <3>1 DEF Held, Free
  <2>3. /\ Owners' /\ Wrappers' /\ OwnedAlive' /\ Registered' /\ Begun'
        /\ Distinct' /\ ControlBlock'
    BY <1>8
    DEF Enter, Owners, Wrappers, OwnedAlive, Alive, Registered, Begun, Distinct,
        ControlBlock
  <2>4. Undisturbed'
    BY <1>8, StillUndisturbed DEF Enter, TypeOK
  <2> QED BY <2>1, <2>2, <2>3, <2>4
<1>9. ASSUME Leave(t) PROVE IInv'
  <2>0. /\ inside' \in [Thread -> Seq(Inner)]
        /\ \A u \in Thread : Frames(u)' \subseteq Frames(u)
    BY <1>9, PopFrames DEF Leave
  <2>1. TypeOK'
    BY <1>9, <2>0 DEF Leave, TypeOK, Ops, Teardown, Wrappers, Begun
  <2>2. Held'
    BY <1>9, <2>0 DEF Leave, TypeOK, Begun, Held, Wrappers, Free, Teardown
  <2>3. /\ Owners' /\ Wrappers' /\ OwnedAlive' /\ Registered' /\ Begun'
        /\ Distinct' /\ ControlBlock'
    BY <1>9
    DEF Leave, Owners, Wrappers, OwnedAlive, Alive, Registered, Begun, Distinct,
        ControlBlock
  <2>4. Undisturbed'
    BY <1>9, StillUndisturbed DEF Leave, TypeOK
  <2> QED BY <2>1, <2>2, <2>3, <2>4
<1>10. ASSUME NEW i \in Inner, set_memory_limit(t, i) PROVE IInv'
  <2>0. \A u \in Thread : Frames(u)' = Frames(u)
    BY <1>10 DEF set_memory_limit, Frames
  <2>1. TypeOK'
    BY <1>10 DEF set_memory_limit, TypeOK, Ops, Teardown, Wrappers, Begun
  <2>2. Wrappers'
    BY <1>10 DEF set_memory_limit, TypeOK, Wrappers, Begun, Held, Teardown
  <2>3. ControlBlock'
    BY <1>10
    DEF set_memory_limit, TypeOK, Wrappers, Owners, ControlBlock, Alive, Begun, Teardown
  <2>4. Owners' /\ OwnedAlive' /\ Registered' /\ Begun' /\ Distinct' /\ Held'
    BY <1>10, <2>0
    DEF set_memory_limit, Owners, OwnedAlive, Alive, Registered, Begun, Distinct,
        Held
  <2>5. Undisturbed'
    BY <1>10, StillUndisturbed DEF set_memory_limit, TypeOK
  <2> QED BY <2>1, <2>2, <2>3, <2>4, <2>5
<1>11. ASSUME NEW i \in Inner, DropHandle(t, i) PROVE IInv'
  <2>0. \A u \in Thread : Frames(u)' = Frames(u)
    BY <1>11 DEF DropHandle, Frames
  <2>1. TypeOK'
    <3>1. handles' \in [Inner -> SUBSET (Thread \cup Inner)]
      BY <1>11 DEF DropHandle, TypeOK
    <3>2. pc' \in [Thread -> [op : Ops, i : Inner \cup {Nil}]]
      <4>1. pc' = pc \/ pc' = [pc EXCEPT ![t] = [op |-> "drop", i |-> i]]
        BY <1>11 DEF DropHandle
      <4> QED BY <4>1 DEF TypeOK, Ops, Teardown
    <3>3. \A k \in Inner : handles'[k] \subseteq handles[k]
      BY <1>11 DEF DropHandle, TypeOK
    <3> QED
      BY <1>11, <3>1, <3>2, <3>3 DEF DropHandle, TypeOK
  <2>2. Wrappers'
    BY <1>11 DEF DropHandle, TypeOK, Wrappers, Begun, Held, Teardown
  <2>3. OwnedAlive'
    BY <1>11
    DEF DropHandle, TypeOK, Wrappers, OwnedAlive, Owners, Begun, Alive, Distinct,
        Teardown
  <2>4. Begun'
    <3>1. /\ \A u \in Thread : u # t => pc'[u] = pc[u]
          /\ \/ pc'[t] = pc[t]
             \/ /\ pc'[t] = [op |-> "drop", i |-> i]
                /\ handles'[i] = {} /\ vmof[i] \in {Nil, i}
      BY <1>11 DEF DropHandle, TypeOK
    <3>2. \A k \in Inner : handles'[k] \subseteq handles[k]
      BY <1>11 DEF DropHandle, TypeOK
    <3>3. handles[i] # {} /\ lock[i] # Nil /\ vmof[i] # Nil
      BY <1>11 DEF DropHandle, TypeOK, Wrappers
    <3>4. UNCHANGED <<vm, addr, vmof, lock>>
      BY <1>11 DEF DropHandle
    <3> QED BY <3>1, <3>2, <3>3, <3>4 DEF Begun, OwnedAlive, Alive, Teardown
  <2>5. Distinct'
    BY <1>11
    DEF DropHandle, TypeOK, Wrappers, Begun, Distinct, Alive, Teardown
  <2>6. Owners' /\ Registered' /\ Held' /\ ControlBlock'
    BY <1>11, <2>0 DEF DropHandle, Owners, Registered, Alive, Held, ControlBlock
  <2>7. Undisturbed'
    <3>1. \A u \in Thread : pc'[u] = pc[u] \/ pc'[u].op = "drop"
      BY <1>11 DEF DropHandle, TypeOK
    <3> QED BY <1>11, <3>1, StillUndisturbed DEF DropHandle
  <2> QED BY <2>1, <2>2, <2>3, <2>4, <2>5, <2>6, <2>7
<1>12. ASSUME DropLock(t) PROVE IInv'
  <2>0. /\ inside' \in [Thread -> Seq(Inner)]
        /\ \A u \in Thread :
             Frames(u)' = IF u = t THEN Frames(u) \cup {pc[t].i} ELSE Frames(u)
        /\ pc[t].i \in Inner
    BY <1>12, PushFrames DEF DropLock, Begun
  <2>1. TypeOK'
    BY <1>12, <2>0 DEF DropLock, TypeOK, Ops, Teardown, Wrappers, Begun
  <2>2. Begun'
    BY <1>12
    DEF DropLock, TypeOK, Wrappers, Owners, OwnedAlive, Registered, Begun, Distinct,
        Alive, Teardown
  <2>3. Distinct'
    BY <1>12
    DEF DropLock, TypeOK, Wrappers, Begun, Distinct, Alive, Teardown
  <2>4. Held'
    <3>1. lock[pc[t].i] # Nil /\ Free(lock[pc[t].i], t) /\ UNCHANGED lock
      BY <1>12 DEF DropLock, TypeOK, Begun, Teardown
    <3> QED BY <2>0, <3>1 DEF Held, Free
  <2>5. Owners' /\ Wrappers' /\ OwnedAlive' /\ Registered' /\ ControlBlock'
    BY <1>12
    DEF DropLock, Owners, Wrappers, OwnedAlive, Alive, Registered, ControlBlock
  <2>6. Undisturbed'
    BY <1>12, StillUndisturbed DEF DropLock, TypeOK
  <2> QED BY <2>1, <2>2, <2>3, <2>4, <2>5, <2>6
<1>13. ASSUME FreeRegistry(t) PROVE IInv'
  <2>0. \A u \in Thread : Frames(u)' = Frames(u)
    BY <1>13 DEF FreeRegistry, Frames
  <2>1. TypeOK'
    BY <1>13 DEF FreeRegistry, TypeOK, Ops, Teardown, Wrappers, Begun
  <2>2. /\ Owners' /\ Wrappers' /\ OwnedAlive' /\ Registered' /\ Begun'
        /\ Distinct' /\ Held' /\ ControlBlock'
    BY <1>13, <2>0
    DEF FreeRegistry, Owners, Wrappers, OwnedAlive, Alive, Registered, Begun,
        Distinct, Held, ControlBlock
  <2>3. Undisturbed'
    BY <1>13, StillUndisturbed DEF FreeRegistry, TypeOK
  <2> QED BY <2>1, <2>2, <2>3
<1>14. ASSUME Close(t) PROVE IInv'
  <2>0. \A u \in Thread : Frames(u)' = Frames(u)
    BY <1>14 DEF Close, Frames
  <2>1. TypeOK'
    BY <1>14 DEF Close, TypeOK, Ops, Teardown, Wrappers, Begun
  <2>2. Owners'
    BY <1>14 DEF Close, TypeOK, Owners, Wrappers
  <2>3. OwnedAlive'
    BY <1>14
    DEF Close, TypeOK, Wrappers, OwnedAlive, Owners, Begun, Alive, Distinct,
        Teardown
  <2>4. Registered'
    BY <1>14
    DEF Close, TypeOK, Wrappers, Owners, Registered, Alive, Begun, Teardown
  <2>5. Begun'
    <3>1. /\ \A u \in Thread : pc'[u] = IF u = t THEN [op |-> "clear", i |-> pc[t].i] ELSE pc[u]
          /\ UNCHANGED <<addr, vmof, lock, handles>>
      BY <1>14 DEF Close, TypeOK
    <3>2. pc[t].i \in Inner /\ Alive(pc[t].i) /\ addr[pc[t].i] \in Addr
      BY <1>14 DEF Close, Begun, Wrappers
    <3>3. \A k \in Inner : k # pc[t].i /\ vmof[k] # Nil /\ Alive(k) => Alive(k)'
      BY <1>14, <3>1, <3>2 DEF Close, Alive, Wrappers, TypeOK
    <3>4. \A u \in Thread : u # t /\ pc[u] # Idle => pc[u].i # pc[t].i
      BY <1>14 DEF Close, Distinct
    <3> QED BY <1>14, <3>1, <3>2, <3>3, <3>4 DEF Close, Begun, Teardown
  <2>6. Distinct'
    <3>1. \A u \in Thread : pc'[u] = IF u = t THEN [op |-> "clear", i |-> pc[t].i] ELSE pc[u]
      BY <1>14 DEF Close, TypeOK
    <3>2. pc[t] # Idle
      BY <1>14 DEF Close, Idle
    <3> QED BY <3>1, <3>2 DEF Distinct
  <2>7. ControlBlock'
    BY <1>14
    DEF Close, TypeOK, Wrappers, Owners, ControlBlock, Alive, Begun,
        Teardown
  <2>8. Wrappers' /\ Held'
    BY <1>14, <2>0 DEF Close, Wrappers, Held
  <2>9. Undisturbed'
    <3> SUFFICES ASSUME NEW v \in Inner, v \notin early, vmof[v] = v, Alive(v)',
                        NEW u \in Thread, pc'[u].op \in {"clear", "unlock", "unregister"},
                        addr[pc'[u].i] = addr[v]
                 PROVE  FALSE
      BY <1>14 DEF Close, Undisturbed, GivingUp
    <3>1. /\ pc[t].i \in Inner /\ addr[pc[t].i] \in Addr /\ addr[v] \in Addr
          /\ vm' = [vm EXCEPT ![addr[pc[t].i]] = Nil] /\ addr' = addr
      BY <1>14 DEF Close, Begun, Wrappers
    <3>2. Alive(v) /\ addr[v] # addr[pc[t].i]
      BY <3>1 DEF Alive, TypeOK
    <3>3. u # t /\ pc'[u] = pc[u]
      BY <1>14, <3>2 DEF Close, TypeOK
    <3> QED BY <3>2, <3>3 DEF Undisturbed, GivingUp
  <2> QED BY <2>1, <2>2, <2>3, <2>4, <2>5, <2>6, <2>7, <2>8, <2>9
<1>15. ASSUME clear_memory(t) PROVE IInv'
  <2>0. \A u \in Thread : Frames(u)' = Frames(u)
    BY <1>15 DEF clear_memory, Frames
  <2>1. TypeOK'
    BY <1>15 DEF clear_memory, TypeOK, Ops, Teardown, Wrappers, Begun
  <2>2. Begun'
    BY <1>15
    DEF clear_memory, TypeOK, Wrappers, Owners, OwnedAlive, Registered, Begun,
        Distinct, Alive, Teardown
  <2>3. Distinct'
    BY <1>15
    DEF clear_memory, TypeOK, Wrappers, Begun, Distinct, Alive, Teardown
  <2>4. ControlBlock'
    <3>1. SUFFICES ASSUME NEW v \in limited \ early, Alive(v) PROVE controls'[addr[v]] = v
      BY <1>15 DEF clear_memory, ControlBlock, Alive
    <3>2. v \in Inner /\ addr[v] \in Addr /\ pc[t].i \in Inner /\ vmof[v] = v
      BY <1>15, <3>1 DEF clear_memory, TypeOK, Wrappers, Begun, Owners, Alive
    <3>3. addr[v] # addr[pc[t].i]
      BY <1>15, <3>1, <3>2 DEF clear_memory, Undisturbed, GivingUp
    <3> QED BY <1>15, <3>1, <3>2, <3>3 DEF clear_memory, ControlBlock, TypeOK
  <2>5. Owners' /\ Wrappers' /\ OwnedAlive' /\ Registered' /\ Held'
    BY <1>15, <2>0
    DEF clear_memory, Owners, Wrappers, OwnedAlive, Alive, Registered, Held
  <2>6. Undisturbed'
    BY <1>15, StillUndisturbed DEF clear_memory, TypeOK
  <2> QED BY <2>1, <2>2, <2>3, <2>4, <2>5, <2>6
<1>16. ASSUME DropGuard(t) PROVE IInv'
  <2>0. /\ inside' \in [Thread -> Seq(Inner)]
        /\ \A u \in Thread : Frames(u)' \subseteq Frames(u)
    BY <1>16, PopFrames DEF DropGuard
  <2>1. TypeOK'
    BY <1>16, <2>0 DEF DropGuard, TypeOK, Ops, Teardown, Wrappers, Begun
  <2>2. Begun'
    BY <1>16
    DEF DropGuard, TypeOK, Wrappers, Owners, OwnedAlive, Registered, Begun,
        Distinct, Alive, Teardown
  <2>3. Distinct'
    BY <1>16
    DEF DropGuard, TypeOK, Wrappers, Begun, Distinct, Alive, Teardown
  <2>4. Held'
    BY <1>16, <2>0 DEF DropGuard, TypeOK, Begun, Held, Wrappers, Free, Teardown
  <2>5. Owners' /\ Wrappers' /\ OwnedAlive' /\ Registered' /\ ControlBlock'
    BY <1>16
    DEF DropGuard, Owners, Wrappers, OwnedAlive, Alive, Registered, ControlBlock
  <2>6. Undisturbed'
    BY <1>16, StillUndisturbed DEF DropGuard, TypeOK
  <2> QED BY <2>1, <2>2, <2>3, <2>4, <2>5, <2>6
<1>17. ASSUME unregister(t) PROVE IInv'
  <2>0. \A u \in Thread : Frames(u)' = Frames(u)
    BY <1>17 DEF unregister, Frames
  <2>1. TypeOK'
    BY <1>17 DEF unregister, TypeOK, Ops, Teardown, Wrappers, Begun
  <2>2. Registered'
    <3> SUFFICES ASSUME NEW k \in Inner, lock[k] # Nil, Alive(vmof[k]), vmof[k] \notin early
                 PROVE  locks'[addr[k]] = lock[k]
      BY <1>17 DEF unregister, Registered, Alive
    <3>1. /\ vmof[k] \in Inner /\ vmof[vmof[k]] = vmof[k] /\ addr[k] = addr[vmof[k]]
          /\ addr[k] \in Addr
      BY DEF Wrappers, TypeOK
    <3>2. addr[k] # addr[pc[t].i]
      BY <1>17, <3>1 DEF unregister, Undisturbed, GivingUp
    <3> QED BY <1>17, <3>1, <3>2 DEF unregister, Registered, TypeOK
  <2>3. Begun'
    BY <1>17
    DEF unregister, TypeOK, Wrappers, Owners, OwnedAlive, Registered, Begun,
        Distinct, Alive, Teardown
  <2>4. Distinct'
    BY <1>17
    DEF unregister, TypeOK, Wrappers, Begun, Distinct, Alive, Teardown
  <2>5. Owners' /\ Wrappers' /\ OwnedAlive' /\ Held' /\ ControlBlock'
    BY <1>17, <2>0
    DEF unregister, Owners, Wrappers, OwnedAlive, Alive, Held, ControlBlock
  <2>6. Undisturbed'
    BY <1>17, StillUndisturbed DEF unregister, TypeOK
  <2> QED BY <2>1, <2>2, <2>3, <2>4, <2>5, <2>6
<1> QED
  BY <1>1, <1>2, <1>3, <1>4, <1>5, <1>6, <1>7, <1>8, <1>9, <1>10, <1>11, <1>12,
     <1>13, <1>14, <1>15, <1>16, <1>17
  DEF Step, Progress, CloseStep

\* A program starts without VMs.
LEMMA InitHolds == Init => IInv
<1> SUFFICES ASSUME Init PROVE IInv
  OBVIOUS
<1> USE IdsAssumption DEF Init, Idle
<1>1. TypeOK
  BY DEF TypeOK, Ops
<1>2. \A t \in Thread : Frames(t) = {}
  BY DEF Frames
<1>3. Owners /\ Wrappers /\ OwnedAlive /\ Registered /\ Undisturbed /\ ControlBlock
  BY DEF Owners, Wrappers, OwnedAlive, Registered, Undisturbed, ControlBlock
<1>4. Begun /\ Distinct /\ Held
  BY <1>2 DEF Begun, Distinct, Held
<1> QED BY <1>1, <1>3, <1>4 DEF IInv

\* A step of nobody keeps the invariant.
LEMMA StutterKeeps == ASSUME IInv, UNCHANGED vars PROVE IInv'
<1> USE DEF vars, lifetime, stores, fields
<1>1. TypeOK'
  BY DEF IInv, TypeOK
<1>2. \A t \in Thread : Frames(t)' = Frames(t)
  BY DEF Frames
<1>3. Owners' /\ Wrappers' /\ OwnedAlive' /\ Registered' /\ Undisturbed' /\ ControlBlock'
  BY DEF IInv, Owners, Wrappers, OwnedAlive, Registered, Undisturbed, GivingUp, ControlBlock, Alive
<1>4. Begun' /\ Distinct' /\ Held'
  BY <1>2 DEF IInv, Begun, Distinct, Held, Alive
<1> QED BY <1>1, <1>3, <1>4 DEF IInv

\* The invariant holds throughout.
LEMMA Invariance == Spec => []IInv
<1>1. IInv /\ [Next]_vars => IInv'
  BY StepKeeps, StutterKeeps DEF Next
<1> QED BY <1>1, InitHolds, PTL DEF Spec

\* The lock is the registered one, so it is the same for two wrappers.
LEMMA OneLockHolds == IInv => OneLock
<1> SUFFICES ASSUME IInv, NEW v \in Inner \ early, Alive(v), NEW i \in Inner, NEW j \in Inner,
                    lock[i] # Nil, lock[j] # Nil, vmof[i] = v, vmof[j] = v
             PROVE  lock[i] = lock[j]
  BY DEF OneLock, SameLock
<1>1. addr[i] = addr[j]
  BY IdsAssumption DEF IInv, Wrappers
<1> QED BY <1>1 DEF IInv, Registered

\* vm_lock_registry gives every wrapper of an open VM the same lock, however
\* many threads race in lock_for and LuaInner::drop, at whatever address: the
\* teardown of a VM harms no VM but one that was opened at its address before
\* it was over.
THEOREM LocksAgree == Spec => []OneLock
BY Invariance, OneLockHolds, PTL

\* No two threads are inside one open VM, by whatever wrappers they entered it
\* and whether or not one of them is tearing it down, with that exception.
THEOREM AccessIsSerialized == Spec => []Serialized
<1>1. IInv => Serialized
  <2> SUFFICES ASSUME IInv, NEW t \in Thread, NEW u \in Thread, t # u,
                      NEW i \in Frames(t), NEW j \in Frames(u), vmof[i] = vmof[j],
                      Alive(vmof[i]), vmof[i] \notin early
               PROVE  FALSE
    BY DEF Serialized, InVM
  <2>1. i \in Inner /\ j \in Inner
    BY DEF IInv, TypeOK, Frames
  <2>2. lock[i] # Nil /\ lock[j] # Nil /\ lock[i] # lock[j]
    BY DEF IInv, Held
  <2>3. vmof[i] \in Inner \ early /\ vmof[vmof[i]] = vmof[i]
    BY <2>1, <2>2 DEF IInv, Wrappers, TypeOK
  <2> QED BY <2>1, <2>2, <2>3, OneLockHolds DEF OneLock, SameLock
<1> QED BY <1>1, Invariance, PTL

\* The control block of an open VM with a memory limit is never dropped, not by
\* the teardown of another VM either, unless the VM was opened at that one's
\* address before its teardown was over.
THEOREM ControlBlocksStay == Spec => []ControlBlock
<1>1. IInv => ControlBlock
  BY DEF IInv
<1> QED BY <1>1, Invariance, PTL

\* The type invariant holds.
THEOREM TypeCorrect == Spec => []TypeOK
<1>1. IInv => TypeOK
  BY DEF IInv
<1> QED BY <1>1, Invariance, PTL

-----------------------------------------------------------------------------
(***************************************************************************)
(* A guard taken through an owner keeps the VM open.                       *)
(***************************************************************************)
Tearing == {"closing", "clear", "unlock"}

\* A thread with a guard of an owner has a handle of it, or tears it down.
Guards ==
  \A t \in Thread : \A i \in Frames(t) :
    vmof[i] = i => t \in handles[i] \/ (pc[t].i = i /\ pc[t].op \in Tearing)

\* A VM is swept when there are no handles of its owner any more.
Swept == \A i \in swept : vmof[i] = i /\ lock[i] # Nil /\ handles[i] = {}

\* The teardown has one guard of its own, the innermost one once lua_close is
\* over.
OwnGuard ==
  \A t \in Thread : pc[t].op \in Tearing =>
    \E k \in 1..Len(inside[t]) :
      /\ inside[t][k] = pc[t].i
      /\ \A m \in 1..Len(inside[t]) : inside[t][m] = pc[t].i => m = k
      /\ pc[t].op # "closing" => k = Len(inside[t])

GInv == IInv /\ Guards /\ Swept /\ OwnGuard

\* The frames of a thread are made LuaInners.
LEMMA FramesMade ==
  ASSUME IInv, NEW t \in Thread, NEW i \in Frames(t)
  PROVE  i \in Inner /\ lock[i] # Nil /\ vmof[i] # Nil
<1>1. i \in Inner
  BY DEF IInv, TypeOK, Frames
<1> QED BY <1>1 DEF IInv, Held, Wrappers

\* What is on a stack stays below a guard that is pushed or left by one popped.
LEMMA GuardStack ==
  ASSUME TypeOK, NEW t \in Thread
  PROVE  /\ inside[t] \in Seq(Inner) /\ Len(inside[t]) \in Nat
         /\ \A k \in 1..Len(inside[t]) : inside[t][k] \in Frames(t) /\ inside[t][k] \in Inner
         /\ \A i : Push(t, i) =>
              /\ Len(inside'[t]) = Len(inside[t]) + 1 /\ inside'[t][Len(inside[t]) + 1] = i
              /\ \A k \in 1..Len(inside[t]) : inside'[t][k] = inside[t][k]
         /\ Pop(t) /\ inside[t] # <<>> =>
              /\ Len(inside[t]) > 0 /\ Len(inside'[t]) = Len(inside[t]) - 1
              /\ \A k \in 1..(Len(inside[t]) - 1) : inside'[t][k] = inside[t][k]
         /\ \A i : Push(t, i) \/ Pop(t) => \A u \in Thread \ {t} : inside'[u] = inside[u]
<1>1. inside \in [Thread -> Seq(Inner)] /\ inside[t] \in Seq(Inner)
  BY DEF TypeOK
<1>2. \A k \in 1..Len(inside[t]) : inside[t][k] \in Frames(t) /\ inside[t][k] \in Inner
  BY <1>1 DEF Frames
<1>3. ASSUME NEW i, Push(t, i)
      PROVE  /\ Len(inside'[t]) = Len(inside[t]) + 1 /\ inside'[t][Len(inside[t]) + 1] = i
             /\ \A k \in 1..Len(inside[t]) : inside'[t][k] = inside[t][k]
             /\ \A u \in Thread \ {t} : inside'[u] = inside[u]
  <2>1. inside'[t] = Append(inside[t], i) /\ \A u \in Thread \ {t} : inside'[u] = inside[u]
    BY <1>1, <1>3 DEF Push
  <2> QED BY <1>1, <2>1
<1>4. ASSUME Pop(t), inside[t] # <<>>
      PROVE  /\ Len(inside[t]) > 0 /\ Len(inside'[t]) = Len(inside[t]) - 1
             /\ \A k \in 1..(Len(inside[t]) - 1) : inside'[t][k] = inside[t][k]
  <2>1. inside'[t] = SubSeq(inside[t], 1, Len(inside[t]) - 1)
    BY <1>1, <1>4 DEF Pop
  <2>2. Len(inside[t]) > 0 /\ Len(inside[t]) \in Nat
    BY <1>1, <1>4
  <2>3. ASSUME NEW s \in Seq(Inner), Len(s) > 0
        PROVE  /\ Len(SubSeq(s, 1, Len(s) - 1)) = Len(s) - 1
               /\ \A k \in 1..(Len(s) - 1) : SubSeq(s, 1, Len(s) - 1)[k] = s[k]
    <3>1. Len(s) - 1 \in Nat /\ Len(s) \in Nat /\ Len(s) - 1 <= Len(s)
      BY <2>3
    <3>2. ASSUME NEW n \in Nat, n <= Len(s)
          PROVE  Len(SubSeq(s, 1, n)) = n /\ \A k \in 1..n : SubSeq(s, 1, n)[k] = s[k]
      <4>1. CASE n = 0
        BY <4>1
      <4>2. CASE n > 0
        BY <3>2, <4>2
      <4> QED BY <4>1, <4>2
    <3> QED BY <3>1, <3>2
  <2> QED BY <1>1, <2>1, <2>2, <2>3
<1>5. Pop(t) => \A u \in Thread \ {t} : inside'[u] = inside[u]
  BY <1>1 DEF Pop
<1> QED BY <1>1, <1>2, <1>3, <1>4, <1>5

\* A step that takes and drops no guard.
LEMMA StillGuarded ==
  ASSUME GInv, inside' = inside, swept' = swept,
         \A i \in Inner : /\ vmof[i] # Nil => vmof'[i] = vmof[i]
                          /\ lock[i] # Nil => lock'[i] = lock[i],
         \A t \in Thread : \A i \in Frames(t) :
            vmof[i] = i /\ t \in handles[i] => t \in handles'[i],
         \A i \in swept : handles'[i] = {},
         \A t \in Thread : pc[t].op \in Tearing => pc'[t].op \in Tearing,
         \A t \in Thread : pc'[t].op \in Tearing =>
            /\ pc[t].op \in Tearing /\ pc'[t].i = pc[t].i
            /\ pc'[t].op # "closing" =>
                 pc[t].op # "closing" \/ inside[t][Len(inside[t])] = pc[t].i
  PROVE  (Guards /\ Swept /\ OwnGuard)'
<1> USE DEF GInv
<1>1. \A t \in Thread : Frames(t)' = Frames(t)
  BY DEF Frames
<1>2. \A t \in Thread : pc[t].op \in Tearing => pc'[t].i = pc[t].i
  OBVIOUS
<1>3. Guards'
  <2> SUFFICES ASSUME NEW t \in Thread, NEW i \in Frames(t), vmof'[i] = i
               PROVE  t \in handles'[i] \/ (pc'[t].i = i /\ pc'[t].op \in Tearing)
    BY <1>1 DEF Guards
  <2>1. vmof[i] = i
    BY FramesMade
  <2> QED BY <1>2, <2>1 DEF Guards
<1>4. Swept'
  <2>1. \A i \in swept : i \in Inner /\ vmof[i] # Nil
    BY DEF Swept, IInv, TypeOK, Wrappers
  <2> QED BY <2>1 DEF Swept
<1>5. OwnGuard'
  <2> SUFFICES ASSUME NEW t \in Thread, pc'[t].op \in Tearing
               PROVE  \E k \in 1..Len(inside[t]) :
                        /\ inside[t][k] = pc[t].i
                        /\ \A m \in 1..Len(inside[t]) : inside[t][m] = pc[t].i => m = k
                        /\ pc'[t].op # "closing" => k = Len(inside[t])
    BY <1>2 DEF OwnGuard
  <2>1. PICK k \in 1..Len(inside[t]) :
           /\ inside[t][k] = pc[t].i
           /\ \A m \in 1..Len(inside[t]) : inside[t][m] = pc[t].i => m = k
           /\ pc[t].op # "closing" => k = Len(inside[t])
    BY DEF OwnGuard
  <2>2. Len(inside[t]) \in 1..Len(inside[t])
    BY <2>1, GuardStack DEF IInv
  <2> QED BY <2>1, <2>2
<1> QED BY <1>3, <1>4, <1>5

\* Every step of a thread keeps the guards in order.
LEMMA StepGuarded ==
  ASSUME GInv, TypeOK', NEW t \in Thread, Step(t) PROVE (Guards /\ Swept /\ OwnGuard)'
<1> USE IdsAssumption DEF GInv, Idle, At, Goto, lifetime, stores, fields, Borrowed, Tearing
<1>0. /\ TypeOK /\ \A i \in swept : i \in Inner /\ vmof[i] # Nil
      /\ \A u \in Thread : \A i \in Frames(u) : i \in Inner /\ vmof[i] # Nil
  BY FramesMade DEF IInv, Swept, TypeOK, Wrappers
<1>1. ASSUME NEW i \in Inner, NEW a \in Addr, New(t, i, a) PROVE (Guards /\ Swept /\ OwnGuard)'
  <2>1. \A k \in Inner : vmof[k] # Nil => vmof'[k] = vmof[k]
    BY <1>0, <1>1 DEF New, TypeOK
  <2>2. \A u \in Thread : pc'[u] = IF u = t THEN [op |-> "lookup", i |-> i] ELSE pc[u]
    BY <1>0, <1>1 DEF New, TypeOK
  <2> QED BY <1>0, <1>1, <2>1, <2>2, StillGuarded DEF New, Swept
<1>2. ASSUME NEW i \in Inner, Borrow(t, i) PROVE (Guards /\ Swept /\ OwnGuard)'
  <2>1. \A k \in Inner : vmof[k] # Nil => vmof'[k] = vmof[k]
    BY <1>0, <1>2 DEF Borrow, TypeOK
  <2>2. \A u \in Thread : pc'[u] = IF u = t THEN [op |-> "lookup", i |-> i] ELSE pc[u]
    BY <1>0, <1>2 DEF Borrow, TypeOK
  <2> QED BY <1>0, <1>2, <2>1, <2>2, StillGuarded DEF Borrow, Swept
<1>3. ASSUME LockForRead(t) \/ LockForInsert(t) PROVE (Guards /\ Swept /\ OwnGuard)'
  <2>1. /\ pc[t] # Idle /\ pc[t].i \in Inner /\ lock[pc[t].i] = Nil
        /\ pc[t].op \in {"lookup", "insert"}
    BY <1>3 DEF LockForRead, LockForInsert, IInv, Begun
  <2>2. /\ \A u \in Thread : u # t => pc'[u] = pc[u]
        /\ pc'[t].op \in {"idle", "insert"}
        /\ inside' = inside /\ swept' = swept /\ vmof' = vmof
    BY <1>0, <1>3 DEF LockForRead, LockForInsert, Made, TypeOK
  <2>3. \A k \in Inner : lock[k] # Nil => lock'[k] = lock[k] /\ handles'[k] = handles[k]
    BY <1>0, <1>3, <2>1 DEF LockForRead, LockForInsert, Made, TypeOK
  <2>4. \A u \in Thread : \A k \in Frames(u) : k \in Inner /\ lock[k] # Nil
    BY FramesMade
  <2> QED BY <1>0, <2>1, <2>2, <2>3, <2>4, StillGuarded DEF Swept
<1>4. ASSUME NEW i \in Inner, Share(t, i) PROVE (Guards /\ Swept /\ OwnGuard)'
  <2>1. \A k \in Inner : handles'[k] = IF k = i THEN handles[i] \cup {t} ELSE handles[k]
    BY <1>0, <1>4 DEF Share, TypeOK
  <2>2. handles[i] # {}
    BY <1>4 DEF Share
  <2> QED BY <1>0, <1>4, <2>1, <2>2, StillGuarded DEF Share, Swept
<1>5. ASSUME NEW i \in Inner, Stash(t, i) \/ Destruct(t, i)
      PROVE (Guards /\ Swept /\ OwnGuard)'
  <2>1. \A k \in Inner : vmof[k] = k => handles'[k] = handles[k]
    BY <1>0, <1>5 DEF Stash, Destruct, TypeOK
  <2> QED BY <1>0, <1>5, <2>1, StillGuarded DEF Stash, Destruct, Swept
<1>6. ASSUME NEW i \in Inner, set_memory_limit(t, i) PROVE (Guards /\ Swept /\ OwnGuard)'
  BY <1>0, <1>6, StillGuarded DEF set_memory_limit, Swept
<1>7. ASSUME NEW i \in Inner, DropHandle(t, i) PROVE (Guards /\ Swept /\ OwnGuard)'
  <2>1. \A k \in Inner : handles'[k] = IF k = i THEN handles[i] \ {t} ELSE handles[k]
    BY <1>0, <1>7 DEF DropHandle, TypeOK
  <2>2. /\ \A u \in Thread : u # t => pc'[u] = pc[u]
        /\ pc'[t] = pc[t] \/ (pc[t].op = "idle" /\ pc'[t].op = "drop")
    BY <1>0, <1>7 DEF DropHandle, TypeOK, InDestructor
  <2> QED BY <1>0, <1>7, <2>1, <2>2, StillGuarded DEF DropHandle, Swept
<1>8. ASSUME Close(t) PROVE (Guards /\ Swept /\ OwnGuard)'
  <2>1. \A u \in Thread : pc'[u] = IF u = t THEN [op |-> "clear", i |-> pc[t].i] ELSE pc[u]
    BY <1>0, <1>8 DEF Close, TypeOK
  <2> QED BY <1>0, <1>8, <2>1, StillGuarded DEF Close, Swept
<1>9. ASSUME clear_memory(t) PROVE (Guards /\ Swept /\ OwnGuard)'
  <2>1. \A u \in Thread : pc'[u] = IF u = t THEN [op |-> "unlock", i |-> pc[t].i] ELSE pc[u]
    BY <1>0, <1>9 DEF clear_memory, TypeOK
  <2> QED BY <1>0, <1>9, <2>1, StillGuarded DEF clear_memory, Swept
<1>10. ASSUME unregister(t) PROVE (Guards /\ Swept /\ OwnGuard)'
  <2>1. \A u \in Thread : pc'[u] = IF u = t THEN Idle ELSE pc[u]
    BY <1>0, <1>10 DEF unregister, TypeOK
  <2> QED BY <1>0, <1>10, <2>1, StillGuarded DEF unregister, Swept
<1>11. ASSUME FreeRegistry(t) PROVE (Guards /\ Swept /\ OwnGuard)'
  <2>1. pc[t].i \in Inner /\ vmof[pc[t].i] = pc[t].i /\ lock[pc[t].i] # Nil /\ handles[pc[t].i] = {}
    BY <1>11 DEF FreeRegistry, IInv, Begun, Teardown
  <2>2. Swept'
    BY <1>11, <2>1 DEF FreeRegistry, Swept
  <2>3. \A u \in Thread : Frames(u)' = Frames(u)
    BY <1>11 DEF FreeRegistry, Frames
  <2> QED BY <1>11, <2>2, <2>3 DEF FreeRegistry, Guards, OwnGuard
<1>12. ASSUME NEW i \in Inner, Enter(t, i) PROVE (Guards /\ Swept /\ OwnGuard)'
  <2>1. /\ Push(t, i) /\ t \in handles[i] /\ pc' = pc /\ handles' = handles /\ vmof' = vmof
        /\ lock' = lock /\ swept' = swept /\ pc[t].op \notin {"clear", "unlock"}
    BY <1>12 DEF Enter, InDestructor
  <2>2. \A u \in Thread : Frames(u)' = IF u = t THEN Frames(u) \cup {i} ELSE Frames(u)
    BY <1>0, <2>1, PushFrames
  <2>3. Guards' /\ Swept'
    BY <2>1, <2>2 DEF Guards, Swept
  <2>4. ASSUME NEW u \in Thread, pc[u].op \in Tearing
        PROVE  \E k \in 1..Len(inside'[u]) :
                 /\ inside'[u][k] = pc[u].i
                 /\ \A m \in 1..Len(inside'[u]) : inside'[u][m] = pc[u].i => m = k
                 /\ pc[u].op # "closing" => k = Len(inside'[u])
    <3>1. CASE u # t
      BY <1>0, <2>1, <2>4, <3>1, GuardStack DEF OwnGuard
    <3>2. CASE u = t
      <4>1. pc[t].i # i
        BY <2>1, <2>4, <3>2 DEF IInv, Begun
      <4>2. PICK k \in 1..Len(inside[t]) :
               /\ inside[t][k] = pc[t].i
               /\ \A m \in 1..Len(inside[t]) : inside[t][m] = pc[t].i => m = k
        BY <2>4, <3>2 DEF OwnGuard
      <4>3. /\ Len(inside'[t]) = Len(inside[t]) + 1 /\ inside'[t][Len(inside[t]) + 1] = i
            /\ \A m \in 1..Len(inside[t]) : inside'[t][m] = inside[t][m]
            /\ Len(inside[t]) \in Nat
        BY <1>0, <2>1, GuardStack
      <4>4. \A m \in 1..Len(inside'[t]) : m \in 1..Len(inside[t]) \/ m = Len(inside[t]) + 1
        BY <4>3
      <4>5. k \in 1..Len(inside'[t])
        BY <4>3
      <4>6. /\ inside'[t][k] = pc[t].i /\ pc[t].op = "closing"
            /\ \A m \in 1..Len(inside'[t]) : inside'[t][m] = pc[t].i => m = k
        BY <2>1, <2>4, <3>2, <4>1, <4>2, <4>3, <4>4
      <4> QED BY <3>2, <4>5, <4>6
    <3> QED BY <3>1, <3>2
  <2>5. OwnGuard'
    BY <2>1, <2>4 DEF OwnGuard
  <2> QED BY <2>3, <2>5
<1>13. ASSUME Leave(t) PROVE (Guards /\ Swept /\ OwnGuard)'
  <2>1. /\ Pop(t) /\ pc' = pc /\ handles' = handles /\ vmof' = vmof /\ inside[t] # <<>>
        /\ lock' = lock /\ swept' = swept
        /\ pc[t].op \in Tearing => pc[t].op = "closing" /\ inside[t][Len(inside[t])] # pc[t].i
    BY <1>13 DEF Leave
  <2>2. \A u \in Thread : Frames(u)' \subseteq Frames(u)
    BY <1>0, <2>1, PopFrames
  <2>3. Guards' /\ Swept'
    BY <2>1, <2>2 DEF Guards, Swept
  <2>4. ASSUME NEW u \in Thread, pc[u].op \in Tearing
        PROVE  \E k \in 1..Len(inside'[u]) :
                 /\ inside'[u][k] = pc[u].i
                 /\ \A m \in 1..Len(inside'[u]) : inside'[u][m] = pc[u].i => m = k
                 /\ pc[u].op # "closing" => k = Len(inside'[u])
    <3>1. CASE u # t
      <4>1. inside'[u] = inside[u]
        BY <1>0, <2>1, <3>1 DEF Pop, TypeOK
      <4> QED BY <2>4, <4>1 DEF OwnGuard
    <3>2. CASE u = t
      <4>1. PICK k \in 1..Len(inside[t]) :
               /\ inside[t][k] = pc[t].i
               /\ \A m \in 1..Len(inside[t]) : inside[t][m] = pc[t].i => m = k
        BY <2>4, <3>2 DEF OwnGuard
      <4>2. /\ Len(inside[t]) > 0 /\ Len(inside'[t]) = Len(inside[t]) - 1
            /\ \A m \in 1..(Len(inside[t]) - 1) : inside'[t][m] = inside[t][m]
            /\ Len(inside[t]) \in Nat
        BY <1>0, <2>1, GuardStack
      <4>3. k \in 1..(Len(inside[t]) - 1)
        BY <2>1, <2>4, <3>2, <4>1, <4>2
      <4>4. \A m \in 1..(Len(inside[t]) - 1) : m \in 1..Len(inside[t])
        BY <4>2
      <4>5. /\ k \in 1..Len(inside'[t]) /\ inside'[t][k] = pc[t].i /\ pc[t].op = "closing"
            /\ \A m \in 1..Len(inside'[t]) : inside'[t][m] = pc[t].i => m = k
        BY <2>1, <2>4, <3>2, <4>1, <4>2, <4>3, <4>4
      <4> QED BY <3>2, <4>5
    <3> QED BY <3>1, <3>2
  <2>5. OwnGuard'
    BY <2>1, <2>4 DEF OwnGuard
  <2> QED BY <2>3, <2>5
<1>14. ASSUME DropLock(t) PROVE (Guards /\ Swept /\ OwnGuard)'
  <2> DEFINE i == pc[t].i
  <2>1. /\ Push(t, i) /\ handles' = handles /\ vmof' = vmof /\ lock' = lock /\ swept' = swept
        /\ pc[t].op = "drop" /\ i \in Inner
        /\ \A u \in Thread : pc'[u] = IF u = t THEN [op |-> "closing", i |-> i] ELSE pc[u]
    BY <1>0, <1>14 DEF DropLock, TypeOK, IInv, Begun
  <2>2. \A u \in Thread : Frames(u)' = IF u = t THEN Frames(u) \cup {i} ELSE Frames(u)
    BY <1>0, <2>1, PushFrames
  <2>3. i \notin Frames(t)
    BY <1>14, <2>1 DEF DropLock, Guards, IInv, Begun, Teardown
  <2>4. Guards' /\ Swept'
    BY <2>1, <2>2 DEF Guards, Swept
  <2>5. ASSUME NEW u \in Thread, pc'[u].op \in Tearing
        PROVE  \E k \in 1..Len(inside'[u]) :
                 /\ inside'[u][k] = pc'[u].i
                 /\ \A m \in 1..Len(inside'[u]) : inside'[u][m] = pc'[u].i => m = k
                 /\ pc'[u].op # "closing" => k = Len(inside'[u])
    <3>1. CASE u # t
      <4>1. inside'[u] = inside[u] /\ pc'[u] = pc[u]
        BY <1>0, <2>1, <3>1, GuardStack
      <4> QED BY <2>5, <4>1 DEF OwnGuard
    <3>2. CASE u = t
      <4>1. /\ Len(inside'[t]) = Len(inside[t]) + 1 /\ inside'[t][Len(inside[t]) + 1] = i
            /\ \A m \in 1..Len(inside[t]) : inside'[t][m] = inside[t][m] /\ inside[t][m] # i
            /\ Len(inside[t]) \in Nat
        BY <1>0, <2>1, <2>3, GuardStack
      <4>2. /\ pc'[u].i = i /\ Len(inside'[t]) \in 1..Len(inside'[t])
            /\ inside'[t][Len(inside'[t])] = i
        BY <2>1, <3>2, <4>1
      <4>3. \A m \in 1..Len(inside'[t]) : m \in 1..Len(inside[t]) \/ m = Len(inside'[t])
        BY <4>1
      <4> QED BY <3>2, <4>1, <4>2, <4>3
    <3> QED BY <3>1, <3>2
  <2>6. OwnGuard'
    BY <2>5 DEF OwnGuard
  <2> QED BY <2>4, <2>6
<1>15. ASSUME DropGuard(t) PROVE (Guards /\ Swept /\ OwnGuard)'
  <2>1. /\ Pop(t) /\ handles' = handles /\ vmof' = vmof /\ lock' = lock /\ swept' = swept
        /\ pc[t].op = "unlock"
        /\ \A u \in Thread : pc'[u] = IF u = t THEN [op |-> "unregister", i |-> pc[t].i] ELSE pc[u]
    BY <1>0, <1>15 DEF DropGuard, TypeOK
  <2>2. \A u \in Thread : Frames(u)' \subseteq Frames(u)
    BY <1>0, <2>1, PopFrames
  <2>3. pc[t].i \notin Frames(t)'
    <3>1. PICK k \in 1..Len(inside[t]) :
             /\ \A m \in 1..Len(inside[t]) : inside[t][m] = pc[t].i => m = k
             /\ k = Len(inside[t])
      BY <2>1 DEF OwnGuard
    <3>2. Len(inside[t]) \in Nat /\ inside[t] # <<>>
      BY <1>0, <3>1, GuardStack
    <3>3. /\ Len(inside'[t]) = Len(inside[t]) - 1
          /\ \A m \in 1..(Len(inside[t]) - 1) : inside'[t][m] = inside[t][m]
      BY <1>0, <2>1, <3>2, GuardStack
    <3>4. \A m \in 1..(Len(inside[t]) - 1) : m \in 1..Len(inside[t]) /\ m # Len(inside[t])
      BY <3>2
    <3> QED BY <3>1, <3>3, <3>4 DEF Frames
  <2>4. Guards' /\ Swept'
    BY <2>1, <2>2, <2>3 DEF Guards, Swept
  <2>5. \A u \in Thread : u # t => inside'[u] = inside[u]
    BY <1>0, <2>1, GuardStack
  <2>6. OwnGuard'
    BY <2>1, <2>5 DEF OwnGuard
  <2> QED BY <2>4, <2>6
<1> QED
  BY <1>1, <1>2, <1>3, <1>4, <1>5, <1>6, <1>7, <1>8, <1>9, <1>10, <1>11, <1>12,
     <1>13, <1>14, <1>15
  DEF Step, Progress, CloseStep

\* The guards of owners are in order throughout.
LEMMA GuardInvariance == Spec => []GInv
<1>1. Init => Guards /\ Swept /\ OwnGuard
  BY DEF Init, Guards, Swept, OwnGuard, Frames, Idle, Tearing
<1>2. GInv /\ [Next]_vars => GInv'
  <2>1. ASSUME GInv, NEW t \in Thread, Step(t) PROVE GInv'
    BY ONLY <2>1, StepGuarded, StepKeeps DEF GInv, IInv
  <2>2. ASSUME GInv, UNCHANGED vars PROVE GInv'
    <3>1. \A t \in Thread : Frames(t)' = Frames(t)
      BY <2>2 DEF Frames, vars
    <3> QED
      BY <2>2, <3>1, StutterKeeps
      DEF GInv, Guards, Swept, OwnGuard, vars, lifetime, fields
  <2> QED BY <2>1, <2>2 DEF Next
<1> QED BY <1>1, <1>2, InitHolds, PTL DEF Spec, GInv

\* A guard taken through an owned LuaInner keeps its VM open and its registry
\* there; only the teardown of that very LuaInner is inside a VM that closes.
\* Borrowed wrappers may have escaped to other threads or into userdata.
THEOREM OwnersKeepAliveCorrect == Spec => []OwnersKeepAlive
<1>1. GInv => OwnersKeepAlive
  <2> SUFFICES ASSUME GInv, NEW t \in Thread, NEW i \in Frames(t) \ Borrowed, pc[t].i # i
               PROVE  Alive(i) /\ i \notin swept
    BY DEF OwnersKeepAlive
  <2>1. i \in Inner /\ vmof[i] = i
    BY FramesMade DEF GInv, Borrowed
  <2>2. t \in handles[i]
    BY <2>1 DEF GInv, Guards
  <2> QED BY <2>1, <2>2 DEF GInv, IInv, OwnedAlive, Swept
<1> QED BY <1>1, GuardInvariance, PTL

-----------------------------------------------------------------------------
(***************************************************************************)
(* The contract: as long as the handles a callback is given do not outlive *)
(* it, no guard is held on a VM that is closed.                            *)
(***************************************************************************)
\* The outermost guard of a thread in a VM is one of the owner.
Outermost ==
  \A t \in Thread : \A k \in 1..Len(inside[t]) :
    \E m \in 1..k : inside[t][m] = vmof[inside[t][k]]

\* A thread with a handle of a borrowed LuaInner is inside its VM,
Scoped ==
  \A t \in Thread, i \in Inner : t \in handles[i] => vmof[i] \in {i} \cup Frames(t)

\* as is one that makes a borrowed LuaInner.
Calling ==
  \A t \in Thread : pc[t].op \in {"lookup", "insert"} =>
    vmof[pc[t].i] \in {pc[t].i} \cup Frames(t)

\* The teardown has no other guard of the VM,
Alone ==
  \A t \in Thread : pc[t].op \in Tearing =>
    \A i \in Frames(t) : vmof[i] = pc[t].i => i = pc[t].i

\* and once lua_close is over no other handle.
Gone ==
  \A t \in Thread : pc[t].op \in {"clear", "unlock"} =>
    \A i \in Inner : t \in handles[i] => vmof[i] # pc[t].i

KInv == GInv /\ Outermost /\ Scoped /\ Calling /\ Alone /\ Gone

\* A thread inside a VM has a guard of the owner.
LEMMA OwnerBelow ==
  ASSUME TypeOK, Outermost, NEW t \in Thread, NEW i \in Frames(t)
  PROVE  vmof[i] \in Frames(t)
<1>1. PICK k \in 1..Len(inside[t]) : inside[t][k] = i
  BY DEF Frames
<1>2. PICK m \in 1..k : inside[t][m] = vmof[i]
  BY <1>1 DEF Outermost
<1>3. m \in 1..Len(inside[t])
  BY <1>1, <1>2, GuardStack
<1> QED BY <1>2, <1>3 DEF Frames

\* A step that takes and drops no guard.
LEMMA StillScoped ==
  ASSUME KInv, inside' = inside,
         \A i \in Inner : vmof[i] # Nil => vmof'[i] = vmof[i],
         \A t \in Thread, i \in Inner : t \in handles'[i] =>
            (t \in handles[i] /\ vmof[i] # Nil) \/ vmof'[i] \in {i} \cup Frames(t),
         \A t \in Thread : pc'[t].op \in {"lookup", "insert"} =>
            vmof'[pc'[t].i] \in {pc'[t].i} \cup Frames(t),
         \A t \in Thread : pc'[t].op \in Tearing =>
            pc[t].op \in Tearing /\ pc'[t].i = pc[t].i,
         \A t \in Thread : pc'[t].op \in {"clear", "unlock"} =>
            \A i \in Inner : t \in handles'[i] => vmof'[i] # pc'[t].i
  PROVE  (Outermost /\ Scoped /\ Calling /\ Alone /\ Gone)'
<1> USE DEF KInv, GInv
<1>1. /\ \A t \in Thread : Frames(t)' = Frames(t)
      /\ \A t \in Thread : \A i \in Frames(t) : i \in Inner /\ vmof'[i] = vmof[i]
  BY FramesMade DEF Frames
<1>2. Outermost'
  <2>1. \A t \in Thread : \A k \in 1..Len(inside[t]) : inside[t][k] \in Frames(t)
    BY DEF Frames
  <2> QED BY <1>1, <2>1 DEF Outermost
<1>3. Scoped'
  BY <1>1 DEF Scoped
<1>4. Calling' /\ Gone'
  BY <1>1 DEF Calling, Gone
<1>5. Alone'
  BY <1>1 DEF Alone
<1> QED BY <1>2, <1>3, <1>4, <1>5

\* Every step of a thread keeps the handles in their scopes.
LEMMA StepScoped ==
  ASSUME Escape = {}, KInv, TypeOK', NEW t \in Thread, Step(t)
  PROVE  (Outermost /\ Scoped /\ Calling /\ Alone /\ Gone)'
<1> USE IdsAssumption DEF Idle, At, Goto, lifetime, stores, fields, Borrowed, Tearing
<1>0. /\ TypeOK /\ ~InDestructor(t)
      /\ \A u \in Thread : \A i \in Frames(u) : i \in Inner /\ vmof[i] # Nil /\ vmof[i] \in Frames(u)
      /\ \A i \in Inner : \A u \in handles[i] : vmof[i] # Nil
      /\ \A u \in Thread : pc[u].op # "idle" => pc[u].i \in Inner /\ handles[pc[u].i] = {} /\ vmof[pc[u].i] # Nil
  <2>1. TypeOK /\ IInv /\ Outermost /\ ~InDestructor(t)
    BY DEF KInv, GInv, IInv, InDestructor
  <2>2. \A u \in Thread : \A i \in Frames(u) : i \in Inner /\ vmof[i] # Nil /\ vmof[i] \in Frames(u)
    BY <2>1, FramesMade, OwnerBelow
  <2>3. \A i \in Inner : \A u \in handles[i] : vmof[i] # Nil
    BY <2>1 DEF IInv, Wrappers
  <2>4. \A u \in Thread : pc[u].op # "idle" => pc[u].i \in Inner /\ handles[pc[u].i] = {} /\ vmof[pc[u].i] # Nil
    BY <2>1 DEF IInv, Begun
  <2> QED BY <2>1, <2>2, <2>3, <2>4
<1>1. ASSUME NEW i \in Inner, NEW a \in Addr, New(t, i, a)
      PROVE  (Outermost /\ Scoped /\ Calling /\ Alone /\ Gone)'
  <2>1. \A k \in Inner : vmof'[k] = IF k = i THEN i ELSE vmof[k]
    BY <1>0, <1>1 DEF New, TypeOK
  <2>2. \A u \in Thread : pc'[u] = IF u = t THEN [op |-> "lookup", i |-> i] ELSE pc[u]
    BY <1>0, <1>1 DEF New, TypeOK
  <2>3. vmof[i] = Nil /\ inside' = inside /\ handles' = handles /\ handles[i] = {}
    BY <1>0, <1>1 DEF New, TypeOK, KInv, GInv, IInv, Wrappers
  <2>4. \A u \in Thread : pc[u].op \in {"lookup", "insert"} => pc[u].i \in Inner /\ pc[u].i # i
    BY <1>0, <2>3
  <2> QED BY <1>0, <2>1, <2>2, <2>3, <2>4, StillScoped DEF KInv, Calling, Gone
<1>2. ASSUME NEW i \in Inner, Borrow(t, i)
      PROVE  (Outermost /\ Scoped /\ Calling /\ Alone /\ Gone)'
  <2> DEFINE j == inside[t][Len(inside[t])]
  <2>0. j \in Frames(t) /\ j \in Inner
    BY <1>0, <1>2 DEF Borrow, TypeOK, Frames
  <2>1. \A k \in Inner : vmof'[k] = IF k = i THEN vmof[j] ELSE vmof[k]
    BY <1>0, <1>2 DEF Borrow, TypeOK
  <2>2. \A u \in Thread : pc'[u] = IF u = t THEN [op |-> "lookup", i |-> i] ELSE pc[u]
    BY <1>0, <1>2 DEF Borrow, TypeOK
  <2>3. vmof[i] = Nil /\ inside' = inside /\ handles' = handles /\ handles[i] = {}
    BY <1>0, <1>2 DEF Borrow, TypeOK, KInv, GInv, IInv, Wrappers
  <2>4. \A u \in Thread : pc[u].op \in {"lookup", "insert"} => pc[u].i \in Inner /\ pc[u].i # i
    BY <1>0, <2>3
  <2>5. vmof[j] \in Frames(t)
    BY <1>0, <2>0
  <2> HIDE DEF j
  <2> QED BY <1>0, <2>1, <2>2, <2>3, <2>4, <2>5, StillScoped DEF KInv, Calling, Gone
<1>3. ASSUME LockForRead(t) \/ LockForInsert(t)
      PROVE  (Outermost /\ Scoped /\ Calling /\ Alone /\ Gone)'
  <2> DEFINE i == pc[t].i
  <2>1. /\ i \in Inner /\ pc[t].op \in {"lookup", "insert"} /\ vmof[i] \in {i} \cup Frames(t)
    BY <1>0, <1>3 DEF LockForRead, LockForInsert, KInv, Calling
  <2>2. /\ \A u \in Thread : u # t => pc'[u] = pc[u]
        /\ pc'[t].op \in {"idle", "insert"} /\ (pc'[t].op = "insert" => pc'[t].i = i)
        /\ inside' = inside /\ vmof' = vmof
    BY <1>0, <1>3 DEF LockForRead, LockForInsert, Made, TypeOK
  <2>3. \A k \in Inner : handles'[k] = handles[k] \/ (k = i /\ handles'[k] = {t})
    BY <1>0, <1>3, <2>1 DEF LockForRead, LockForInsert, Made, TypeOK
  <2> HIDE DEF i
  <2> QED BY <1>0, <2>1, <2>2, <2>3, StillScoped DEF KInv, Calling, Gone
<1>4. ASSUME NEW i \in Inner, Share(t, i)
      PROVE  (Outermost /\ Scoped /\ Calling /\ Alone /\ Gone)'
  <2>1. \A k \in Inner : handles'[k] = IF k = i THEN handles[i] \cup {t} ELSE handles[k]
    BY <1>0, <1>4 DEF Share, TypeOK
  <2>2. handles[i] # {} /\ vmof[i] = i /\ pc[t].op = "idle"
    BY <1>0, <1>4 DEF Share
  <2> QED BY <1>0, <1>4, <2>1, <2>2, StillScoped DEF Share, KInv, Calling, Gone
<1>5. ASSUME NEW i \in Inner, Destruct(t, i)
      PROVE  (Outermost /\ Scoped /\ Calling /\ Alone /\ Gone)'
  <2>1. \A k \in Inner : \A u \in handles'[k] : u \in handles[k] \/ (k = i /\ u = t)
    BY <1>0, <1>5 DEF Destruct, TypeOK
  <2>2. vmof[i] \in Frames(t) /\ pc[t].op = "idle"
    BY <1>0, <1>5 DEF Destruct, InVM
  <2> QED BY <1>0, <1>5, <2>1, <2>2, StillScoped DEF Destruct, KInv, Calling, Gone
<1>6. ASSUME NEW i \in Inner, set_memory_limit(t, i)
      PROVE  (Outermost /\ Scoped /\ Calling /\ Alone /\ Gone)'
  BY <1>0, <1>6, StillScoped DEF set_memory_limit, KInv, Calling, Gone
<1>7. ASSUME NEW i \in Inner, DropHandle(t, i)
      PROVE  (Outermost /\ Scoped /\ Calling /\ Alone /\ Gone)'
  <2>1. \A k \in Inner : handles'[k] \subseteq handles[k]
    BY <1>0, <1>7 DEF DropHandle, TypeOK
  <2>2. /\ \A u \in Thread : u # t => pc'[u] = pc[u]
        /\ pc'[t] = pc[t] \/ pc'[t].op = "drop"
    BY <1>0, <1>7 DEF DropHandle, TypeOK
  <2> QED BY <1>0, <1>7, <2>1, <2>2, StillScoped DEF DropHandle, KInv, Calling, Gone
<1>8. ASSUME Close(t) PROVE (Outermost /\ Scoped /\ Calling /\ Alone /\ Gone)'
  <2>1. \A u \in Thread : pc'[u] = IF u = t THEN [op |-> "clear", i |-> pc[t].i] ELSE pc[u]
    BY <1>0, <1>8 DEF Close, TypeOK
  <2>2. \A k \in Inner : t \in handles[k] => vmof[k] # pc[t].i
    BY <1>0, <1>8 DEF Close, BorrowedOf
  <2> QED BY <1>0, <1>8, <2>1, <2>2, StillScoped DEF Close, KInv, Calling, Gone
<1>9. ASSUME clear_memory(t) PROVE (Outermost /\ Scoped /\ Calling /\ Alone /\ Gone)'
  <2>1. \A u \in Thread : pc'[u] = IF u = t THEN [op |-> "unlock", i |-> pc[t].i] ELSE pc[u]
    BY <1>0, <1>9 DEF clear_memory, TypeOK
  <2> QED BY <1>0, <1>9, <2>1, StillScoped DEF clear_memory, KInv, Calling, Gone
<1>10. ASSUME unregister(t) PROVE (Outermost /\ Scoped /\ Calling /\ Alone /\ Gone)'
  <2>1. \A u \in Thread : pc'[u] = IF u = t THEN Idle ELSE pc[u]
    BY <1>0, <1>10 DEF unregister, TypeOK
  <2> QED BY <1>0, <1>10, <2>1, StillScoped DEF unregister, KInv, Calling, Gone
<1>11. ASSUME FreeRegistry(t) PROVE (Outermost /\ Scoped /\ Calling /\ Alone /\ Gone)'
  BY <1>0, <1>11, StillScoped DEF FreeRegistry, KInv, Calling, Gone
<1>12. ASSUME NEW i \in Inner, Enter(t, i)
      PROVE  (Outermost /\ Scoped /\ Calling /\ Alone /\ Gone)'
  <2>1. /\ Push(t, i) /\ t \in handles[i] /\ pc' = pc /\ handles' = handles /\ vmof' = vmof
        /\ pc[t].op = "idle"
    BY <1>0, <1>12 DEF Enter
  <2>2. \A u \in Thread : Frames(u)' = IF u = t THEN Frames(u) \cup {i} ELSE Frames(u)
    BY <1>0, <2>1, PushFrames
  <2>3. Scoped' /\ Calling' /\ Alone' /\ Gone'
    BY <2>1, <2>2 DEF KInv, Scoped, Calling, Alone, Gone
  <2>4. ASSUME NEW u \in Thread, NEW k \in 1..Len(inside'[u])
        PROVE  \E m \in 1..k : inside'[u][m] = vmof[inside'[u][k]]
    <3>1. CASE u # t
      <4>1. inside'[u] = inside[u]
        BY <1>0, <2>1, <3>1, GuardStack
      <4> QED BY <2>4, <4>1 DEF KInv, Outermost
    <3>2. CASE u = t
      <4>1. /\ Len(inside'[t]) = Len(inside[t]) + 1 /\ inside'[t][Len(inside[t]) + 1] = i
            /\ \A m \in 1..Len(inside[t]) : inside'[t][m] = inside[t][m]
            /\ Len(inside[t]) \in Nat
        BY <1>0, <2>1, GuardStack
      <4>2. CASE k \in 1..Len(inside[t])
        <5>1. PICK m \in 1..k : inside[t][m] = vmof[inside[t][k]]
          BY <4>2 DEF KInv, Outermost
        <5>2. m \in 1..Len(inside[t])
          BY <4>1, <4>2, <5>1
        <5> QED BY <3>2, <4>1, <4>2, <5>1, <5>2
      <4>3. CASE k = Len(inside[t]) + 1
        <5>1. vmof[i] \in {i} \cup Frames(t)
          BY <2>1 DEF KInv, Scoped
        <5>2. PICK m \in 1..k : inside'[t][m] = vmof[i]
          <6>1. CASE vmof[i] = i
            BY <4>1, <4>3, <6>1
          <6>2. CASE vmof[i] \in Frames(t)
            <7>1. PICK m \in 1..Len(inside[t]) : inside[t][m] = vmof[i]
              BY <6>2 DEF Frames
            <7>2. m \in 1..k
              BY <4>1, <4>3, <7>1
            <7> QED BY <4>1, <7>1, <7>2
          <6> QED BY <5>1, <6>1, <6>2
        <5> QED BY <3>2, <4>1, <4>3, <5>2
      <4>4. k \in 1..Len(inside[t]) \/ k = Len(inside[t]) + 1
        BY <2>4, <3>2, <4>1
      <4> QED BY <4>2, <4>3, <4>4
    <3> QED BY <3>1, <3>2
  <2>5. Outermost'
    BY <2>1, <2>4 DEF Outermost
  <2> QED BY <2>3, <2>5
<1>13. ASSUME Pop(t), inside[t] # <<>>, vmof' = vmof PROVE Outermost'
  <2>1. /\ Len(inside[t]) > 0 /\ Len(inside'[t]) = Len(inside[t]) - 1
        /\ \A m \in 1..(Len(inside[t]) - 1) : inside'[t][m] = inside[t][m]
        /\ Len(inside[t]) \in Nat
    BY <1>0, <1>13, GuardStack
  <2>2. ASSUME NEW u \in Thread, NEW k \in 1..Len(inside'[u])
        PROVE  \E m \in 1..k : inside'[u][m] = vmof[inside'[u][k]]
    <3>1. CASE u # t
      <4>1. inside'[u] = inside[u]
        BY <1>0, <1>13, <3>1 DEF Pop, TypeOK
      <4> QED BY <2>2, <4>1 DEF KInv, Outermost
    <3>2. CASE u = t
      <4>1. k \in 1..(Len(inside[t]) - 1) /\ k \in 1..Len(inside[t])
        BY <2>1, <2>2, <3>2
      <4>2. PICK m \in 1..k : inside[t][m] = vmof[inside[t][k]]
        BY <4>1 DEF KInv, Outermost
      <4>3. m \in 1..(Len(inside[t]) - 1)
        BY <2>1, <4>1, <4>2
      <4> QED BY <2>1, <3>2, <4>1, <4>2, <4>3
    <3> QED BY <3>1, <3>2
  <2> QED BY <1>13, <2>2 DEF Outermost
<1>14. ASSUME Leave(t) PROVE (Outermost /\ Scoped /\ Calling /\ Alone /\ Gone)'
  <2>1. /\ Pop(t) /\ pc' = pc /\ handles' = handles /\ vmof' = vmof /\ inside[t] # <<>>
        /\ \A i \in Borrowed : t \in handles[i] =>
             vmof[i] \in {vmof[inside'[t][k]] : k \in 1..Len(inside'[t])}
        /\ pc[t].op \in {"idle", "closing"}
    BY <1>14 DEF Leave
  <2>2. \A u \in Thread : Frames(u)' \subseteq Frames(u) /\ (u # t => Frames(u)' = Frames(u))
    <3>1. \A u \in Thread : u # t => inside'[u] = inside[u]
      BY <1>0, <2>1 DEF Pop, TypeOK
    <3>2. \A u \in Thread : u # t => Frames(u)' = Frames(u)
      BY <3>1 DEF Frames
    <3> QED BY <1>0, <2>1, <3>2, PopFrames
  <2>3. Outermost'
    BY <1>13, <2>1
  <2>4. ASSUME NEW i \in Inner, t \in handles[i] PROVE vmof[i] \in {i} \cup Frames(t)'
    <3>1. CASE vmof[i] = i
      BY <3>1
    <3>2. CASE vmof[i] # i
      <4>1. i \in Borrowed
        BY <1>0, <2>4, <3>2
      <4>2. PICK k \in 1..Len(inside'[t]) : vmof[i] = vmof[inside'[t][k]]
        BY <2>1, <2>4, <4>1
      <4>3. PICK m \in 1..k : inside'[t][m] = vmof[i]
        BY <2>1, <2>3, <4>2 DEF Outermost
      <4>4. m \in 1..Len(inside'[t])
        <5>1. Len(inside'[t]) \in Nat
          BY DEF TypeOK
        <5> QED BY <4>2, <4>3, <5>1
      <4> QED BY <4>3, <4>4 DEF Frames
    <3> QED BY <3>1, <3>2
  <2>5. Scoped'
    BY <2>1, <2>2, <2>4 DEF KInv, Scoped
  <2>6. Calling' /\ Alone' /\ Gone'
    BY <2>1, <2>2 DEF KInv, Calling, Alone, Gone
  <2> QED BY <2>3, <2>5, <2>6
<1>15. ASSUME DropLock(t) PROVE (Outermost /\ Scoped /\ Calling /\ Alone /\ Gone)'
  <2> DEFINE i == pc[t].i
  <2>1. /\ Push(t, i) /\ handles' = handles /\ vmof' = vmof
        /\ pc[t].op = "drop" /\ i \in Inner /\ vmof[i] = i /\ handles[i] = {}
        /\ \A u \in Thread : pc'[u] = IF u = t THEN [op |-> "closing", i |-> i] ELSE pc[u]
    BY <1>0, <1>15 DEF DropLock, TypeOK, KInv, GInv, IInv, Begun, Teardown
  <2>2. \A u \in Thread : Frames(u)' = IF u = t THEN Frames(u) \cup {i} ELSE Frames(u)
    BY <1>0, <2>1, PushFrames
  <2>3. \A k \in Frames(t) : vmof[k] # i
    <3>1. i \notin Frames(t)
      BY <2>1 DEF KInv, GInv, Guards
    <3> QED BY <1>0, <3>1
  <2>4. Scoped' /\ Calling' /\ Alone' /\ Gone'
    BY <2>1, <2>2, <2>3 DEF KInv, Scoped, Calling, Alone, Gone
  <2>5. ASSUME NEW u \in Thread, NEW k \in 1..Len(inside'[u])
        PROVE  \E m \in 1..k : inside'[u][m] = vmof[inside'[u][k]]
    <3>1. CASE u # t
      <4>1. inside'[u] = inside[u]
        BY <1>0, <2>1, <3>1, GuardStack
      <4> QED BY <2>5, <4>1 DEF KInv, Outermost
    <3>2. CASE u = t
      <4>1. /\ Len(inside'[t]) = Len(inside[t]) + 1 /\ inside'[t][Len(inside[t]) + 1] = i
            /\ \A m \in 1..Len(inside[t]) : inside'[t][m] = inside[t][m]
            /\ Len(inside[t]) \in Nat
        BY <1>0, <2>1, GuardStack
      <4>2. CASE k \in 1..Len(inside[t])
        <5>1. PICK m \in 1..k : inside[t][m] = vmof[inside[t][k]]
          BY <4>2 DEF KInv, Outermost
        <5>2. m \in 1..Len(inside[t])
          BY <4>1, <4>2, <5>1
        <5> QED BY <3>2, <4>1, <4>2, <5>1, <5>2
      <4>3. CASE k = Len(inside[t]) + 1
        BY <2>1, <3>2, <4>1, <4>3
      <4>4. k \in 1..Len(inside[t]) \/ k = Len(inside[t]) + 1
        BY <2>5, <3>2, <4>1
      <4> QED BY <4>2, <4>3, <4>4
    <3> QED BY <3>1, <3>2
  <2>6. Outermost'
    BY <2>1, <2>5 DEF Outermost
  <2> QED BY <2>4, <2>6
<1>16. ASSUME DropGuard(t) PROVE (Outermost /\ Scoped /\ Calling /\ Alone /\ Gone)'
  <2> DEFINE v == pc[t].i
  <2>1. /\ Pop(t) /\ handles' = handles /\ vmof' = vmof /\ pc[t].op = "unlock"
        /\ \A u \in Thread : pc'[u] = IF u = t THEN [op |-> "unregister", i |-> v] ELSE pc[u]
    BY <1>0, <1>16 DEF DropGuard, TypeOK
  <2>2. \A u \in Thread : Frames(u)' \subseteq Frames(u) /\ (u # t => Frames(u)' = Frames(u))
    <3>1. \A u \in Thread : u # t => inside'[u] = inside[u]
      BY <1>0, <2>1 DEF Pop, TypeOK
    <3>2. \A u \in Thread : u # t => Frames(u)' = Frames(u)
      BY <3>1 DEF Frames
    <3> QED BY <1>0, <2>1, <3>2, PopFrames
  <2>3. PICK n \in 1..Len(inside[t]) : n = Len(inside[t]) /\ inside[t][n] = v
    BY <2>1 DEF KInv, GInv, OwnGuard
  <2>4. inside[t] # <<>> /\ Len(inside[t]) \in Nat
    BY <1>0, <2>3, GuardStack
  <2>5. \A i \in Frames(t) : i # v => i \in Frames(t)'
    <3>1. /\ Len(inside'[t]) = Len(inside[t]) - 1
          /\ \A m \in 1..(Len(inside[t]) - 1) : inside'[t][m] = inside[t][m]
      BY <1>0, <2>1, <2>4, GuardStack
    <3>2. \A m \in 1..Len(inside[t]) : m \in 1..(Len(inside[t]) - 1) \/ m = Len(inside[t])
      BY <2>4
    <3> QED BY <2>3, <3>1, <3>2 DEF Frames
  <2>6. Outermost'
    BY <1>13, <2>1, <2>4
  <2>7. \A i \in Inner : t \in handles[i] => vmof[i] # v
    BY <2>1 DEF KInv, Gone
  <2>8. Scoped'
    BY <2>1, <2>2, <2>5, <2>7 DEF KInv, Scoped
  <2>9. Calling' /\ Alone' /\ Gone'
    BY <2>1, <2>2 DEF KInv, Calling, Alone, Gone
  <2> QED BY <2>6, <2>8, <2>9
<1>17. \A i \in Inner : ~Stash(t, i)
  BY DEF Stash
<1> QED
  BY <1>1, <1>2, <1>3, <1>4, <1>5, <1>6, <1>7, <1>8, <1>9, <1>10, <1>11, <1>12,
     <1>14, <1>15, <1>16, <1>17
  DEF Step, Progress, CloseStep

\* The contract holds throughout.
LEMMA ScopeInvariance == ASSUME Escape = {} PROVE Spec => []KInv
<1>1. Init => Outermost /\ Scoped /\ Calling /\ Alone /\ Gone
  BY DEF Init, Outermost, Scoped, Calling, Alone, Gone, Frames, Idle, Tearing
<1>2. KInv /\ [Next]_vars /\ GInv' => KInv'
  <2>1. ASSUME KInv, GInv', NEW t \in Thread, Step(t) PROVE KInv'
    BY ONLY <2>1, Escape = {}, StepScoped DEF KInv, GInv, IInv
  <2>2. ASSUME KInv, GInv', UNCHANGED vars PROVE KInv'
    <3>1. \A t \in Thread : Frames(t)' = Frames(t)
      BY <2>2 DEF Frames, vars
    <3> QED
      BY <2>2, <3>1
      DEF KInv, Outermost, Scoped, Calling, Alone, Gone, vars, lifetime, fields
  <2> QED BY <2>1, <2>2 DEF Next
<1> QED BY <1>1, <1>2, GuardInvariance, PTL DEF Spec, KInv

\* When no handle made in a callback outlives it, no guard is ever held on a
\* VM that is closed, or whose registry is gone, but by the teardown itself.
THEOREM NoUseAfterCloseCorrect ==
  ASSUME Escape = {} PROVE Spec => []NoUseAfterClose
<1>1. KInv => NoUseAfterClose
  <2> SUFFICES ASSUME KInv, NEW t \in Thread, NEW i \in Frames(t), pc[t].i # i
               PROVE  Alive(vmof[i]) /\ vmof[i] \notin swept
    BY DEF NoUseAfterClose
  <2>1. /\ vmof[i] \in Frames(t) /\ vmof[i] \in Inner /\ vmof[vmof[i]] = vmof[i]
    BY FramesMade, OwnerBelow DEF KInv, GInv, IInv, TypeOK, Wrappers
  <2>2. t \in handles[vmof[i]]
    BY <2>1 DEF KInv, GInv, Guards, Alone
  <2> QED BY <2>1, <2>2 DEF KInv, GInv, IInv, OwnedAlive, Swept
<1> QED BY <1>1, ScopeInvariance, PTL
=============================================================================
