---------------------------- MODULE LuaGC_proofs ---------------------------
(***************************************************************************)
(* Proofs about LuaGC, for any sets of objects and any size of the stacks. *)
(***************************************************************************)
EXTENDS LuaGC, TLAPS

Traversable == Table \cup Function \cup Thread

(***************************************************************************)
(* What an object refers to, in terms of the entries of tables and of the  *)
(* cells of closures and upvalues.                                         *)
(***************************************************************************)
\* The objects of entries are values that are collectable.
LEMMA ObjectsType ==
  ASSUME NEW N \in SUBSET Entry
  PROVE  Objects(N) \subseteq Obj \ Upval
<1>1. \A e \in N : e.key \in Value /\ e.val \in Value
  BY DEF Entry
<1> QED BY <1>1 DEF Objects, Value

\* Tables and upvalues refer to objects that are no upvalues, closures to
\* objects of any kind.
LEMMA RefsType ==
  ASSUME TypeOK
  PROVE  /\ refs \in [Holder -> SUBSET Obj]
         /\ \A x \in Table \cup Upval : refs[x] \subseteq Obj \ Upval
<1>1. \A h \in Table : refs[h] = Objects(node[h]) /\ refs[h] \subseteq Obj \ Upval
  <2> SUFFICES ASSUME NEW h \in Table
               PROVE  refs[h] = Objects(node[h]) /\ refs[h] \subseteq Obj \ Upval
    OBVIOUS
  <2>1. refs[h] = Objects(node[h])
    BY DEF refs, Holder
  <2>2. node[h] \in SUBSET Entry
    BY DEF TypeOK
  <2> QED BY <2>1, <2>2, ObjectsType
<1>2. \A x \in Function \cup Upval : refs[x] = cells[x]
  BY KindsAssumption DEF refs, Holder
<1>3. \A x \in Holder : refs[x] \in SUBSET Obj
  BY <1>1, <1>2 DEF TypeOK, Holder
<1>4. refs = [x \in Holder |-> refs[x]]
  BY DEF refs
<1>5. refs \in [Holder -> SUBSET Obj]
  BY <1>3, <1>4
<1>6. \A x \in Table \cup Upval : refs[x] \subseteq Obj \ Upval
  BY <1>1, <1>2 DEF TypeOK
<1> QED BY <1>5, <1>6

\* The same after a step that keeps the types.
LEMMA RefsTypeNext ==
  ASSUME TypeOK'
  PROVE  \A x \in Table \cup Function \cup Upval : refs'[x] \subseteq Obj
<1>1. ASSUME NEW h \in Table
      PROVE  refs'[h] \subseteq Obj
  <2>1. refs'[h] = Objects(node'[h])
    BY DEF refs, Holder, Objects
  <2>2. node'[h] \in SUBSET Entry
    BY DEF TypeOK
  <2> QED BY <2>1, <2>2, ObjectsType
<1>2. ASSUME NEW x \in Function \cup Upval
      PROVE  refs'[x] \subseteq Obj
  <2>1. refs'[x] = cells'[x]
    BY KindsAssumption DEF refs, Holder
  <2> QED BY <2>1 DEF TypeOK
<1> QED BY <1>1, <1>2

\* A step that leaves entries and cells alone.
LEMMA RefsUnchanged == ASSUME UNCHANGED <<node, cells>> PROVE refs' = refs
BY DEF refs, Objects

\* The entries of one table change.
LEMMA RefsNode ==
  ASSUME TypeOK, NEW h \in Table, NEW N,
         node' = [node EXCEPT ![h] = N], UNCHANGED cells
  PROVE  refs' = [refs EXCEPT ![h] = Objects(N)]
<1>1. \A x \in Table : node'[x] = IF x = h THEN N ELSE node[x]
  BY DEF TypeOK
<1>2. Objects(N)' = Objects(N)
  BY DEF Objects
<1>3. refs' = [x \in Holder |-> IF x \in Table THEN Objects(node'[x]) ELSE cells[x]]
  BY DEF refs, Objects
<1>4. refs' = [x \in Holder |-> IF x = h THEN Objects(N) ELSE refs[x]]
  BY <1>1, <1>3 DEF refs
<1> QED BY <1>4 DEF refs

\* A closure or an upvalue is written.
LEMMA RefsCell ==
  ASSUME TypeOK, NEW f \in Function \cup Upval, NEW S,
         cells' = [cells EXCEPT ![f] = S], UNCHANGED node
  PROVE  refs' = [refs EXCEPT ![f] = S]
<1>1. \A x \in Function \cup Upval : cells'[x] = IF x = f THEN S ELSE cells[x]
  BY DEF TypeOK
<1>2. refs' = [x \in Holder |-> IF x \in Table THEN Objects(node[x]) ELSE cells'[x]]
  BY DEF refs, Objects
<1>3. f \notin Table
  BY KindsAssumption
<1>4. refs' = [x \in Holder |-> IF x = f THEN S ELSE refs[x]]
  BY <1>1, <1>2, <1>3 DEF refs, Holder
<1> QED BY <1>4 DEF refs

\* The upvalues U are closed.
LEMMA RefsClose ==
  ASSUME TypeOK, NEW U \in SUBSET Upval, UNCHANGED node,
         cells' = [x \in DOMAIN cells |-> IF x \in U THEN UpvalValue(x) ELSE cells[x]]
  PROVE  refs' = [x \in DOMAIN refs |-> IF x \in U THEN UpvalValue(x) ELSE refs[x]]
<1>1. \A x \in Function \cup Upval :
        cells'[x] = IF x \in U THEN UpvalValue(x) ELSE cells[x]
  BY DEF TypeOK
<1>2. refs' = [x \in Holder |-> IF x \in Table THEN Objects(node[x]) ELSE cells'[x]]
  BY DEF refs, Objects
<1>3. U \cap Table = {}
  BY KindsAssumption
<1>4. refs' = [x \in Holder |-> IF x \in U THEN UpvalValue(x) ELSE refs[x]]
  BY <1>1, <1>2, <1>3 DEF refs, Holder
<1> QED BY <1>4 DEF refs

(***************************************************************************)
(* What marking and the barriers do to the types.                          *)
(***************************************************************************)
\* The value of an upvalue, open or closed, is never an upvalue object.
LEMMA UpvalValueType ==
  ASSUME TypeOK, NEW u \in Upval
  PROVE  UpvalValue(u) \subseteq Obj \ Upval
<1>1. CASE uvthread[u] # Nil
  <2>1. uvthread[u] \in Thread /\ uvslot[u] \in Slot
    BY <1>1 DEF TypeOK
  <2>2. stack[uvthread[u]][uvslot[u]] \in Value
    BY <2>1 DEF TypeOK
  <2> QED BY <1>1, <2>2 DEF UpvalValue, Value
<1>2. CASE uvthread[u] = Nil
  BY <1>2, RefsType DEF UpvalValue
<1> QED BY <1>1, <1>2

\* reallymarkobject gives colours to objects and queues only what it has to
\* traverse.
LEMMA MarkType ==
  ASSUME TypeOK, NEW S \in SUBSET Obj
  PROVE  /\ markcol(S) \in [Obj -> Colour]
         /\ markgray(S) \subseteq Traversable
<1>1. markcol(S) \in [Obj -> Colour]
  BY DEF markcol, TypeOK, Colour
<1>2. Marked(S) \subseteq Obj
  BY UpvalValueType DEF Marked, Whitened
<1>3. markgray(S) \subseteq Traversable
  BY <1>2 DEF markgray, Traversable, Obj
<1> QED BY <1>1, <1>3

\* The forward barrier.
LEMMA BarrierfType ==
  ASSUME TypeOK, NEW o \in Obj, NEW v \in Obj, luaC_barrierf(o, v)
  PROVE  /\ col' \in [Obj -> Colour]
         /\ gray' \cup grayagain' \subseteq Traversable
         /\ weak' \subseteq Table
<1>1. markcol({v}) \in [Obj -> Colour] /\ markgray({v}) \subseteq Traversable
  BY MarkType
<1> QED BY <1>1 DEF luaC_barrierf, TypeOK, Traversable, Colour

\* The barrier of tables, backward or forward.
LEMMA BarriertableType ==
  ASSUME TypeOK, NEW t \in Table, NEW S \in SUBSET Obj, luaC_barriertable(t, S)
  PROVE  /\ col' \in [Obj -> Colour]
         /\ gray' \cup grayagain' \subseteq Traversable
         /\ weak' \subseteq Table
<1>1. markcol(S) \in [Obj -> Colour] /\ markgray(S) \subseteq Traversable
  BY MarkType
<1> QED BY <1>1 DEF luaC_barriertable, TypeOK, Traversable, Colour

\* The barrier of threads.
LEMMA ThreadbarrierType ==
  ASSUME TypeOK, NEW t \in Thread, luaC_threadbarrier(t)
  PROVE  /\ col' \in [Obj -> Colour]
         /\ gray' \cup grayagain' \subseteq Traversable
         /\ weak' \subseteq Table
BY DEF luaC_threadbarrier, TypeOK, Traversable, Colour

\* What an object on a gray list refers to is an object.
LEMMA ChildrenType ==
  ASSUME TypeOK, NEW o \in Traversable
  PROVE  Children(o) \subseteq Obj
<1>1. CASE o \in Table
  BY <1>1, RefsType, KindsAssumption DEF Children, traversetable, TypeOK, Obj, Holder
<1>2. CASE o \in Function
  BY <1>2, RefsType, KindsAssumption DEF Children, traverseclosure, Obj, Holder
<1>3. CASE o \in Thread
  <2>1. LiveSlots(o) \subseteq Obj
    <3>1. \A i \in 1..top[o] : stack[o][i] \in Value
      BY <1>3, BoundsAssumption DEF TypeOK, Slot
    <3> QED BY <3>1 DEF LiveSlots, Value
  <2> QED
    BY <1>3, <2>1, KindsAssumption
    DEF Children, traversestack, Resumed, OpenUpvals, Obj
<1> QED BY <1>1, <1>2, <1>3 DEF Traversable

\* A register that is written keeps the stacks well-formed.
LEMMA PutType ==
  ASSUME TypeOK, NEW i \in Slot, NEW v \in Value, Put(i, v)
  PROVE  stack' \in [Thread -> [Slot -> Value]] /\ top' \in [Thread -> 0..NSlots]
BY BoundsAssumption DEF Put, TypeOK, Slot

\* The running thread names objects that are no upvalues.
LEMMA HandType == ASSUME TypeOK PROVE Hand \subseteq Obj \ Upval
<1>1. \A i \in 1..top[run] : stack[run][i] \in Value
  BY BoundsAssumption DEF TypeOK, Slot
<1> QED BY <1>1, KindsAssumption DEF Hand, LiveSlots, Value, Obj

(***************************************************************************)
(* Type correctness.  That Yield has a thread to return to is not a matter *)
(* of types: it comes from the chain of resumed threads.                   *)
(***************************************************************************)
IInv == TypeOK /\ ResumeChain

\* A new VM: its main thread runs and nothing is marked.
LEMMA InitIInv == Init => IInv
BY KindsAssumption, BoundsAssumption
DEF Init, IInv, TypeOK, ResumeChain, isactive, Obj, Colour, GCStates, Slot, Value, Entry

\* The steps of the program keep the types.
LEMMA ProgramType == ASSUME IInv, Program PROVE TypeOK'
<1> USE KindsAssumption, BoundsAssumption DEF IInv
<1> DEFINE Marks == /\ col' \in [Obj -> Colour]
                   /\ gray' \cup grayagain' \subseteq Traversable
                   /\ weak' \subseteq Table
<1>1. ASSUME NEW i \in Slot, NEW o \in Obj, Put(i, o), o \notin Upval
      PROVE  stack' \in [Thread -> [Slot -> Value]] /\ top' \in [Thread -> 0..NSlots]
  BY <1>1, PutType DEF Value
<1>2. ASSUME NEW i \in Slot, NEW o \in Obj, NewObject(o, i)
      PROVE  TypeOK'
  <2>1. o \notin Upval
    BY <1>2 DEF NewObject
  <2> QED
    BY <1>1, <1>2, <2>1
    DEF NewObject, TypeOK, Colour, lists, heap, upvals, control, schedule
<1>3. ASSUME NEW i \in Slot, NEW s \in String, luaS_newlstr(s, i)
      PROVE  TypeOK'
  <2>1. s \in Obj /\ s \notin Upval
    BY DEF Obj
  <2> QED
    BY <1>1, <1>3, <2>1
    DEF luaS_newlstr, TypeOK, Colour, lists, heap, upvals, control, schedule
<1>4. ASSUME NEW i \in Slot, Load(i)
      PROVE  TypeOK'
  <2>1. PICK x \in Hand : \E v \in Readable(x) : Put(i, v)
    BY <1>4 DEF Load
  <2>2. PICK v \in Readable(x) : Put(i, v)
    BY <2>1
  <2>3. v \in Obj \ Upval
    <3>1. CASE x \in Table
      BY <2>2, <3>1, RefsType DEF Readable, TypeOK, Obj
    <3>2. CASE x \in Function
      BY <2>2, <3>2, RefsType, UpvalValueType DEF Readable, Obj, Holder
    <3> QED BY <2>2, <3>1, <3>2 DEF Readable
  <2> QED
    BY <1>1, <1>4, <2>2, <2>3
    DEF Load, TypeOK, lists, heap, upvals, control, schedule
<1>5. ASSUME NEW h \in Table, NEW k \in Value, NEW v \in Value, lua_v_settable(h, k, v)
      PROVE  TypeOK'
  <2>1. Barriered(h, k, v) \in SUBSET Obj
    BY DEF Barriered, Value
  <2>2. Marks
    BY <1>5, <2>1, BarriertableType DEF lua_v_settable
  <2>3. node' \in [Table -> SUBSET Entry]
    <3>1. [key |-> k, val |-> v] \in Entry
      BY DEF Entry
    <3>2. Stored(h, k, v) \in SUBSET Entry
      BY <3>1 DEF Stored, TypeOK
    <3> QED BY <1>5, <3>2 DEF lua_v_settable, TypeOK
  <2> QED
    BY <1>5, <2>2, <2>3
    DEF lua_v_settable, TypeOK, Traversable, stacks, upvals, control, schedule
<1>6. ASSUME NEW h \in Table, Erase(h)
      PROVE  TypeOK'
  BY <1>6 DEF Erase, TypeOK, lists, stacks, upvals, control, schedule
<1>7. ASSUME NEW h \in Table, NEW m \in WeakMeta \cup {Nil}, lua_setmetatable(h, m)
      PROVE  TypeOK'
  <2>1. Marks
    <3>1. CASE m = Nil
      BY <1>7, <3>1 DEF lua_setmetatable, TypeOK, Traversable, lists
    <3>2. CASE m # Nil
      <4>1. h \in Obj /\ m \in Obj
        BY <3>2 DEF Obj
      <4> QED BY <1>7, <3>2, <4>1, BarrierfType DEF lua_setmetatable
    <3> QED BY <3>1, <3>2
  <2> QED
    BY <1>7, <2>1
    DEF lua_setmetatable, TypeOK, Traversable, stacks, upvals, control, schedule
<1>8. ASSUME NEW n \in 0..NSlots, NEW p \in 0..NSlots,
             lua_settop(n) \/ luau_precall(p, n)
      PROVE  TypeOK'
  <2>1. \A k \in 0..NSlots : Cleared(k) \in [Slot -> Value]
    BY DEF Cleared, TypeOK, Value
  <2>2. stack' \in [Thread -> [Slot -> Value]] /\ top' \in [Thread -> 0..NSlots]
    <3>1. PICK k \in {n, p} : stack' = [stack EXCEPT ![run] = Cleared(k)]
      BY <1>8 DEF lua_settop, luau_precall
    <3>2. top' = [top EXCEPT ![run] = n]
      BY <1>8 DEF lua_settop, luau_precall
    <3>3. Cleared(k) \in [Slot -> Value]
      BY <2>1
    <3>4. stack' \in [Thread -> [Slot -> Value]]
      BY <3>1, <3>3 DEF TypeOK
    <3>5. top' \in [Thread -> 0..NSlots]
      BY <3>2 DEF TypeOK
    <3> QED BY <3>4, <3>5
  <2>3. UNCHANGED <<alloc, col, lists, heap, upvals, control, schedule>>
    BY <1>8 DEF lua_settop, luau_precall
  <2> QED
    BY <2>2, <2>3 DEF TypeOK, lists, heap, upvals, control, schedule
<1>9. ASSUME NEW i \in Slot, NEW f \in Function, NewClosure(f, i)
      PROVE  TypeOK'
  <2>1. f \in Obj /\ f \notin Upval
    BY DEF Obj
  <2>2. PICK v \in Hand \cup UNION {refs[g] \cap Upval : g \in Hand \cap Function} :
          cells' = [cells EXCEPT ![f] = {v}]
    BY <1>9 DEF NewClosure
  <2>3. v \in Obj
    BY HandType DEF Obj
  <2>4. /\ cells' \in [Function \cup Upval -> SUBSET Obj]
        /\ \A x \in Upval : cells'[x] \subseteq Obj \ Upval
    BY <2>2, <2>3 DEF TypeOK
  <2>5. stack' \in [Thread -> [Slot -> Value]] /\ top' \in [Thread -> 0..NSlots]
    BY <1>1, <1>9, <2>1 DEF NewClosure
  <2> QED
    BY <1>9, <2>1, <2>4, <2>5
    DEF NewClosure, TypeOK, Colour, lists, upvals, control, schedule
<1>10. ASSUME NEW i \in Slot, NEW f \in Function, NEW s \in Slot, NEW u \in Upval,
              NewClosureRef(f, i, s, u)
       PROVE  TypeOK'
  <2>1. f \in Obj /\ f \notin Upval /\ u \in Obj
    BY DEF Obj
  <2>2. stack' \in [Thread -> [Slot -> Value]] /\ top' \in [Thread -> 0..NSlots]
    BY <1>1, <1>10, <2>1 DEF NewClosureRef
  <2>3. /\ alloc' \subseteq Obj
        /\ col' \in [Obj -> Colour]
        /\ uvthread' \in [Upval -> Thread \cup {Nil}]
        /\ uvslot' \in [Upval -> Slot]
    <3>1. \/ /\ alloc' = alloc \cup {f}
             /\ col' = [col EXCEPT ![f] = "white"]
             /\ uvthread' = uvthread /\ uvslot' = uvslot
          \/ /\ alloc' = alloc \cup {f, u}
             /\ col' = [col EXCEPT ![f] = "white", ![u] = "white"]
             /\ uvthread' = [uvthread EXCEPT ![u] = run]
             /\ uvslot' = [uvslot EXCEPT ![u] = s]
      BY <1>10 DEF NewClosureRef, upvals
    <3>2. alloc' \subseteq Obj
      BY <2>1, <3>1 DEF TypeOK
    <3>3. col' \in [Obj -> Colour]
      BY <2>1, <3>1 DEF TypeOK, Colour
    <3>4. uvthread' \in [Upval -> Thread \cup {Nil}]
      BY <3>1 DEF TypeOK
    <3>5. uvslot' \in [Upval -> Slot]
      BY <3>1 DEF TypeOK
    <3> QED BY <3>2, <3>3, <3>4, <3>5
  <2>5. markedopen' \in [Upval -> BOOLEAN]
    <3>1. \/ markedopen' = markedopen
          \/ markedopen' = [markedopen EXCEPT ![u] = FALSE]
      BY <1>10 DEF NewClosureRef, upvals
    <3> QED BY <3>1, Zenon DEF TypeOK
  <2>4. /\ cells' \in [Function \cup Upval -> SUBSET Obj]
        /\ \A x \in Upval : cells'[x] \subseteq Obj \ Upval
    BY <1>10, <2>1 DEF NewClosureRef, TypeOK
  <2> QED
    BY <1>10, <2>2, <2>3, <2>4, <2>5 DEF NewClosureRef, TypeOK, lists, control, schedule
<1>11. ASSUME NEW f \in Function, NEW v \in Value \ {Nil}, SetUpval(f, v)
       PROVE  TypeOK'
  <2>1. v \in Obj \ Upval
    BY DEF Value
  <2>2. PICK u \in refs[f] \cap Upval :
          /\ IF uvthread[u] # Nil
             THEN /\ stack' = [stack EXCEPT ![uvthread[u]][uvslot[u]] = v]
                  /\ UNCHANGED cells
             ELSE cells' = [cells EXCEPT ![u] = {v}] /\ UNCHANGED stack
          /\ luaC_barrierf(u, v)
    BY <1>11 DEF SetUpval
  <2>3. Marks
    BY <2>1, <2>2, BarrierfType DEF Obj
  <2>4. /\ stack' \in [Thread -> [Slot -> Value]]
        /\ cells' \in [Function \cup Upval -> SUBSET Obj]
        /\ \A x \in Upval : cells'[x] \subseteq Obj \ Upval
    <3>1. CASE uvthread[u] # Nil
      <4>1. uvthread[u] \in Thread /\ uvslot[u] \in Slot
        BY <2>2, <3>1 DEF TypeOK
      <4>2. cells' = cells /\ stack' = [stack EXCEPT ![uvthread[u]][uvslot[u]] = v]
        BY <2>2, <3>1
      <4> QED BY <4>1, <4>2 DEF TypeOK
    <3>2. CASE uvthread[u] = Nil
      <4>1. cells' = [cells EXCEPT ![u] = {v}] /\ stack' = stack
        BY <2>2, <3>2
      <4> QED BY <2>1, <2>2, <4>1 DEF TypeOK
    <3> QED BY <3>1, <3>2
  <2> QED
    BY <1>11, <2>3, <2>4 DEF SetUpval, TypeOK, Traversable, upvals, control, schedule
<1>12. ASSUME NEW U \in SUBSET Upval, luaF_close(U)
       PROVE  /\ cells' \in [Function \cup Upval -> SUBSET Obj]
              /\ \A x \in Upval : cells'[x] \subseteq Obj \ Upval
              /\ col' \in [Obj -> Colour]
              /\ gray' \subseteq Traversable
              /\ uvthread' \in [Upval -> Thread \cup {Nil}]
              /\ uvslot' \in [Upval -> Slot]
              /\ markedopen' \in [Upval -> BOOLEAN]
  <2> DEFINE V == IF keepinvariant
                  THEN UNION {UpvalValue(u) : u \in {w \in U : col[w] = "gray"}}
                  ELSE {}
  <2>1. V \in SUBSET Obj
    BY UpvalValueType
  <2>2. markcol(V) \in [Obj -> Colour] /\ markgray(V) \subseteq Traversable
    BY <2>1, MarkType
  <2>3. col' \in [Obj -> Colour] /\ gray' \subseteq Traversable
    BY <1>12, <2>2 DEF luaF_close, TypeOK, Colour, Traversable
  <2>4. /\ cells' \in [Function \cup Upval -> SUBSET Obj]
        /\ \A x \in Upval : cells'[x] \subseteq Obj \ Upval
    BY <1>12, UpvalValueType DEF luaF_close, TypeOK
  <2>5. uvthread' \in [Upval -> Thread \cup {Nil}] /\ uvslot' \in [Upval -> Slot]
    BY <1>12 DEF luaF_close, TypeOK
  <2>6. markedopen' \in [Upval -> BOOLEAN]
    BY <1>12, Zenon DEF luaF_close, TypeOK
  <2> QED BY <2>3, <2>4, <2>5, <2>6
<1>13. ASSUME NEW i \in Slot, CloseUpvals(i)
       PROVE  TypeOK'
  <2>1. PICK U \in SUBSET Upval : luaF_close(U)
    BY <1>13 DEF CloseUpvals, OpenUpvals
  <2> QED
    BY <1>12, <1>13, <2>1
    DEF CloseUpvals, TypeOK, Traversable, stacks, control, schedule
<1>14. ASSUME NEW co \in Thread, Resume(co)
       PROVE  TypeOK'
  <2>1. Marks
    BY <1>14, ThreadbarrierType DEF Resume
  <2> QED
    BY <1>14, <2>1 DEF Resume, TypeOK, Traversable, heap, stacks, upvals, control
<1>15. ASSUME NEW co \in Thread, lua_resetthread(co)
       PROVE  TypeOK'
  <2>1. PICK U \in SUBSET Upval : luaF_close(U)
    BY <1>15 DEF lua_resetthread, OpenUpvals
  <2>2. stack' \in [Thread -> [Slot -> Value]] /\ top' \in [Thread -> 0..NSlots]
    BY <1>15 DEF lua_resetthread, TypeOK, Value
  <2>3. UNCHANGED <<alloc, grayagain, weak, node, meta, control, schedule>>
    BY <1>15 DEF lua_resetthread
  <2> QED
    BY <1>12, <2>1, <2>2, <2>3 DEF TypeOK, Traversable, control, schedule
<1>16. ASSUME NEW src \in Thread, NEW dst \in Thread, lua_xmove(src, dst)
       PROVE  TypeOK'
  <2>1. Marks
    BY <1>16, ThreadbarrierType DEF lua_xmove
  <2>2. top[src] \in Slot /\ top[dst] + 1 \in Slot /\ src # dst
    BY <1>16 DEF lua_xmove, TypeOK, Slot
  <2>3. stack' \in [Thread -> [Slot -> Value]]
    BY <1>16, <2>2 DEF lua_xmove, TypeOK
  <2>4. top' \in [Thread -> 0..NSlots]
    <3>1. top' = [t \in Thread |-> IF t = dst THEN top[dst] + 1
                                 ELSE IF t = src THEN top[src] - 1 ELSE top[t]]
      BY <1>16, <2>2 DEF lua_xmove, TypeOK
    <3> QED BY <2>2, <3>1 DEF TypeOK, Slot
  <2> QED
    BY <1>16, <2>1, <2>3, <2>4 DEF lua_xmove, TypeOK, Traversable, heap, upvals, control, schedule
<1>17. CASE Yield
  <2>1. from[run] \in Thread
    BY <1>17 DEF Yield, ResumeChain, isactive, TypeOK
  <2> QED
    BY <1>17, <2>1 DEF Yield, TypeOK, lists, heap, stacks, upvals, control
<1>18. Keys \cup {Nil} \subseteq Value
  BY DEF Value
<1> QED
  BY <1>2, <1>3, <1>4, <1>5, <1>6, <1>7, <1>8, <1>9, <1>10, <1>11, <1>13, <1>14,
     <1>15, <1>16, <1>17, <1>18 DEF Program

\* What a free address is left with has the type of every address.
LEMMA FreeType ==
  ASSUME TypeOK, NEW D, Free(D)
  PROVE  /\ alloc' \subseteq Obj
         /\ node' \in [Table -> SUBSET Entry]
         /\ cells' \in [Function \cup Upval -> SUBSET Obj]
         /\ \A x \in Upval : cells'[x] \subseteq Obj \ Upval
         /\ meta' \in [Table -> Table \cup {Nil}]
         /\ stack' \in [Thread -> [Slot -> Value]]
         /\ top' \in [Thread -> 0..NSlots]
<1> USE BoundsAssumption
<1>1. alloc' \subseteq Obj /\ meta' \in [Table -> Table \cup {Nil}]
  BY DEF Free, TypeOK
<1>2. /\ node' \in [Table -> SUBSET Entry]
      /\ cells' \in [Function \cup Upval -> SUBSET Obj]
      /\ \A x \in Upval : cells'[x] \subseteq Obj \ Upval
  BY DEF Free, TypeOK
<1>3. stack' \in [Thread -> [Slot -> Value]] /\ top' \in [Thread -> 0..NSlots]
  BY DEF Free, TypeOK, Value
<1> QED BY <1>1, <1>2, <1>3

\* The steps of the collector keep the types.
LEMMA CollectorType == ASSUME IInv, gcstep \/ FullBegin PROVE TypeOK'
<1> USE KindsAssumption, BoundsAssumption DEF IInv
<1>1. ASSUME MarkRoots
      PROVE  /\ col' \in [Obj -> Colour]
             /\ gray' \cup grayagain' \subseteq Traversable
             /\ weak' \subseteq Table
             /\ gcstate' \in GCStates
  <2>1. Roots \in SUBSET Obj
    BY DEF Roots, Obj
  <2>2. markcol(Roots) \in [Obj -> Colour] /\ markgray(Roots) \subseteq Traversable
    BY <2>1, MarkType
  <2> QED BY <1>1, <2>2 DEF MarkRoots, GCStates
<1>2. CASE markroot
  BY <1>1, <1>2 DEF markroot, TypeOK, Traversable, heap, stacks, upvals, schedule
<1>3. ASSUME NEW o \in Obj, propagatemark(o)
      PROVE  TypeOK'
  <2>1. o \in Traversable
    BY <1>3 DEF propagatemark, TypeOK, Traversable
  <2>2. /\ markcol(Children(o)) \in [Obj -> Colour]
        /\ markgray(Children(o)) \subseteq Traversable
    BY <2>1, ChildrenType, MarkType
  <2>3. col' \in [Obj -> Colour]
    BY <1>3, <2>2 DEF propagatemark, Colour
  <2>4. gray' \cup grayagain' \subseteq Traversable /\ weak' \subseteq Table
    BY <1>3, <2>1, <2>2 DEF propagatemark, TypeOK, Traversable
  <2>5. markedopen' \in [Upval -> BOOLEAN]
    BY <1>3, Zenon DEF propagatemark, MarkOpen, TypeOK
  <2>6. stack' \in [Thread -> [Slot -> Value]]
    <3>1. CASE stack' = stack
      BY <3>1 DEF TypeOK
    <3>2. CASE stack' # stack
      <4>1. stack' = [stack EXCEPT ![o] =
                        [i \in Slot |-> IF i > top[o] THEN Nil ELSE @[i]]]
            /\ o \in Thread
        BY <1>3, <3>2 DEF propagatemark
      <4>2. [i \in Slot |-> IF i > top[o] THEN Nil ELSE stack[o][i]] \in [Slot -> Value]
        BY <4>1 DEF TypeOK, Value
      <4> QED BY <4>1, <4>2 DEF TypeOK
    <3> QED BY <3>1, <3>2
  <2> QED
    BY <1>3, <2>3, <2>4, <2>5, <2>6
    DEF propagatemark, TypeOK, Traversable, heap, control, schedule
<1>4. CASE PropagateDone \/ PropagateAgainDone \/ AtomicGrayAgain
  BY <1>4
  DEF PropagateDone, PropagateAgainDone, AtomicGrayAgain, TypeOK, GCStates,
      lists, heap, stacks, upvals, schedule
<1>5. CASE remarkupvals
  <2> DEFINE V == UNION {UpvalValue(u) : u \in {w \in Open : col[w] = "gray"}}
  <2>1. V \in SUBSET Obj
    BY UpvalValueType DEF Open
  <2>2. markcol(V) \in [Obj -> Colour] /\ markgray(V) \subseteq Traversable
    BY <2>1, MarkType
  <2> QED
    BY <1>5, <2>2
    DEF remarkupvals, TypeOK, Traversable, GCStates, heap, stacks, upvals, schedule
<1>6. CASE AtomicWeak
  <2>1. {run} \in SUBSET Obj
    BY DEF TypeOK, Obj
  <2>2. markcol({run}) \in [Obj -> Colour] /\ markgray({run}) \subseteq Traversable
    BY <2>1, MarkType
  <2> QED
    BY <1>6, <2>2
    DEF AtomicWeak, TypeOK, Traversable, GCStates, heap, stacks, upvals, schedule
<1>7. CASE AtomicEnd
  <2> DEFINE kept   == UNION {stringmark(h) : h \in weak}
             closed == {u \in Orphans : ~iswhite(u)}
             marks  == kept \cup UNION {UpvalValue(u) : u \in closed}
  <2>1. closed \subseteq Upval
    BY DEF Orphans, Open
  <2>2. marks \in SUBSET Obj
    <3>1. kept \subseteq String
      BY DEF stringmark
    <3> QED BY <2>1, <3>1, UpvalValueType DEF Obj
  <2>3. markcol(marks) \in [Obj -> Colour]
    BY <2>2, MarkType
  <2>4. col' \in [Obj -> Colour]
    BY <1>7, <2>3 DEF AtomicEnd, Colour
  <2>5. /\ node' \in [Table -> SUBSET Entry]
        /\ cells' \in [Function \cup Upval -> SUBSET Obj]
        /\ \A x \in Upval : cells'[x] \subseteq Obj \ Upval
    BY <1>7, <2>1, UpvalValueType DEF AtomicEnd, cleartable, TypeOK
  <2>6. uvthread' \in [Upval -> Thread \cup {Nil}]
    BY <1>7 DEF AtomicEnd, TypeOK
  <2>7. markedopen' \in [Upval -> BOOLEAN]
    BY <1>7, Zenon DEF AtomicEnd
  <2> QED
    BY <1>7, <2>4, <2>5, <2>6, <2>7
    DEF AtomicEnd, TypeOK, GCStates, Obj, stacks, schedule
<1>8. ASSUME NEW o \in Obj, sweepgcopage(o)
      PROVE  TypeOK'
  <2>1. Free({x \in {o} : isdead(x)})
    BY <1>8 DEF sweepgcopage
  <2>2. col' \in [Obj -> Colour]
    BY <1>8 DEF sweepgcopage, TypeOK, Colour
  <2> QED
    BY <1>8, <2>1, <2>2, FreeType DEF sweepgcopage, TypeOK, lists, upvals, schedule
<1>9. CASE SweepDone
  BY <1>9
  DEF SweepDone, TypeOK, Colour, GCStates, lists, heap, stacks, upvals, schedule
<1>10. CASE FullBegin
  <2>1. PICK D \in SUBSET Obj : FullSweep(D)
    BY <1>10 DEF FullBegin, TypeOK
  <2>2. Free({x \in D : isdead(x)})
    BY <2>1 DEF FullSweep
  <2>3. col' \in [Obj -> Colour]
    BY <2>1 DEF FullSweep, TypeOK, Colour
  <2>4. /\ unswept' = {} /\ gcstate' = "pause" /\ full' = "swept"
        /\ UNCHANGED <<upvals, schedule>>
    BY <2>1 DEF FullSweep
  <2>5. \/ gray' = {} /\ grayagain' = {} /\ weak' = {}
        \/ UNCHANGED lists
    BY <1>10 DEF FullBegin
  <2> QED
    BY <2>2, <2>3, <2>4, <2>5, FreeType DEF TypeOK, GCStates, lists, upvals, schedule
<1>11. CASE FullMark
  <2>1. markedopen' \in [Upval -> BOOLEAN]
    BY <1>11, Zenon DEF FullMark
  <2> QED
    BY <1>1, <1>11, <2>1
    DEF FullMark, TypeOK, Traversable, heap, stacks, schedule
<1>12. CASE FullEnd
  BY <1>12 DEF FullEnd, TypeOK, lists, heap, stacks, upvals, schedule
<1> QED
  BY <1>2, <1>3, <1>4, <1>5, <1>6, <1>7, <1>8, <1>9, <1>10, <1>11, <1>12 DEF gcstep

\* Only Resume and Yield change who waits for whom: one pushes a thread that
\* is not in the chain, the other pops the last one.
LEMMA NextChain == ASSUME IInv, [Next]_vars PROVE ResumeChain'
<1> USE KindsAssumption DEF IInv, ResumeChain, isactive, TypeOK
<1>1. ASSUME NEW co \in Thread, Resume(co)
      PROVE  ResumeChain'
  BY <1>1, Nil \notin Thread DEF Resume, Obj
<1>2. CASE Yield
  BY <1>2, Nil \notin Thread DEF Yield, Obj
<1>3. CASE UNCHANGED schedule
  BY <1>3 DEF schedule
<1>4. \/ \E co \in Thread : Resume(co)
      \/ Yield
      \/ UNCHANGED schedule
  BY DEF Next, Program, gcstep, vars, NewObject, luaS_newlstr, Load, NewClosure,
         NewClosureRef, CloseUpvals, lua_v_settable, Erase, lua_setmetatable,
         lua_settop, luau_precall, SetUpval, lua_resetthread, lua_xmove, markroot, propagatemark,
         PropagateDone, PropagateAgainDone, remarkupvals, AtomicWeak,
         AtomicGrayAgain, AtomicEnd, sweepgcopage, SweepDone, FullMark, FullEnd,
         FullBegin, FullSweep
<1> QED BY <1>1, <1>2, <1>3, <1>4

\* IInv is inductive.
LEMMA NextIInv == IInv /\ [Next]_vars => IInv'
<1>1. ASSUME IInv, UNCHANGED vars
      PROVE  TypeOK'
  BY <1>1
  DEF IInv, TypeOK, vars, lists, heap, stacks, upvals, control, schedule
<1> QED BY <1>1, ProgramType, CollectorType, NextChain DEF Next, IInv

\* Every variable keeps its type, and only what can be traversed is gray:
\* whatever the program and the collector do, in any order.
THEOREM TypeCorrect == Spec => []TypeOK
<1>1. IInv => TypeOK
  BY DEF IInv
<1> QED BY <1>1, InitIInv, NextIInv, PTL DEF Spec

\* The resumed threads form a chain: lua_resume nests, and a yield always has
\* a thread to return to.
THEOREM ChainCorrect == Spec => []ResumeChain
<1>1. IInv => ResumeChain
  BY DEF IInv
<1> QED BY <1>1, InitIInv, NextIInv, PTL DEF Spec
=============================================================================
