---------------------------- MODULE LuaGC_safety ---------------------------
(***************************************************************************)
(* The collector is safe: the inductive invariant that relates the phases, *)
(* the colours, the lists and the heap, and that every step of the program *)
(* and of the collector preserves.                                         *)
(***************************************************************************)
EXTENDS LuaGC_proofs, MCGC

marked(o) == col[o] \in {"gray", "black"}

\* freeobj leaves nothing behind that an object at the same address inherits.
FreeAddresses ==
  \A o \in Obj \ alloc :
    /\ col[o] = "white"
    /\ o \in Table \cup Function \cup Upval => refs[o] = {}
    /\ o \in Table => meta[o] = Nil
    /\ o \in Thread => \A i \in Slot : stack[o][i] = Nil

\* Only what the sweep has still to visit is dead, what it has visited is
\* white, and a cycle begins with everything white.
Phases ==
  /\ \A o \in Obj : isdead(o) => o \in unswept
  /\ unswept \subseteq alloc \ {Main}
  /\ gcstate # "sweep" => unswept = {}
  /\ gcstate = "pause" => \A o \in Obj : col[o] = "white"
  /\ gcstate = "sweep" => \A o \in Obj \ (unswept \cup {Main}) : col[o] = "white"
  /\ full = "swept" => gcstate = "pause"

\* Who waits for whom has no cycles, and a thread that runs or waits is never
\* black: it is written to without a barrier.
Activity ==
  /\ \A S \in SUBSET {t \in Thread : isactive(t)} :
       S # {} => \E t \in S : from[t] \notin S
  /\ \A t \in Thread : isactive(t) \/ t = Main => col[t] # "black"

\* What is alive refers to what is alive.
LiveRefs ==
  /\ \A x \in Table \cup Function : Alive(x) => \A r \in refs[x] : Alive(r)
  /\ \A h \in Table : Alive(h) /\ meta[h] # Nil => Alive(meta[h])
  /\ \A t \in Thread : Alive(t) =>
       \A i \in Slot : stack[t][i] # Nil => Alive(stack[t][i])
  /\ \A t \in Thread : from[t] # Nil => Alive(t) /\ Alive(from[t])
  /\ \A u \in Open : Alive(u) /\ Alive(uvthread[u])
  /\ \A u \in Upval : Alive(u) /\ uvthread[u] = Nil => \A r \in refs[u] : Alive(r)
  /\ Alive(Main) /\ Alive(Globals) /\ Alive(run)

\* An upvalue is gray only while it is open, and black only when it is closed.
UpvalLinks ==
  /\ \A u \in Open : col[u] # "black" /\ uvslot[u] <= top[uvthread[u]]
  /\ \A u, w \in Open : uvthread[u] = uvthread[w] /\ uvslot[u] = uvslot[w] => u = w
  /\ \A u \in Upval : col[u] = "gray" => uvthread[u] # Nil

\* While the collector marks, black objects refer to marked ones only.  Slots
\* of a black thread that an open upvalue can write to are left out.
TriColour ==
  keepinvariant =>
    /\ marked(Main) /\ marked(Globals)
    /\ \A x \in Table \cup Function \cup Upval :
         col[x] = "black" => \A r \in refs[x] : marked(r)
    /\ \A h \in Table : col[h] = "black" /\ meta[h] # Nil => marked(meta[h])
    /\ \A t \in Thread : col[t] = "black" =>
         \A i \in Slot : \/ stack[t][i] = Nil
                         \/ marked(stack[t][i])
                         \/ \E u \in Open : uvthread[u] = t /\ uvslot[u] = i
    /\ \A u \in Open : col[uvthread[u]] = "black" => marked(u) /\ markedopen[u]

\* What is gray and can be traversed is on one of the lists, and only there.
Lists ==
  keepinvariant =>
    /\ \A o \in Traversable :
         col[o] = "gray" <=> o \in gray \cup grayagain \cup weak
    /\ gray \cap grayagain = {} /\ (gray \cup grayagain) \cap weak = {}

\* A marked thread has found the upvalues with the markedopen bit.
MarkedOpen ==
  /\ keepinvariant =>
       \A u \in Open : markedopen[u] => marked(u) /\ marked(uvthread[u])
  /\ ~keepinvariant /\ full # "swept" => \A u \in Open : ~markedopen[u]

\* What the parts of atomic() have established: the values of marked upvalues
\* are marked; the tables on the weak list are weak; the threads on grayagain
\* have been traversed for good and their stacks cleared above the top.
Atomic ==
  /\ InAtomic => \A u \in Open : marked(u) => \A v \in UpvalValue(u) : marked(v)
  /\ gcstate \in {"atomic2", "atomic3"} =>
       \A h \in weak : isweak(h) /\ marked(meta[h])
  /\ gcstate = "atomic3" =>
       \A o \in grayagain :
         /\ o \in Thread
         /\ \A r \in traversestack(o) : marked(r)
         /\ \A i \in Slot : i > top[o] => stack[o][i] = Nil
         /\ \A u \in OpenUpvals(o) : markedopen[u]

Safe == /\ FreeAddresses /\ Phases /\ Activity /\ LiveRefs /\ UpvalLinks
        /\ TriColour /\ Lists /\ MarkedOpen /\ Atomic

SInv == IInv /\ Safe

-----------------------------------------------------------------------------
(***************************************************************************)
(* Kinds, colours and what can be named.                                   *)
(***************************************************************************)
\* An address has one kind.
LEMMA Kinds ==
  /\ Table \subseteq Obj /\ Function \subseteq Obj /\ Thread \subseteq Obj
  /\ Upval \subseteq Obj /\ String \subseteq Obj
  /\ Main \in Thread /\ Globals \in Table /\ Nil \notin Obj
  /\ \A o \in Table : o \notin Function /\ o \notin Thread /\ o \notin Upval /\ o \notin String
  /\ \A o \in Function : o \notin Thread /\ o \notin Upval /\ o \notin String
  /\ \A o \in Thread : o \notin Upval /\ o \notin String
  /\ \A o \in Upval : o \notin String
BY KindsAssumption DEF Obj

\* What reallymarkobject does to the colours.
LEMMA MarkFacts ==
  ASSUME TypeOK, NEW S \in SUBSET Obj
  PROVE  /\ \A o \in Obj : marked(o) => markcol(S)[o] = col[o]
         /\ \A o \in S : markcol(S)[o] \in {"gray", "black"}
         /\ \A o \in Obj : markcol(S)[o] # col[o] =>
              /\ iswhite(o)
              /\ markcol(S)[o] = IF o \in Upval /\ uvthread[o] = Nil THEN "black" ELSE "gray"
              /\ o \in S \/ \E u \in S \cap Upval : o \in UpvalValue(u)
         /\ \A u \in Upval : markcol(S)[u] # col[u] =>
              u \in S /\ \A v \in UpvalValue(u) : markcol(S)[v] \in {"gray", "black"}
         /\ \A o \in Obj : o \in markgray(S) <=>
              o \notin Upval \cup String /\ markcol(S)[o] # col[o]
<1>1. \A o \in Obj : col[o] \in Colour
  BY DEF TypeOK
<1>2. \A u \in Upval : UpvalValue(u) \subseteq Obj \ Upval
  BY UpvalValueType
<1>3. \A o \in Obj : o \in Marked(S) <=>
        iswhite(o) /\ (o \in S \/ \E u \in S \cap Upval : iswhite(u) /\ o \in UpvalValue(u))
  BY DEF Marked, Whitened
<1>4. Marked(S) \subseteq Obj
  BY <1>2 DEF Marked, Whitened
<1>5. \A o \in Obj : markcol(S)[o] = IF o \notin Marked(S) THEN col[o]
        ELSE IF o \in Upval /\ uvthread[o] = Nil THEN "black" ELSE "gray"
  BY DEF markcol
<1>6. \A o \in Obj : o \in Marked(S) <=> markcol(S)[o] # col[o]
  BY <1>1, <1>3, <1>5 DEF iswhite, Colour
<1>7. \A o \in Obj : marked(o) => markcol(S)[o] = col[o]
  BY <1>1, <1>3, <1>5 DEF iswhite, marked
<1>8. \A o \in S : markcol(S)[o] \in {"gray", "black"}
  BY <1>1, <1>3, <1>5 DEF iswhite, Colour
<1>9. ASSUME NEW u \in Upval, markcol(S)[u] # col[u]
      PROVE  u \in S /\ \A v \in UpvalValue(u) : markcol(S)[v] \in {"gray", "black"}
  <2>1. u \in Marked(S) /\ u \in Obj
    BY <1>6, <1>9, Kinds
  <2>2. iswhite(u) /\ u \in S
    BY <1>2, <1>3, <2>1
  <2>3. ASSUME NEW v \in UpvalValue(u)
        PROVE  markcol(S)[v] \in {"gray", "black"}
    <3>1. v \in Obj
      BY <1>2
    <3>2. iswhite(v) => v \in Marked(S)
      BY <1>3, <2>2, <3>1
    <3> QED BY <1>1, <1>5, <3>1, <3>2 DEF iswhite, Colour
  <2> QED BY <2>2, <2>3
<1>10. \A o \in Obj : o \in markgray(S) <=>
         o \notin Upval \cup String /\ markcol(S)[o] # col[o]
  BY <1>6 DEF markgray
<1>11. \A o \in Obj : markcol(S)[o] # col[o] =>
         /\ iswhite(o)
         /\ markcol(S)[o] = IF o \in Upval /\ uvthread[o] = Nil THEN "black" ELSE "gray"
         /\ o \in S \/ \E u \in S \cap Upval : o \in UpvalValue(u)
  BY <1>3, <1>5, <1>6
<1> QED BY <1>7, <1>8, <1>9, <1>10, <1>11

\* The value of a live upvalue is alive: it is in the slot of a live thread,
\* or in the upvalue.
LEMMA UpvalAlive ==
  ASSUME SInv, NEW u \in Upval, Alive(u), NEW v \in UpvalValue(u)
  PROVE  Alive(v)
<1>1. CASE uvthread[u] # Nil
  <2>1. u \in Open
    BY <1>1 DEF Open, Alive
  <2>2. uvthread[u] \in Thread /\ uvslot[u] \in Slot /\ Alive(uvthread[u])
    BY <1>1, <2>1 DEF SInv, IInv, TypeOK, Safe, LiveRefs
  <2>3. v = stack[uvthread[u]][uvslot[u]] /\ v # Nil
    BY <1>1 DEF UpvalValue
  <2> QED BY <2>2, <2>3 DEF SInv, Safe, LiveRefs
<1>2. CASE uvthread[u] = Nil
  BY <1>2 DEF UpvalValue, SInv, Safe, LiveRefs
<1> QED BY <1>1, <1>2

\* The running thread names live objects.
LEMMA HandAlive ==
  ASSUME SInv, NEW x \in Hand
  PROVE  Alive(x) /\ x \in Obj \ Upval
<1>1. x \in Obj \ Upval
  BY HandType DEF SInv, IInv
<1>2. CASE x \in LiveSlots(run)
  <2>1. PICK i \in 1..top[run] : x = stack[run][i] /\ x # Nil
    BY <1>2 DEF LiveSlots
  <2>2. i \in Slot /\ run \in Thread
    BY BoundsAssumption DEF SInv, IInv, TypeOK, Slot
  <2> QED BY <1>1, <2>1, <2>2 DEF SInv, Safe, LiveRefs
<1>3. CASE x = Globals
  BY <1>1, <1>3 DEF SInv, Safe, LiveRefs
<1> QED BY <1>2, <1>3 DEF Hand

\* Only live objects can be read through them.
LEMMA ReadAlive ==
  ASSUME SInv, NEW x \in Hand, NEW v \in Readable(x)
  PROVE  Alive(v) /\ v \in Obj \ Upval
<1>1. Alive(x)
  BY HandAlive
<1>2. CASE x \in Table
  <2>1. v \in refs[x] \/ (v = meta[x] /\ v # Nil)
    BY <1>2 DEF Readable
  <2>2. v \in Obj \ Upval
    BY <1>2, <2>1, Kinds, RefsType DEF SInv, IInv, TypeOK
  <2> QED BY <1>1, <1>2, <2>1, <2>2 DEF SInv, Safe, LiveRefs
<1>3. CASE x \in Function
  <2>1. v \in refs[x] \ Upval \/ \E u \in refs[x] \cap Upval : v \in UpvalValue(u)
    BY <1>3, Kinds DEF Readable
  <2>2. CASE v \in refs[x] \ Upval
    BY <1>1, <1>3, <2>2, RefsType DEF SInv, Safe, LiveRefs, IInv, Holder
  <2>3. ASSUME NEW u \in refs[x] \cap Upval, v \in UpvalValue(u)
        PROVE  Alive(v) /\ v \in Obj \ Upval
    <3>1. Alive(u)
      BY <1>1, <1>3, <2>3 DEF SInv, Safe, LiveRefs
    <3>2. v \in Obj \ Upval
      BY <2>3, UpvalValueType DEF SInv, IInv
    <3> QED BY <2>3, <3>1, <3>2, UpvalAlive
  <2> QED BY <2>1, <2>2, <2>3
<1> QED BY <1>2, <1>3 DEF Readable

\* Nothing is dead outside of a sweep.
LEMMA NoDead ==
  ASSUME SInv, gcstate # "sweep"
  PROVE  \A o \in Obj : ~isdead(o) /\ (Alive(o) <=> o \in alloc) /\ (iswhite(o) <=> ~marked(o))
BY DEF SInv, Safe, Phases, Alive, isdead, iswhite, marked, IInv, TypeOK, Colour

-----------------------------------------------------------------------------
(***************************************************************************)
(* The program.  It writes to the stack of the running thread without any  *)
(* barrier.                                                                *)
(***************************************************************************)
\* Registers of the running thread are written, maybe with a new object or
\* with a string that is found again.
LEMMA StackWrite ==
  ASSUME SInv, TypeOK', Mutator,
         UNCHANGED <<lists, heap, upvals, control, schedule>>,
         alloc \subseteq alloc', \A u \in Upval : u \in alloc' => u \in alloc,
         \/ col' = col
         \/ \E s \in String : s \in alloc /\ isdead(s) /\ col' = [col EXCEPT ![s] = "white"],
         \A t \in Thread : t # run => stack'[t] = stack[t] /\ top'[t] = top[t],
         \A i \in Slot : stack'[run][i] # Nil =>
            (\E j \in Slot : stack'[run][i] = stack[run][j]) \/ Alive(stack[run][i])',
         \A u \in Open : uvthread[u] = run => uvslot[u] <= top'[run]
  PROVE  Safe'
<1> USE DEF SInv, Safe
<1>1. /\ gcstate' = gcstate /\ unswept' = unswept /\ full' = full
      /\ gray' = gray /\ grayagain' = grayagain /\ weak' = weak
      /\ refs' = refs /\ meta' = meta /\ from' = from /\ run' = run
      /\ uvthread' = uvthread /\ uvslot' = uvslot /\ markedopen' = markedopen
  BY RefsUnchanged DEF lists, heap, upvals, control, schedule
<1>2. \A o \in Obj : col'[o] = col[o] \/ (o \in String /\ o \in alloc /\ isdead(o) /\ col'[o] = "white")
  BY DEF IInv, TypeOK
<1>3. Open' = Open
  BY <1>1 DEF Open
<1>4. /\ keepinvariant' = keepinvariant
      /\ \A o \in Obj : marked(o)' = marked(o)
      /\ \A o \in Obj : (col'[o] = "black") = (col[o] = "black")
      /\ \A o \in Obj : (col'[o] = "gray") = (col[o] = "gray")
      /\ \A o \in Obj : isdead(o)' => isdead(o)
  BY <1>1, <1>2 DEF keepinvariant, marked, isdead
<1>5. \A o \in Obj : Alive(o) => Alive(o)'
  BY <1>4 DEF Alive
<1>6. \A o \in Obj \ String : Alive(o)' /\ o \in alloc => Alive(o)
  BY <1>2 DEF Alive, isdead
<1>7. FreeAddresses'
  <2>1. run \in alloc
    BY DEF LiveRefs, Alive
  <2>2. \A o \in Obj \ alloc' : o \notin alloc /\ o # run /\ col'[o] = col[o]
    BY <1>2, <2>1
  <2> QED BY <1>1, <2>2 DEF FreeAddresses
<1>8. Phases'
  BY <1>1, <1>2, <1>4 DEF Phases, isdead
<1>9. Activity'
  <2>1. {t \in Thread : isactive(t)}' = {t \in Thread : isactive(t)}
    BY <1>1 DEF isactive
  <2>2. \A t \in Thread : (isactive(t) \/ t = Main)' => col'[t] # "black"
    BY <1>1, <1>4, Kinds DEF Activity, isactive
  <2> QED BY <1>1, <2>1, <2>2 DEF Activity
<1>10. LiveRefs'
  <2>1. \A x \in Table \cup Function : Alive(x)' => \A r \in refs'[x] : Alive(r)'
    <3>1. ASSUME NEW x \in Table \cup Function, Alive(x)', NEW r \in refs'[x]
          PROVE  Alive(r)'
      <4>1. x \in Obj \ String /\ refs'[x] = refs[x] /\ r \in Obj
        BY <1>1, Kinds, RefsType DEF IInv, Holder
      <4>2. x \in alloc
        BY <3>1, <4>1 DEF FreeAddresses
      <4> QED BY <3>1, <4>1, <4>2, <1>5, <1>6 DEF LiveRefs
    <3> QED BY <3>1
  <2>2. \A h \in Table : Alive(h)' /\ meta'[h] # Nil => Alive(meta[h])'
    BY <1>1, <1>5, <1>6, Kinds DEF LiveRefs, FreeAddresses, IInv, TypeOK, Alive, isdead
  <2>3. \A t \in Thread : Alive(t)' =>
          \A i \in Slot : stack'[t][i] # Nil => Alive(stack[t][i])'
    <3>1. ASSUME NEW t \in Thread, Alive(t)', NEW i \in Slot, stack'[t][i] # Nil
          PROVE  Alive(stack[t][i])'
      <4>1. \A x \in Thread, j \in Slot : stack[x][j] # Nil => stack[x][j] \in Obj
        BY DEF IInv, TypeOK, Value
      <4>2. CASE t = run
        <5>1. CASE \E j \in Slot : stack'[run][i] = stack[run][j]
          <6>1. PICK j \in Slot : stack'[run][i] = stack[run][j]
            BY <5>1
          <6>2. stack[run][j] \in Obj /\ Alive(stack[run][j])
            BY <3>1, <4>1, <4>2, <6>1 DEF LiveRefs, IInv, TypeOK
          <6>3. Alive(stack[run][j]) => stack[run][j] \in alloc' /\ col'[stack[run][j]] # "dead"
            BY <1>5, <6>2 DEF Alive, isdead
          <6> QED BY <4>2, <6>1, <6>2, <6>3 DEF Alive, isdead
        <5> QED BY <1>1, <3>1, <4>2, <5>1 DEF Alive, isdead
      <4>3. CASE t # run /\ t \in alloc
        BY <3>1, <4>1, <4>3, <1>5, <1>6, Kinds DEF LiveRefs, Alive, isdead
      <4>4. CASE t # run /\ t \notin alloc
        BY <3>1, <4>4, Kinds DEF FreeAddresses
      <4> QED BY <4>2, <4>3, <4>4
    <3> QED BY <3>1
  <2>4. \A t \in Thread : from'[t] # Nil => Alive(t)' /\ Alive(from[t])'
    BY <1>1, <1>5, Kinds DEF LiveRefs, IInv, TypeOK, Alive, isdead
  <2>5. \A u \in Open' : Alive(u)' /\ Alive(uvthread[u])'
    BY <1>1, <1>3, <1>5, Kinds DEF LiveRefs, IInv, TypeOK, Open, Alive, isdead
  <2>6. \A u \in Upval : Alive(u)' /\ uvthread'[u] = Nil => \A r \in refs'[u] : Alive(r)'
    BY <1>1, <1>5, <1>6, Kinds, RefsType DEF LiveRefs, IInv, Alive
  <2>7. Alive(Main)' /\ Alive(Globals)' /\ Alive(run)'
    BY <1>1, <1>5, Kinds DEF LiveRefs, IInv, TypeOK, Alive, isdead
  <2> QED BY <2>1, <2>2, <2>3, <2>4, <2>5, <2>6, <2>7 DEF LiveRefs
<1>11. UpvalLinks'
  <2>1. \A u \in Open : u \in Upval /\ u \in Obj /\ uvthread[u] \in Thread
    BY Kinds DEF Open, IInv, TypeOK
  <2>2. \A u \in Open : uvslot[u] <= top'[uvthread[u]]
    BY <2>1 DEF UpvalLinks
  <2>3. \A u \in Upval : u \in Obj
    BY Kinds
  <2> QED BY <1>1, <1>3, <1>4, <2>1, <2>2, <2>3 DEF UpvalLinks
<1>12. TriColour'
  <2>1. run \in Thread /\ (col[run] # "black")
    BY DEF Activity, IInv, TypeOK, ResumeChain
  <2>2. \A t \in Thread : col'[t] = "black" => t # run /\ stack'[t] = stack[t]
    BY <1>4, <2>1, Kinds
  <2>3. \A t \in Thread, i \in Slot : stack[t][i] # Nil => stack[t][i] \in Obj
    BY DEF IInv, TypeOK, Value
  <2>4. ASSUME keepinvariant, NEW t \in Thread, col'[t] = "black", NEW i \in Slot
        PROVE  (\/ stack[t][i] = Nil \/ marked(stack[t][i])
                \/ \E u \in Open : uvthread[u] = t /\ uvslot[u] = i)'
    BY <1>1, <1>3, <1>4, <2>2, <2>3, <2>4, Kinds DEF TriColour, marked
  <2>5. keepinvariant =>
          /\ marked(Main)' /\ marked(Globals)'
          /\ \A x \in Table \cup Function \cup Upval :
               col'[x] = "black" => \A r \in refs'[x] : marked(r)'
    BY <1>1, <1>4, Kinds, RefsType DEF TriColour, IInv, Holder
  <2>6. keepinvariant =>
          /\ \A h \in Table : col'[h] = "black" /\ meta'[h] # Nil => marked(meta[h])'
          /\ \A u \in Open : col'[uvthread[u]] = "black" => marked(u)' /\ markedopen[u]
    BY <1>1, <1>4, Kinds DEF TriColour, IInv, TypeOK, marked, Open
  <2> QED
    BY <1>1, <1>3, <1>4, <2>4, <2>5, <2>6 DEF TriColour
<1>13. Lists'
  BY <1>1, <1>4, Kinds DEF Lists, Traversable
<1>14. MarkedOpen'
  BY <1>1, <1>3, <1>4, Kinds DEF MarkedOpen, Open, IInv, TypeOK
<1>15. Atomic'
  BY <1>1 DEF Atomic, Mutator, InAtomic
<1> QED BY <1>7, <1>8, <1>9, <1>10, <1>11, <1>12, <1>13, <1>14, <1>15

\* A register is written and the top does not sink.
LEMMA PutFacts ==
  ASSUME TypeOK, NEW i \in Slot, NEW v, Put(i, v)
  PROVE  /\ \A t \in Thread : t # run => stack'[t] = stack[t] /\ top'[t] = top[t]
         /\ \A j \in Slot : stack'[run][j] = IF j = i THEN v ELSE stack[run][j]
         /\ top[run] <= top'[run] /\ i <= top'[run]
BY BoundsAssumption DEF Put, TypeOK, Slot

\* An open upvalue of the running thread stays below the top.
LEMMA TopRises ==
  ASSUME SInv, TypeOK', run' = run, top[run] <= top'[run]
  PROVE  \A u \in Open : uvthread[u] = run => uvslot[u] <= top'[run]
<1>1. top[run] \in Nat /\ top'[run] \in Nat /\ \A u \in Upval : uvslot[u] \in Nat
  BY BoundsAssumption DEF SInv, IInv, TypeOK, Slot
<1>2. \A u \in Open : uvthread[u] = run => uvslot[u] <= top[run]
  BY DEF SInv, Safe, UpvalLinks
<1> QED BY <1>1, <1>2 DEF Open

\* lua_newtable, lua_newthread, and luaS_newlstr of a new string
LEMMA NewObjectSafe ==
  ASSUME SInv, TypeOK', NEW o \in Obj, NEW i \in Slot, NewObject(o, i)
  PROVE  Safe'
<1>1. TypeOK /\ Mutator /\ UNCHANGED <<lists, heap, upvals, control, schedule>>
  BY DEF SInv, IInv, NewObject
<1>2. o \notin Upval /\ o \notin alloc /\ alloc' = alloc \cup {o}
  BY Kinds DEF NewObject
<1>3. col' = col
  BY <1>1, <1>2 DEF NewObject, TypeOK, SInv, Safe, FreeAddresses
<1>4. /\ \A t \in Thread : t # run => stack'[t] = stack[t] /\ top'[t] = top[t]
      /\ \A j \in Slot : stack'[run][j] = IF j = i THEN o ELSE stack[run][j]
      /\ top[run] <= top'[run]
  BY <1>1, PutFacts DEF NewObject
<1>5. col[o] = "white" /\ run' = run
  BY <1>1, <1>2 DEF SInv, Safe, FreeAddresses, schedule
<1>6. \A j \in Slot : stack'[run][j] # Nil =>
        (\E k \in Slot : stack'[run][j] = stack[run][k]) \/ Alive(stack[run][j])'
  BY <1>2, <1>3, <1>4, <1>5 DEF Alive, isdead
<1>7. \A u \in Open : uvthread[u] = run => uvslot[u] <= top'[run]
  BY <1>4, <1>5, TopRises
<1> QED BY <1>1, <1>2, <1>3, <1>4, <1>6, <1>7, StackWrite

\* luaS_newlstr of a string that exists, dead or not
LEMMA NewStringSafe ==
  ASSUME SInv, TypeOK', NEW s \in String, NEW i \in Slot, luaS_newlstr(s, i)
  PROVE  Safe'
<1>1. /\ TypeOK /\ Mutator /\ UNCHANGED <<lists, heap, upvals, control, schedule>>
      /\ s \in alloc /\ alloc' = alloc /\ s \in Obj
  BY Kinds DEF SInv, IInv, luaS_newlstr
<1>2. \/ col' = col
      \/ \E x \in String : x \in alloc /\ isdead(x) /\ col' = [col EXCEPT ![x] = "white"]
  BY <1>1 DEF luaS_newlstr
<1>3. Alive(s)'
  BY <1>1 DEF luaS_newlstr, Alive, isdead, TypeOK
<1>4. /\ \A t \in Thread : t # run => stack'[t] = stack[t] /\ top'[t] = top[t]
      /\ \A j \in Slot : stack'[run][j] = IF j = i THEN s ELSE stack[run][j]
      /\ top[run] <= top'[run]
  BY <1>1, PutFacts DEF luaS_newlstr
<1>5. run' = run
  BY <1>1 DEF schedule
<1>6. \A j \in Slot : stack'[run][j] # Nil =>
        (\E k \in Slot : stack'[run][j] = stack[run][k]) \/ Alive(stack[run][j])'
  BY <1>3, <1>4, <1>5 DEF Alive, isdead
<1>7. \A u \in Open : uvthread[u] = run => uvslot[u] <= top'[run]
  BY <1>4, <1>5, TopRises
<1> QED BY <1>1, <1>2, <1>4, <1>6, <1>7, StackWrite

\* A value is read into a register.
LEMMA LoadSafe ==
  ASSUME SInv, TypeOK', NEW i \in Slot, Load(i)
  PROVE  Safe'
<1>1. /\ TypeOK /\ Mutator /\ UNCHANGED <<lists, heap, upvals, control, schedule>>
      /\ alloc' = alloc /\ col' = col
  BY DEF SInv, IInv, Load
<1>2. PICK x \in Hand : \E v \in Readable(x) : Put(i, v)
  BY DEF Load
<1>3. PICK v \in Readable(x) : Put(i, v)
  BY <1>2
<1>4. Alive(v)
  BY ReadAlive
<1>5. /\ \A t \in Thread : t # run => stack'[t] = stack[t] /\ top'[t] = top[t]
      /\ \A j \in Slot : stack'[run][j] = IF j = i THEN v ELSE stack[run][j]
      /\ top[run] <= top'[run]
  BY <1>1, <1>3, PutFacts
<1>6. run' = run
  BY <1>1 DEF schedule
<1>7. \A j \in Slot : stack'[run][j] # Nil =>
        (\E k \in Slot : stack'[run][j] = stack[run][k]) \/ Alive(stack[run][j])'
  BY <1>1, <1>4, <1>5, <1>6 DEF Alive, isdead
<1>8. \A u \in Open : uvthread[u] = run => uvslot[u] <= top'[run]
  BY <1>5, <1>6, TopRises
<1> QED BY <1>1, <1>5, <1>7, <1>8, StackWrite

\* The top moves, and the slots it uncovers keep what they held or are nil.
LEMMA TopSafe ==
  ASSUME SInv, TypeOK', NEW n \in 0..NSlots, NEW p \in 0..NSlots,
         lua_settop(n) \/ luau_precall(p, n)
  PROVE  Safe'
<1>1. /\ TypeOK /\ Mutator /\ UNCHANGED <<lists, heap, upvals, control, schedule>>
      /\ alloc' = alloc /\ col' = col
  BY DEF SInv, IInv, lua_settop, luau_precall
<1>2. PICK k \in {n, p} : stack' = [stack EXCEPT ![run] = Cleared(k)]
  BY DEF lua_settop, luau_precall
<1>3. top' = [top EXCEPT ![run] = n] /\ run' = run
  BY <1>1 DEF lua_settop, luau_precall, schedule
<1>4. \A j \in Slot : stack'[run][j] = Nil \/ stack'[run][j] = stack[run][j]
  BY <1>1, <1>2 DEF Cleared, TypeOK
<1>5. \A t \in Thread : t # run => stack'[t] = stack[t] /\ top'[t] = top[t]
  BY <1>1, <1>2, <1>3 DEF TypeOK
<1>6. top'[run] = n /\ top[run] \in Nat /\ n \in Nat
  BY <1>1, <1>3, BoundsAssumption DEF TypeOK
<1>7. \A u \in Open : uvthread[u] = run => uvslot[u] <= top'[run]
  <2>1. CASE lua_settop(n)
    BY <1>6, <2>1 DEF lua_settop, Open, OpenUpvals
  <2>2. CASE luau_precall(p, n)
    <3>1. top[run] <= top'[run]
      BY <1>6, <2>2 DEF luau_precall
    <3> QED BY <1>3, <3>1, TopRises
  <2> QED BY <2>1, <2>2
<1> QED BY <1>1, <1>4, <1>5, <1>7, StackWrite

(***************************************************************************)
(* Closures.                                                               *)
(***************************************************************************)
\* A closure f of v is made, and with it the new open upvalues N, one at most.
LEMMA ClosureWrite ==
  ASSUME SInv, TypeOK', Mutator, NEW i \in Slot, NEW f \in Function, Put(i, f),
         UNCHANGED <<lists, node, meta, control, schedule>>,
         f \notin alloc, NEW v, cells' = [cells EXCEPT ![f] = {v}], Alive(v)', col' = col,
         NEW N \in SUBSET Upval, alloc' = alloc \cup {f} \cup N, \A u, w \in N : u = w,
         \A u \in N : /\ u \notin alloc /\ uvthread'[u] = run /\ uvslot'[u] <= top'[run]
                      /\ ~markedopen'[u]
                      /\ \A w \in Open : uvthread[w] = run => uvslot[w] # uvslot'[u],
         \A u \in Upval \ N : /\ uvthread'[u] = uvthread[u] /\ uvslot'[u] = uvslot[u]
                              /\ markedopen'[u] = markedopen[u]
  PROVE  Safe'
<1> USE DEF SInv, Safe
<1>1. /\ gcstate' = gcstate /\ unswept' = unswept /\ full' = full
      /\ gray' = gray /\ grayagain' = grayagain /\ weak' = weak
      /\ meta' = meta /\ from' = from /\ run' = run
  BY DEF lists, control, schedule
<1>2. /\ \A x \in Table \cup Function \cup Upval : refs'[x] = IF x = f THEN {v} ELSE refs[x]
      /\ TypeOK /\ f \in Obj /\ f \notin Table /\ f \notin Upval /\ f \notin Thread
  <2>1. TypeOK /\ f \in Obj /\ f \notin Table /\ f \notin Upval /\ f \notin Thread
    BY Kinds DEF IInv
  <2>2. refs' = [refs EXCEPT ![f] = {v}] /\ refs \in [Holder -> SUBSET Obj]
    BY <2>1, RefsCell, RefsType
  <2> QED BY <2>1, <2>2 DEF Holder
<1>3. Open' = Open \cup N
  <2>1. run # Nil
    BY Kinds DEF IInv, TypeOK
  <2>2. \A u \in Upval : u \in alloc' <=> u \in alloc \/ u \in N
    BY <1>2
  <2> QED BY <2>1, <2>2 DEF Open
<1>4. keepinvariant' = keepinvariant /\ \A o : marked(o)' = marked(o)
  BY <1>1 DEF keepinvariant, marked
<1>5. \A o \in Obj : Alive(o) => Alive(o)'
  BY DEF Alive, isdead
<1>6. \A o \in Obj : Alive(o)' /\ o \in alloc => Alive(o)
  BY DEF Alive, isdead
<1>7. /\ \A t \in Thread : t # run => stack'[t] = stack[t] /\ top'[t] = top[t]
      /\ \A j \in Slot : stack'[run][j] = IF j = i THEN f ELSE stack[run][j]
      /\ top[run] <= top'[run]
  BY <1>2, PutFacts
<1>8. Alive(f)' /\ \A u \in N : Alive(u)' /\ col[u] = "white"
  BY <1>2, Kinds DEF FreeAddresses, Alive, isdead
<1>9. \A u \in Open : u \notin N /\ u \in alloc /\ u \in Upval
  BY DEF Open
<1>10. FreeAddresses'
  <2>1. run \in alloc /\ run \in Thread
    BY <1>2 DEF LiveRefs, Alive, TypeOK
  <2>2. \A o \in Obj \ alloc' : o \notin alloc /\ o # run /\ o # f
    BY <2>1
  <2> QED BY <1>1, <1>2, <1>7, <2>2 DEF FreeAddresses
<1>11. Phases'
  BY <1>1 DEF Phases, isdead
<1>12. Activity'
  <2>1. {t \in Thread : isactive(t)}' = {t \in Thread : isactive(t)}
    BY <1>1 DEF isactive
  <2>2. \A t \in Thread : (isactive(t) \/ t = Main)' => col'[t] # "black"
    BY <1>1 DEF Activity, isactive
  <2> QED BY <1>1, <2>1, <2>2 DEF Activity
<1>13. LiveRefs'
  <2>1. \A x \in Table \cup Function : Alive(x)' => \A r \in refs'[x] : Alive(r)'
    <3>1. ASSUME NEW x \in Table \cup Function, Alive(x)', NEW r \in refs'[x]
          PROVE  Alive(r)'
      <4>1. CASE x = f
        BY <1>2, <3>1, <4>1
      <4>2. CASE x # f
        <5>1. x \in Obj /\ refs'[x] = refs[x] /\ r \in Obj
          BY <1>2, <3>1, <4>2, Kinds, RefsType DEF Holder
        <5>2. x \in alloc
          BY <3>1, <5>1 DEF FreeAddresses
        <5> QED BY <3>1, <5>1, <5>2, <1>5, <1>6 DEF LiveRefs
      <4> QED BY <4>1, <4>2
    <3> QED BY <3>1
  <2>2. \A h \in Table : Alive(h)' /\ meta'[h] # Nil => Alive(meta[h])'
    BY <1>1, <1>2, <1>6, Kinds DEF LiveRefs, FreeAddresses, TypeOK, Alive, isdead
  <2>3. \A t \in Thread : Alive(t)' =>
          \A j \in Slot : stack'[t][j] # Nil => Alive(stack[t][j])'
    <3>1. ASSUME NEW t \in Thread, Alive(t)', NEW j \in Slot, stack'[t][j] # Nil
          PROVE  Alive(stack[t][j])'
      <4>1. t \in alloc /\ t \in Obj
        BY <1>2, <3>1, Kinds DEF Alive
      <4>2. CASE stack'[t][j] = f
        BY <1>8, <4>2 DEF Alive, isdead
      <4>3. CASE stack'[t][j] = stack[t][j]
        <5>1. Alive(stack[t][j])
          BY <1>6, <3>1, <4>1, <4>3 DEF LiveRefs
        <5> QED BY <4>3, <5>1 DEF Alive, isdead
      <4> QED BY <1>7, <4>2, <4>3
    <3> QED BY <3>1
  <2>4. \A t \in Thread : from'[t] # Nil => Alive(t)' /\ Alive(from[t])'
    BY <1>1 DEF LiveRefs, Alive, isdead
  <2>5. \A u \in Open' : Alive(u)' /\ Alive(uvthread[u])'
    <3>1. ASSUME NEW u \in Open
          PROVE  Alive(u)' /\ Alive(uvthread[u])'
      BY <1>9 DEF LiveRefs, Alive, isdead
    <3>2. ASSUME NEW u \in N
          PROVE  Alive(u)' /\ Alive(uvthread[u])'
      BY <1>8 DEF LiveRefs, Alive, isdead
    <3> QED BY <1>3, <3>1, <3>2
  <2>6. \A u \in Upval : Alive(u)' /\ uvthread'[u] = Nil => \A r \in refs'[u] : Alive(r)'
    <3>1. run # Nil
      BY Kinds DEF IInv, TypeOK
    <3>2. ASSUME NEW u \in Upval, Alive(u)', uvthread'[u] = Nil, NEW r \in refs'[u]
          PROVE  Alive(r)'
      <4>1. u \notin N /\ u # f
        BY <1>2, <3>1, <3>2
      <4>2. u \in alloc /\ uvthread[u] = Nil /\ r \in refs[u] /\ u \in Obj /\ r \in Obj
        BY <1>2, <3>2, <4>1, Kinds, RefsType DEF Alive
      <4> QED BY <1>5, <1>6, <3>2, <4>2 DEF LiveRefs
    <3> QED BY <3>2
  <2>7. Alive(Main)' /\ Alive(Globals)' /\ Alive(run)'
    BY <1>1 DEF LiveRefs, Alive, isdead
  <2> QED BY <2>1, <2>2, <2>3, <2>4, <2>5, <2>6, <2>7 DEF LiveRefs
<1>14. UpvalLinks'
  <2>1. run # Nil /\ run \in Thread
    BY Kinds DEF IInv, TypeOK
  <2>2. \A t \in Thread : top[t] \in Nat /\ top'[t] \in Nat /\ top[t] <= top'[t]
    <3>1. \A t \in Thread : top[t] \in Nat /\ top'[t] \in Nat
      BY BoundsAssumption DEF IInv, TypeOK
    <3> QED BY ONLY <1>7, <3>1
  <2>3. \A u \in Upval : uvslot[u] \in Nat /\ uvslot'[u] \in Nat
    BY BoundsAssumption DEF IInv, TypeOK, Slot
  <2>4. \A u \in Open : uvthread[u] \in Thread
    BY DEF Open, IInv, TypeOK
  <2>5. \A u \in Open' : col'[u] # "black" /\ uvslot'[u] <= top'[uvthread'[u]]
    BY <1>3, <1>8, <1>9, <2>2, <2>3, <2>4 DEF UpvalLinks
  <2>6. \A u, w \in Open' : uvthread'[u] = uvthread'[w] /\ uvslot'[u] = uvslot'[w] => u = w
    BY <1>3, <1>9 DEF UpvalLinks
  <2>7. \A u \in Upval : col'[u] = "gray" => uvthread'[u] # Nil
    BY <2>1 DEF UpvalLinks
  <2> QED BY <2>5, <2>6, <2>7 DEF UpvalLinks
<1>15. TriColour'
  <2>1. run \in Thread /\ (col[run] # "black")
    BY DEF Activity, IInv, TypeOK, ResumeChain
  <2>2. col[f] = "white"
    BY <1>2 DEF FreeAddresses
  <2>3. ASSUME keepinvariant
        PROVE  /\ marked(Main)' /\ marked(Globals)'
               /\ \A x \in Table \cup Function \cup Upval :
                    col'[x] = "black" => \A r \in refs'[x] : marked(r)'
               /\ \A h \in Table : col'[h] = "black" /\ meta'[h] # Nil => marked(meta[h])'
    BY <1>1, <1>2, <1>4, <2>2, <2>3 DEF TriColour, marked
  <2>4. ASSUME keepinvariant, NEW t \in Thread, col'[t] = "black", NEW j \in Slot
        PROVE  (\/ stack[t][j] = Nil \/ marked(stack[t][j])
                \/ \E u \in Open : uvthread[u] = t /\ uvslot[u] = j)'
    <3>1. t # run /\ stack'[t][j] = stack[t][j]
      BY <1>7, <2>1, <2>4
    <3>2. \/ stack[t][j] = Nil \/ marked(stack[t][j])
          \/ \E u \in Open : uvthread[u] = t /\ uvslot[u] = j
      BY <2>4 DEF TriColour
    <3>3. ASSUME NEW u \in Open, uvthread[u] = t, uvslot[u] = j
          PROVE  u \in Open' /\ uvthread'[u] = t /\ uvslot'[u] = j
      BY <1>3, <1>9, <3>3
    <3> QED BY <3>1, <3>2, <3>3 DEF marked
  <2>5. ASSUME keepinvariant, NEW u \in Open', col'[uvthread'[u]] = "black"
        PROVE  marked(u)' /\ markedopen'[u]
    <3>1. u \in Open
      BY <1>3, <2>1, <2>5
    <3> QED BY <1>4, <1>9, <2>5, <3>1 DEF TriColour
  <2> QED BY <1>4, <2>3, <2>4, <2>5 DEF TriColour
<1>16. Lists'
  BY <1>1, <1>4 DEF Lists
<1>17. MarkedOpen'
  <2>1. ASSUME keepinvariant, NEW u \in Open', markedopen'[u]
        PROVE  marked(u)' /\ marked(uvthread[u])'
    <3>1. u \in Open
      BY <1>3, <2>1
    <3> QED BY <1>9, <2>1, <3>1 DEF MarkedOpen, marked
  <2>2. ASSUME ~keepinvariant, full # "swept", NEW u \in Open'
        PROVE  ~markedopen'[u]
    BY <1>3, <1>9, <2>2 DEF MarkedOpen
  <2> QED BY <1>1, <1>4, <2>1, <2>2 DEF MarkedOpen
<1>18. Atomic'
  BY <1>1 DEF Atomic, Mutator, InAtomic
<1> QED
  BY <1>10, <1>11, <1>12, <1>13, <1>14, <1>15, <1>16, <1>17, <1>18

\* LOP_NEWCLOSURE: a value or an upvalue of another closure is captured.
LEMMA NewClosureSafe ==
  ASSUME SInv, TypeOK', NEW f \in Function, NEW i \in Slot, NewClosure(f, i)
  PROVE  Safe'
<1>1. /\ Mutator /\ Put(i, f) /\ UNCHANGED <<lists, node, meta, control, schedule>>
      /\ f \notin alloc /\ alloc' = alloc \cup {f} /\ UNCHANGED upvals
  BY DEF NewClosure
<1>2. col' = col
  BY Kinds DEF NewClosure, SInv, IInv, TypeOK, Safe, FreeAddresses
<1>3. PICK v \in Hand \cup UNION {refs[g] \cap Upval : g \in Hand \cap Function} :
        cells' = [cells EXCEPT ![f] = {v}]
  BY DEF NewClosure
<1>4. Alive(v)
  <2>1. CASE v \in Hand
    BY <2>1, HandAlive
  <2>2. ASSUME NEW g \in Hand \cap Function, v \in refs[g]
        PROVE  Alive(v)
    BY <2>2, HandAlive DEF SInv, Safe, LiveRefs
  <2> QED BY <2>1, <2>2
<1>5. Alive(v)'
  BY <1>1, <1>2, <1>4 DEF Alive, isdead
<1>6. \A u \in Upval : /\ uvthread'[u] = uvthread[u] /\ uvslot'[u] = uvslot[u]
                       /\ markedopen'[u] = markedopen[u]
  BY <1>1 DEF upvals
<1>7. {} \in SUBSET Upval /\ alloc' = alloc \cup {f} \cup {}
  BY <1>1
<1> QED BY ONLY SInv, TypeOK', <1>1, <1>2, <1>3, <1>5, <1>6, <1>7, ClosureWrite

\* LOP_NEWCLOSURE: a register is captured by reference, luaF_findupval.
LEMMA NewClosureRefSafe ==
  ASSUME SInv, TypeOK', NEW f \in Function, NEW i \in Slot, NEW s \in Slot, NEW u \in Upval,
         NewClosureRef(f, i, s, u)
  PROVE  Safe'
<1>1. /\ Mutator /\ Put(i, f) /\ UNCHANGED <<lists, node, meta, control, schedule>>
      /\ f \notin alloc /\ cells' = [cells EXCEPT ![f] = {u}] /\ s <= top'[run]
  BY DEF NewClosureRef
<1>2. CASE /\ u \in OpenUpvals(run) /\ uvslot[u] = s
           /\ alloc' = alloc \cup {f}
           /\ col' = [col EXCEPT ![f] = "white"]
           /\ UNCHANGED upvals
  <2>1. col' = col
    BY <1>1, <1>2, Kinds DEF SInv, IInv, TypeOK, Safe, FreeAddresses
  <2>2. Alive(u)'
    <3>1. u \in Open
      BY <1>2, Kinds DEF OpenUpvals, Open, SInv, IInv, TypeOK
    <3> QED BY <1>2, <2>1, <3>1 DEF SInv, Safe, LiveRefs, Alive, isdead
  <2>3. \A w \in Upval : /\ uvthread'[w] = uvthread[w] /\ uvslot'[w] = uvslot[w]
                         /\ markedopen'[w] = markedopen[w]
    BY <1>2 DEF upvals
  <2>4. {} \in SUBSET Upval /\ alloc' = alloc \cup {f} \cup {}
    BY <1>2
  <2> QED BY ONLY SInv, TypeOK', <1>1, <2>1, <2>2, <2>3, <2>4, ClosureWrite
<1>3. CASE /\ \A w \in OpenUpvals(run) : uvslot[w] # s
           /\ u \in Upval \ alloc
           /\ alloc' = alloc \cup {f, u}
           /\ col' = [col EXCEPT ![f] = "white", ![u] = "white"]
           /\ uvthread' = [uvthread EXCEPT ![u] = run]
           /\ uvslot' = [uvslot EXCEPT ![u] = s]
           /\ markedopen' = [markedopen EXCEPT ![u] = FALSE]
  <2>1. col' = col
    BY <1>1, <1>3, Kinds DEF SInv, IInv, TypeOK, Safe, FreeAddresses
  <2>2. Alive(u)'
    BY <1>3, <2>1, Kinds DEF SInv, Safe, FreeAddresses, Alive, isdead
  <2>3. {u} \in SUBSET Upval /\ alloc' = alloc \cup {f} \cup {u}
    BY <1>3
  <2>4. /\ u \notin alloc /\ uvthread'[u] = run /\ uvslot'[u] = s /\ ~markedopen'[u]
    BY <1>3 DEF SInv, IInv, TypeOK
  <2>5. \A w \in Open : uvthread[w] = run => uvslot[w] # s
    BY <1>3 DEF Open, OpenUpvals
  <2>6. \A w \in Upval \ {u} : /\ uvthread'[w] = uvthread[w] /\ uvslot'[w] = uvslot[w]
                               /\ markedopen'[w] = markedopen[w]
    BY <1>3 DEF SInv, IInv, TypeOK
  <2> QED BY ONLY SInv, TypeOK', <1>1, <2>1, <2>2, <2>3, <2>4, <2>5, <2>6, ClosureWrite
<1> QED BY <1>2, <1>3 DEF NewClosureRef

(***************************************************************************)
(* Barriers.  A write of the program recolours objects as Recolour says:   *)
(* while the collector marks, nothing that is marked becomes white, nothing*)
(* turns black, and the lists follow.                                      *)
(***************************************************************************)
Recolour ==
  /\ weak' = weak
  /\ \A o \in Obj : isdead(o)' <=> isdead(o)
  /\ keepinvariant => \A o \in Obj : marked(o) => marked(o)'
  /\ \A o \in Obj : col'[o] = "black" => col[o] = "black"
  /\ \A u \in Upval : col'[u] = "gray" => col[u] = "gray"
  /\ \A o \in Obj : col'[o] # col[o] =>
       o \in alloc /\ gcstate # "pause" /\ (gcstate = "sweep" => marked(o))
  /\ Lists'

\* Nothing is recoloured.
LEMMA NoBarrier ==
  ASSUME SInv, gcstate' = gcstate, UNCHANGED <<col, lists>>
  PROVE  Recolour
<1>1. col' = col /\ gray' = gray /\ grayagain' = grayagain /\ weak' = weak
  BY DEF lists
<1> QED BY <1>1 DEF Recolour, SInv, Safe, Lists, isdead, marked, keepinvariant

\* What marking values, not upvalues, does: the white ones become gray.
LEMMA MarkValues ==
  ASSUME TypeOK, NEW V \in SUBSET (Obj \ Upval)
  PROVE  /\ \A o \in Obj : markcol(V)[o] = IF o \in V /\ iswhite(o) THEN "gray" ELSE col[o]
         /\ \A o : o \in markgray(V) <=> o \in V /\ iswhite(o) /\ o \notin String
<1>1. Marked(V) = {o \in V : iswhite(o)}
  <2>1. Whitened(V) \cap Upval = {}
    BY DEF Whitened
  <2>2. UNION {UpvalValue(u) : u \in Whitened(V) \cap Upval} = {}
    BY <2>1
  <2>3. Whitened({}) = {}
    BY DEF Whitened
  <2> QED BY <2>2, <2>3 DEF Marked, Whitened
<1>2. \A o \in V : o \in Obj /\ o \notin Upval
  OBVIOUS
<1> QED BY <1>1, <1>2 DEF markcol, markgray

\* Live values are marked: the forward barrier while the collector marks.
LEMMA BarrierMark ==
  ASSUME SInv, gcstate' = gcstate, keepinvariant, NEW S \in SUBSET (Obj \ Upval), S \subseteq alloc,
         col' = markcol(S), gray' = gray \cup markgray(S),
         UNCHANGED <<grayagain, weak>>
  PROVE  Recolour /\ \A v \in S : marked(v)'
<1> USE DEF SInv, Safe
<1>1. /\ TypeOK /\ \A o \in Obj : col[o] \in Colour
      /\ gcstate \notin {"pause", "sweep"} /\ keepinvariant'
  BY DEF IInv, TypeOK, keepinvariant
<1>2. \A o \in Obj : col'[o] = IF o \in S /\ iswhite(o) THEN "gray" ELSE col[o]
  BY <1>1, MarkValues
<1>3. \A o : o \in markgray(S) <=> o \in S /\ iswhite(o) /\ o \notin String
  BY <1>1, MarkValues
<1>4. \A v \in S : v \in Obj /\ v \notin Upval /\ v \in alloc
  OBVIOUS
<1>5. \A v \in S : marked(v)'
  BY <1>1, <1>2, <1>4 DEF marked, iswhite, Colour
<1>6. Lists'
  <2>1. \A o \in Traversable : o \in Obj /\ o \notin String
    BY Kinds DEF Traversable
  <2>2. \A o \in markgray(S) : o \in Traversable /\ col[o] # "gray"
    BY <1>3, <1>4, Kinds DEF iswhite, Obj, Traversable
  <2>3. \A o \in markgray(S) : o \notin gray \cup grayagain \cup weak
    BY <2>2 DEF Lists
  <2>4. \A o \in Traversable : col'[o] = "gray" <=> col[o] = "gray" \/ o \in markgray(S)
    BY <1>2, <1>3, <2>1
  <2>5. \A o \in Traversable : col'[o] = "gray" <=> o \in gray' \cup grayagain' \cup weak'
    BY <2>4 DEF Lists
  <2>6. gray' \cap grayagain' = {} /\ (gray' \cup grayagain') \cap weak' = {}
    BY <2>3 DEF Lists
  <2> QED BY <2>5, <2>6 DEF Lists
<1>7. \A o \in Obj : isdead(o)' <=> isdead(o)
  <2>1. \A o \in Obj : ~isdead(o)
    BY <1>1, NoDead
  <2> QED BY <1>2, <2>1 DEF isdead
<1>8. \A u \in Upval : u \in Obj /\ u \notin S
  BY DEF Obj
<1>9. /\ \A o \in Obj : marked(o) => marked(o)'
      /\ \A o \in Obj : col'[o] = "black" => col[o] = "black"
      /\ \A u \in Upval : col'[u] = "gray" => col[u] = "gray"
  BY <1>2, <1>8 DEF marked
<1>10. \A o \in Obj : col'[o] # col[o] =>
         o \in alloc /\ gcstate # "pause" /\ (gcstate = "sweep" => marked(o))
  BY <1>1, <1>2, <1>4
<1> QED BY <1>5, <1>6, <1>7, <1>9, <1>10 DEF Recolour

\* A black object is turned gray and queued for the end of the cycle: the
\* backward barrier.
LEMMA BarrierBack ==
  ASSUME SInv, gcstate' = gcstate, NEW t \in Traversable, t \in alloc, col[t] = "black",
         col' = [col EXCEPT ![t] = "gray"], grayagain' = grayagain \cup {t},
         UNCHANGED <<gray, weak>>
  PROVE  Recolour
<1> USE DEF SInv, Safe
<1>1. t \in Obj /\ t \notin Upval /\ keepinvariant' = keepinvariant
  BY Kinds DEF Traversable, keepinvariant
<1>2. \A o \in Obj : col'[o] = IF o = t THEN "gray" ELSE col[o]
  BY DEF IInv, TypeOK
<1>3. Lists'
  <2>1. \A o \in Traversable : o \in Obj
    BY Kinds DEF Traversable
  <2>2. keepinvariant => t \notin gray \cup grayagain \cup weak
    BY DEF Lists
  <2> QED BY <1>1, <1>2, <2>1, <2>2 DEF Lists
<1>4. gcstate # "pause"
  BY <1>1 DEF Phases
<1> QED BY <1>1, <1>2, <1>3, <1>4 DEF Recolour, marked, isdead

\* The forward barrier outside of marking: the object is swept already.
LEMMA BarrierWhite ==
  ASSUME SInv, gcstate' = gcstate, ~keepinvariant, NEW o \in Obj, o \in alloc, col[o] = "black",
         col' = [col EXCEPT ![o] = "white"], UNCHANGED lists
  PROVE  Recolour
<1> USE DEF SInv, Safe
<1>1. \A x \in Obj : col'[x] = IF x = o THEN "white" ELSE col[x]
  BY DEF IInv, TypeOK
<1>2. Lists' /\ weak' = weak
  BY DEF Lists, keepinvariant, lists
<1>3. gcstate # "pause"
  BY DEF Phases
<1> QED BY <1>1, <1>2, <1>3 DEF Recolour, marked, isdead

\* luaC_barrierf: afterwards a black o does not refer to a white v.
LEMMA BarrierfSafe ==
  ASSUME SInv, gcstate' = gcstate, NEW o \in Obj, o \in alloc,
         NEW v \in Obj \ Upval, v \in alloc, luaC_barrierf(o, v)
  PROVE  Recolour /\ (keepinvariant /\ col'[o] = "black" => marked(v)')
<1>1. CASE ~(col[o] = "black" /\ iswhite(v))
  <2>1. UNCHANGED <<col, lists>>
    BY <1>1 DEF luaC_barrierf, lists
  <2>2. col[o] = "black" => marked(v)'
    BY <1>1, <2>1 DEF SInv, IInv, TypeOK, Colour, iswhite, marked
  <2> QED BY <2>1, <2>2, NoBarrier
<1>2. CASE col[o] = "black" /\ iswhite(v) /\ keepinvariant
  <2>1. {v} \in SUBSET (Obj \ Upval) /\ {v} \subseteq alloc
    OBVIOUS
  <2> QED BY <1>2, <2>1, BarrierMark DEF luaC_barrierf
<1>3. CASE col[o] = "black" /\ iswhite(v) /\ ~keepinvariant
  BY <1>3, BarrierWhite DEF luaC_barrierf, lists
<1> QED BY <1>1, <1>2, <1>3

\* luaC_barriertable: afterwards a black h does not refer to a white member
\* of S.
LEMMA BarriertableSafe ==
  ASSUME SInv, gcstate' = gcstate, NEW h \in Table, h \in alloc,
         NEW S \in SUBSET (Obj \ Upval), S \subseteq alloc, luaC_barriertable(h, S)
  PROVE  Recolour /\ (keepinvariant /\ col'[h] = "black" => \A v \in S : marked(v)')
<1>0. h \in Traversable /\ h \in Obj
  BY Kinds DEF Traversable
<1>1. CASE ~(col[h] = "black" /\ Whitened(S) # {})
  <2>1. UNCHANGED <<col, lists>>
    BY <1>1 DEF luaC_barriertable, lists
  <2>2. col[h] = "black" => \A v \in S : ~iswhite(v)
    BY <1>1 DEF Whitened
  <2>3. col'[h] = "black" => \A v \in S : marked(v)'
    BY <2>1, <2>2 DEF SInv, IInv, TypeOK, Colour, iswhite, marked
  <2> QED BY <2>1, <2>3, NoBarrier
<1>2. CASE col[h] = "black" /\ Whitened(S) # {} /\ gcstate = "propagateagain"
  <2>1. keepinvariant
    BY <1>2 DEF keepinvariant
  <2> QED BY <1>2, <2>1, BarrierMark DEF luaC_barriertable
<1>3. CASE col[h] = "black" /\ Whitened(S) # {} /\ gcstate # "propagateagain"
  <2>1. col'[h] = "gray"
    BY <1>0, <1>3 DEF luaC_barriertable, SInv, IInv, TypeOK
  <2> QED BY <1>0, <1>3, <2>1, BarrierBack DEF luaC_barriertable
<1> QED BY <1>1, <1>2, <1>3

\* luaC_threadbarrier
LEMMA ThreadbarrierSafe ==
  ASSUME SInv, gcstate' = gcstate, NEW t \in Thread, t \in alloc, luaC_threadbarrier(t)
  PROVE  Recolour /\ col'[t] # "black"
<1>1. t \in Traversable /\ t \in Obj
  BY Kinds DEF Traversable
<1>2. CASE col[t] # "black"
  BY <1>2, NoBarrier DEF luaC_threadbarrier, lists
<1>3. CASE col[t] = "black"
  <2>1. col'[t] = "gray"
    BY <1>1, <1>3 DEF luaC_threadbarrier, SInv, IInv, TypeOK
  <2> QED BY <1>1, <1>3, <2>1, BarrierBack DEF luaC_threadbarrier
<1> QED BY <1>2, <1>3

\* The program writes to the heap or to a stack: what it stores is alive, and
\* marked if the object stored to is black, while the collector marks.
LEMMA StepSafe ==
  ASSUME SInv, TypeOK', Mutator, UNCHANGED <<alloc, upvals, control>>, Recolour,
         Activity', Alive(run'), run' \in Thread,
         \A t \in Thread : from'[t] # Nil => from'[t] = from[t] \/ (Alive(t) /\ Alive(from'[t])),
         \A x \in Table \cup Function \cup Upval : \A r \in refs'[x] :
            \/ r \in refs[x]
            \/ Alive(r) /\ x \in alloc /\ (keepinvariant /\ col'[x] = "black" => marked(r)'),
         \A h \in Table : meta'[h] # Nil =>
            \/ meta'[h] = meta[h]
            \/ Alive(meta'[h]) /\ h \in alloc /\ (keepinvariant /\ col'[h] = "black" => marked(meta[h])'),
         \A t \in Thread, i \in Slot : stack'[t][i] # Nil =>
            \/ stack'[t][i] = stack[t][i]
            \/ Alive(stack'[t][i]) /\ t \in alloc /\
               (keepinvariant /\ col'[t] = "black" =>
                  marked(stack[t][i])' \/ \E u \in Open : uvthread[u] = t /\ uvslot[u] = i),
         \A u \in Open : uvslot[u] <= top'[uvthread[u]]
  PROVE  Safe'
<1> USE DEF SInv, Safe
<1>1. /\ gcstate' = gcstate /\ unswept' = unswept /\ full' = full /\ alloc' = alloc
      /\ weak' = weak
      /\ uvthread' = uvthread /\ uvslot' = uvslot /\ markedopen' = markedopen
  BY DEF upvals, control, Recolour
<1>2. Open' = Open /\ keepinvariant' = keepinvariant
  BY <1>1 DEF Open, keepinvariant
<1>3. \A o \in Obj : Alive(o)' <=> Alive(o)
  BY <1>1 DEF Alive, Recolour
<1>4. /\ \A x \in Table \cup Function \cup Upval : x \in Obj
      /\ \A x \in Table \cup Function \cup Upval : refs[x] \subseteq Obj /\ refs'[x] \subseteq Obj
      /\ \A h \in Table : (meta[h] # Nil => meta[h] \in Obj) /\ (meta'[h] # Nil => meta'[h] \in Obj)
      /\ \A t \in Thread : t \in Obj /\ (from'[t] # Nil => from'[t] \in Obj)
      /\ \A u \in Open : u \in Obj /\ u \in Upval /\ uvthread[u] \in Obj /\ uvthread[u] \in Thread
      /\ Main \in Obj /\ Globals \in Obj /\ run' \in Obj
  BY Kinds, RefsType, RefsTypeNext DEF IInv, TypeOK, Open, Holder
<1>5. \A t \in Thread, i \in Slot : /\ stack[t][i] # Nil => stack[t][i] \in Obj
                                    /\ stack'[t][i] # Nil => stack'[t][i] \in Obj
  BY DEF IInv, TypeOK, Value
<1>6. \A o \in Obj : keepinvariant /\ marked(o) => marked(o)'
  BY DEF Recolour
<1>7. \A o \in Obj : col'[o] = "black" => col[o] = "black"
  BY DEF Recolour
<1>10. FreeAddresses'
  <2>1. ASSUME NEW o \in Obj \ alloc
        PROVE  /\ col'[o] = "white"
               /\ o \in Table \cup Function \cup Upval => refs'[o] = {}
               /\ o \in Table => meta'[o] = Nil
               /\ o \in Thread => \A i \in Slot : stack'[o][i] = Nil
    <3>1. col'[o] = "white"
      BY DEF FreeAddresses, Recolour
    <3>2. o \in Table \cup Function \cup Upval => refs'[o] = {}
      BY DEF FreeAddresses
    <3>3. o \in Table => meta'[o] = Nil
      BY DEF FreeAddresses
    <3>4. o \in Thread => \A i \in Slot : stack'[o][i] = Nil
      BY DEF FreeAddresses
    <3> QED BY <3>1, <3>2, <3>3, <3>4
  <2> QED BY <1>1, <2>1 DEF FreeAddresses
<1>11. Phases'
  <2>1. gcstate = "sweep" => \A o \in Obj \ (unswept \cup {Main}) : col'[o] = "white"
    BY DEF Phases, Recolour, marked
  <2>2. gcstate = "pause" => \A o \in Obj : col'[o] = "white"
    BY DEF Phases, Recolour
  <2> QED BY <1>1, <2>1, <2>2 DEF Phases, Recolour
<1>13. LiveRefs'
  <2>1. \A x \in Table \cup Function : Alive(x)' => \A r \in refs'[x] : Alive(r)'
    BY <1>3, <1>4 DEF LiveRefs
  <2>2. \A h \in Table : Alive(h)' /\ meta'[h] # Nil => Alive(meta[h])'
    <3>1. ASSUME NEW h \in Table, Alive(h)', meta'[h] # Nil
          PROVE  Alive(meta[h])'
      <4>1. Alive(meta'[h]) /\ meta'[h] \in Obj
        BY <1>3, <1>4, <3>1 DEF LiveRefs
      <4> QED BY <1>1, <4>1 DEF Recolour, Alive, isdead
    <3> QED BY <3>1
  <2>3. \A t \in Thread : Alive(t)' =>
          \A j \in Slot : stack'[t][j] # Nil => Alive(stack[t][j])'
    <3>1. ASSUME NEW t \in Thread, Alive(t)', NEW j \in Slot, stack'[t][j] # Nil
          PROVE  Alive(stack[t][j])'
      <4>1. Alive(stack'[t][j]) /\ stack'[t][j] \in Obj
        BY <1>3, <1>4, <1>5, <3>1 DEF LiveRefs
      <4> QED BY <1>1, <4>1 DEF Recolour, Alive, isdead
    <3> QED BY <3>1
  <2>4. \A t \in Thread : from'[t] # Nil => Alive(t)' /\ Alive(from[t])'
    BY <1>1, <1>4 DEF LiveRefs, Alive, isdead, Recolour
  <2>5. \A u \in Open' : Alive(u)' /\ Alive(uvthread[u])'
    BY <1>1, <1>2, <1>4 DEF LiveRefs, Alive, isdead, Recolour
  <2>6. \A u \in Upval : Alive(u)' /\ uvthread'[u] = Nil => \A r \in refs'[u] : Alive(r)'
    BY <1>1, <1>3, <1>4 DEF LiveRefs
  <2>7. Alive(Main)' /\ Alive(Globals)' /\ Alive(run)'
    BY <1>1, <1>4 DEF LiveRefs, Alive, isdead, Recolour
  <2> QED BY <2>1, <2>2, <2>3, <2>4, <2>5, <2>6, <2>7 DEF LiveRefs
<1>14. UpvalLinks'
  BY <1>1, <1>2, <1>4 DEF UpvalLinks, Recolour
<1>15. TriColour'
  <2>1. ASSUME keepinvariant
        PROVE  /\ marked(Main)' /\ marked(Globals)'
               /\ \A x \in Table \cup Function \cup Upval :
                    col'[x] = "black" => \A r \in refs'[x] : marked(r)'
    BY <1>4, <1>6, <1>7, <2>1 DEF TriColour
  <2>2. ASSUME keepinvariant, NEW h \in Table, col'[h] = "black", meta'[h] # Nil
        PROVE  marked(meta[h])'
    <3>1. CASE meta'[h] = meta[h]
      <4>1. marked(meta[h]) /\ meta[h] \in Obj
        BY <1>4, <1>7, <2>2, <3>1 DEF TriColour
      <4> QED BY <1>6, <2>2, <3>1, <4>1 DEF marked
    <3> QED BY <2>2, <3>1
  <2>3. ASSUME keepinvariant, NEW t \in Thread, col'[t] = "black", NEW j \in Slot
        PROVE  (\/ stack[t][j] = Nil \/ marked(stack[t][j])
                \/ \E u \in Open : uvthread[u] = t /\ uvslot[u] = j)'
    <3>1. CASE stack'[t][j] = stack[t][j]
      <4>1. \/ stack[t][j] = Nil \/ (marked(stack[t][j]) /\ stack[t][j] \in Obj)
            \/ \E u \in Open : uvthread[u] = t /\ uvslot[u] = j
        BY <1>4, <1>5, <1>7, <2>3 DEF TriColour
      <4> QED BY <1>1, <1>2, <1>6, <2>3, <3>1, <4>1 DEF marked
    <3> QED BY <1>1, <1>2, <2>3, <3>1
  <2>4. ASSUME keepinvariant, NEW u \in Open', col'[uvthread'[u]] = "black"
        PROVE  marked(u)' /\ markedopen'[u]
    BY <1>1, <1>2, <1>4, <1>6, <1>7, <2>4 DEF TriColour
  <2> QED BY <1>2, <2>1, <2>2, <2>3, <2>4 DEF TriColour
<1>16. Lists'
  BY DEF Recolour
<1>17. MarkedOpen'
  <2>1. ASSUME keepinvariant, NEW u \in Open', markedopen'[u]
        PROVE  marked(u)' /\ marked(uvthread[u])'
    <3>1. u \in Open /\ marked(u) /\ marked(uvthread[u])
      BY <1>1, <1>2, <2>1 DEF MarkedOpen
    <3> QED BY <1>1, <1>4, <1>6, <2>1, <3>1 DEF marked
  <2>2. ASSUME ~keepinvariant, full # "swept", NEW u \in Open'
        PROVE  ~markedopen'[u]
    BY <1>1, <1>2, <2>2 DEF MarkedOpen
  <2> QED BY <1>1, <1>2, <2>1, <2>2 DEF MarkedOpen
<1>18. Atomic'
  BY <1>1 DEF Atomic, Mutator, InAtomic
<1> QED
  BY <1>10, <1>11, <1>13, <1>14, <1>15, <1>16, <1>17, <1>18

\* The same when the running thread goes on.
LEMMA WriteSafe ==
  ASSUME SInv, TypeOK', Mutator, UNCHANGED <<alloc, upvals, control, schedule>>, Recolour,
         \A x \in Table \cup Function \cup Upval : \A r \in refs'[x] :
            \/ r \in refs[x]
            \/ Alive(r) /\ x \in alloc /\ (keepinvariant /\ col'[x] = "black" => marked(r)'),
         \A h \in Table : meta'[h] # Nil =>
            \/ meta'[h] = meta[h]
            \/ Alive(meta'[h]) /\ h \in alloc /\ (keepinvariant /\ col'[h] = "black" => marked(meta[h])'),
         \A t \in Thread, i \in Slot : stack'[t][i] # Nil =>
            \/ stack'[t][i] = stack[t][i]
            \/ Alive(stack'[t][i]) /\ t \in alloc /\
               (keepinvariant /\ col'[t] = "black" =>
                  marked(stack[t][i])' \/ \E u \in Open : uvthread[u] = t /\ uvslot[u] = i),
         \A u \in Open : uvslot[u] <= top'[uvthread[u]]
  PROVE  Safe'
<1>1. from' = from /\ run' = run /\ UNCHANGED <<alloc, upvals, control>>
  BY DEF schedule
<1>2. Activity'
  <2>1. {t \in Thread : isactive(t)}' = {t \in Thread : isactive(t)}
    BY <1>1 DEF isactive
  <2>2. \A t \in Thread : (isactive(t) \/ t = Main)' => col'[t] # "black"
    BY <1>1, Kinds DEF SInv, Safe, Activity, isactive, Recolour
  <2> QED BY <1>1, <2>1, <2>2 DEF SInv, Safe, Activity
<1>3. /\ Alive(run') /\ run' \in Thread
      /\ \A t \in Thread : from'[t] # Nil => from'[t] = from[t]
  BY <1>1 DEF SInv, IInv, TypeOK, Safe, LiveRefs
<1> QED BY <1>1, <1>2, <1>3, StepSafe

\* What holds of the stacks when they are not written to.
LEMMA StacksUnchanged ==
  ASSUME SInv, UNCHANGED stacks
  PROVE  /\ \A t \in Thread, i \in Slot : stack'[t][i] = stack[t][i]
         /\ \A u \in Open : uvslot[u] <= top'[uvthread[u]]
BY DEF stacks, SInv, Safe, UpvalLinks

\* lua_v_settable: what is new in the table went through the barrier.
LEMMA SetTableSafe ==
  ASSUME SInv, TypeOK', NEW h \in Table, NEW k \in Value, NEW v \in Value, lua_v_settable(h, k, v)
  PROVE  Safe'
<1> DEFINE S == Barriered(h, k, v)
<1>1. /\ Mutator /\ UNCHANGED <<alloc, upvals, control, schedule>> /\ gcstate' = gcstate
      /\ meta' = meta /\ UNCHANGED stacks
  BY DEF lua_v_settable, control
<1>2. h \in Hand /\ (k # Nil => k \in Hand) /\ (v # Nil => v \in Hand)
  BY DEF lua_v_settable
<1>3. Alive(h) /\ \A r \in S : Alive(r) /\ r \in Obj \ Upval
  BY <1>2, HandAlive DEF Barriered
<1>4. Recolour /\ (keepinvariant /\ col'[h] = "black" => \A r \in S : marked(r)')
  <2>1. h \in alloc /\ S \in SUBSET (Obj \ Upval) /\ S \subseteq alloc
    BY <1>3 DEF Alive
  <2>2. luaC_barriertable(h, S)
    BY DEF lua_v_settable
  <2> QED BY ONLY SInv, <1>1, <2>1, <2>2, BarriertableSafe
<1>5. \A x \in Table \cup Function \cup Upval : \A r \in refs'[x] :
        r \in refs[x] \/ (x = h /\ r \in S)
  <2>1. refs' = [refs EXCEPT ![h] = Objects(Stored(h, k, v))]
    BY RefsNode DEF lua_v_settable, SInv, IInv
  <2>2. refs \in [Holder -> SUBSET Obj] /\ refs[h] = Objects(node[h])
    BY RefsType DEF SInv, IInv, refs, Holder
  <2>3. \A r \in Objects(Stored(h, k, v)) : r \in Objects(node[h]) \/ r \in S
    BY DEF Objects, Stored, Barriered
  <2> QED BY <2>1, <2>2, <2>3 DEF Holder
<1>6. \A x \in Table \cup Function \cup Upval : \A r \in refs'[x] :
        \/ r \in refs[x]
        \/ Alive(r) /\ x \in alloc /\ (keepinvariant /\ col'[x] = "black" => marked(r)')
  <2>1. h \in alloc
    BY <1>3 DEF Alive
  <2> QED BY <1>3, <1>4, <1>5, <2>1
<1>7. \A x \in Table : meta'[x] = meta[x]
  BY <1>1
<1> QED BY ONLY SInv, TypeOK', <1>1, <1>4, <1>6, <1>7, StacksUnchanged, WriteSafe

\* A nil is stored over an entry.
LEMMA EraseSafe ==
  ASSUME SInv, TypeOK', NEW h \in Table, Erase(h)
  PROVE  Safe'
<1>1. /\ Mutator /\ UNCHANGED <<alloc, upvals, control, schedule>> /\ gcstate' = gcstate
      /\ meta' = meta /\ UNCHANGED stacks /\ UNCHANGED <<col, lists>>
  BY DEF Erase, control
<1>2. Recolour
  BY <1>1, NoBarrier
<1>3. \A x \in Table \cup Function \cup Upval : \A r \in refs'[x] : r \in refs[x]
  <2>1. PICK e \in node[h] : node' = [node EXCEPT ![h] = node[h] \ {e}]
    BY DEF Erase
  <2>2. refs' = [refs EXCEPT ![h] = Objects(node[h] \ {e})]
    BY <2>1, RefsNode DEF Erase, SInv, IInv
  <2>3. refs \in [Holder -> SUBSET Obj] /\ refs[h] = Objects(node[h])
    BY RefsType DEF SInv, IInv, refs, Holder
  <2>4. Objects(node[h] \ {e}) \subseteq Objects(node[h])
    BY DEF Objects
  <2> QED BY <2>2, <2>3, <2>4 DEF Holder
<1> QED BY ONLY SInv, TypeOK', <1>1, <1>2, <1>3, StacksUnchanged, WriteSafe

\* lua_setmetatable
LEMMA SetMetatableSafe ==
  ASSUME SInv, TypeOK', NEW h \in Table, NEW m \in WeakMeta \cup {Nil}, lua_setmetatable(h, m)
  PROVE  Safe'
<1>1. /\ Mutator /\ UNCHANGED <<alloc, upvals, control, schedule>> /\ gcstate' = gcstate
      /\ refs' = refs /\ UNCHANGED stacks
  BY RefsUnchanged DEF lua_setmetatable, control
<1>2. h \in Hand /\ (m # Nil => m \in Hand)
  BY DEF lua_setmetatable
<1>3. Alive(h) /\ (m # Nil => Alive(m) /\ m \in Obj \ Upval) /\ h \in Obj
  BY <1>2, HandAlive
<1>4. Recolour /\ (m # Nil /\ keepinvariant /\ col'[h] = "black" => marked(m)')
  <2>1. CASE m = Nil
    BY <1>1, <2>1, NoBarrier DEF lua_setmetatable
  <2>2. CASE m # Nil
    BY <1>1, <1>3, <2>2, BarrierfSafe DEF lua_setmetatable, Alive
  <2> QED BY <2>1, <2>2
<1>5. \A x \in Table : meta'[x] = IF x = h THEN m ELSE meta[x]
  BY DEF lua_setmetatable, SInv, IInv, TypeOK
<1>6. \A x \in Table : meta'[x] # Nil =>
        \/ meta'[x] = meta[x]
        \/ Alive(meta'[x]) /\ x \in alloc /\ (keepinvariant /\ col'[x] = "black" => marked(meta[x])')
  BY <1>3, <1>4, <1>5 DEF Alive, marked, isdead
<1>7. \A x \in Table \cup Function \cup Upval : \A r \in refs'[x] : r \in refs[x]
  BY <1>1
<1> QED BY ONLY SInv, TypeOK', <1>1, <1>4, <1>6, <1>7, StacksUnchanged, WriteSafe

\* LOP_SETUPVAL: the slot of an open upvalue is captured, and what is written
\* to a closed one is marked by the barrier.
LEMMA SetUpvalSafe ==
  ASSUME SInv, TypeOK', NEW f \in Function, NEW v \in Value \ {Nil}, SetUpval(f, v)
  PROVE  Safe'
<1>1. /\ Mutator /\ UNCHANGED <<alloc, upvals, control, schedule>> /\ gcstate' = gcstate
      /\ meta' = meta /\ top' = top
  BY DEF SetUpval, control
<1>2. f \in Hand /\ v \in Hand
  BY DEF SetUpval
<1>3. Alive(f) /\ Alive(v) /\ v \in Obj \ Upval
  BY <1>2, HandAlive
<1>4. PICK u \in refs[f] \cap Upval :
        /\ IF uvthread[u] # Nil
           THEN /\ stack' = [stack EXCEPT ![uvthread[u]][uvslot[u]] = v]
                /\ UNCHANGED refs
           ELSE refs' = [refs EXCEPT ![u] = {v}] /\ UNCHANGED stack
        /\ luaC_barrierf(u, v)
  <2>1. PICK u \in refs[f] \cap Upval :
          /\ IF uvthread[u] # Nil
             THEN /\ stack' = [stack EXCEPT ![uvthread[u]][uvslot[u]] = v]
                  /\ UNCHANGED cells
             ELSE cells' = [cells EXCEPT ![u] = {v}] /\ UNCHANGED stack
          /\ luaC_barrierf(u, v)
    BY DEF SetUpval
  <2>2. node' = node /\ TypeOK
    BY DEF SetUpval, SInv, IInv
  <2>3. uvthread[u] # Nil => refs' = refs
    BY <2>1, <2>2, RefsUnchanged
  <2>4. uvthread[u] = Nil => refs' = [refs EXCEPT ![u] = {v}]
    BY <2>1, <2>2, RefsCell
  <2> QED BY <2>1, <2>3, <2>4
<1>5. Alive(u) /\ u \in Obj
  BY <1>3, Kinds DEF SInv, Safe, LiveRefs
<1>6. Recolour /\ (keepinvariant /\ col'[u] = "black" => marked(v)')
  BY <1>1, <1>3, <1>4, <1>5, BarrierfSafe DEF Alive
<1>7. \A x \in Table : meta'[x] = meta[x]
  BY <1>1
<1>8. \A w \in Open : uvslot[w] <= top'[uvthread[w]]
  BY <1>1 DEF SInv, Safe, UpvalLinks
<1>9. CASE uvthread[u] # Nil
  <2>1. u \in Open /\ uvthread[u] \in Thread /\ uvslot[u] \in Slot
    BY <1>5, <1>9 DEF Open, Alive, SInv, IInv, TypeOK
  <2>2. \A t \in Thread, i \in Slot :
          stack'[t][i] = IF t = uvthread[u] /\ i = uvslot[u] THEN v ELSE stack[t][i]
    BY <1>4, <1>9, <2>1 DEF SInv, IInv, TypeOK
  <2>3. uvthread[u] \in alloc
    BY <2>1 DEF SInv, Safe, LiveRefs, Alive
  <2>4. \A t \in Thread, i \in Slot : stack'[t][i] # Nil =>
          \/ stack'[t][i] = stack[t][i]
          \/ Alive(stack'[t][i]) /\ t \in alloc /\
             (keepinvariant /\ col'[t] = "black" =>
                marked(stack[t][i])' \/ \E w \in Open : uvthread[w] = t /\ uvslot[w] = i)
    BY <1>3, <2>1, <2>2, <2>3 DEF Alive, isdead
  <2>5. \A x \in Table \cup Function \cup Upval : \A r \in refs'[x] : r \in refs[x]
    BY <1>4, <1>9
  <2> QED BY ONLY SInv, TypeOK', <1>1, <1>6, <1>7, <1>8, <2>4, <2>5, WriteSafe
<1>10. CASE uvthread[u] = Nil
  <2>1. \A t \in Thread, i \in Slot : stack'[t][i] = stack[t][i]
    BY <1>4, <1>10
  <2>2. \A x \in Table \cup Function \cup Upval : \A r \in refs'[x] :
          r \in refs[x] \/ (x = u /\ r = v)
    BY <1>4, <1>10, RefsType DEF SInv, IInv, Holder
  <2>3. \A x \in Table \cup Function \cup Upval : \A r \in refs'[x] :
          \/ r \in refs[x]
          \/ Alive(r) /\ x \in alloc /\ (keepinvariant /\ col'[x] = "black" => marked(r)')
    BY <1>3, <1>5, <1>6, <2>2 DEF Alive, marked
  <2> QED BY ONLY SInv, TypeOK', <1>1, <1>6, <1>7, <1>8, <2>1, <2>3, WriteSafe
<1> QED BY <1>9, <1>10

\* lua_xmove: the destination is not black after the barrier, and what the
\* source gives is no captured slot.
LEMMA XmoveSafe ==
  ASSUME SInv, TypeOK', NEW src \in Thread, NEW dst \in Thread, lua_xmove(src, dst)
  PROVE  Safe'
<1>1. /\ Mutator /\ UNCHANGED <<alloc, upvals, control, schedule>> /\ gcstate' = gcstate
      /\ meta' = meta /\ refs' = refs /\ src # dst
  BY RefsUnchanged DEF lua_xmove, control, heap
<1>2. Alive(src) /\ Alive(dst)
  BY HandAlive DEF lua_xmove, SInv, Safe, LiveRefs
<1>3. Recolour /\ col'[dst] # "black"
  BY <1>1, <1>2, ThreadbarrierSafe DEF lua_xmove, Alive
<1>4. /\ top[src] \in Slot /\ top[dst] + 1 \in Slot /\ NSlots \in Nat
      /\ \A t \in Thread : top[t] \in Nat
  BY BoundsAssumption DEF lua_xmove, SInv, IInv, TypeOK, Slot
<1>5. \A t \in Thread, i \in Slot :
        stack'[t][i] = IF t = dst /\ i = top[dst] + 1 THEN stack[src][top[src]] ELSE stack[t][i]
  BY <1>4 DEF lua_xmove, SInv, IInv, TypeOK
<1>6. \A t \in Thread, i \in Slot : stack'[t][i] # Nil =>
        \/ stack'[t][i] = stack[t][i]
        \/ Alive(stack'[t][i]) /\ t \in alloc /\
           (keepinvariant /\ col'[t] = "black" =>
              marked(stack[t][i])' \/ \E u \in Open : uvthread[u] = t /\ uvslot[u] = i)
  <2>1. stack[src][top[src]] # Nil => Alive(stack[src][top[src]])
    BY <1>2, <1>4 DEF SInv, Safe, LiveRefs
  <2> QED BY <1>2, <1>3, <1>5, <2>1 DEF Alive, isdead
<1>7. \A u \in Open : uvslot[u] <= top'[uvthread[u]]
  <2>1. \A t \in Thread : top'[t] = IF t = dst THEN top[dst] + 1
                                    ELSE IF t = src THEN top[src] - 1 ELSE top[t]
    BY <1>1 DEF lua_xmove, SInv, IInv, TypeOK
  <2>2. \A u \in Open : uvthread[u] \in Thread /\ uvslot[u] \in Nat
    BY BoundsAssumption DEF Open, SInv, IInv, TypeOK, Slot
  <2>3. \A u \in Open : uvthread[u] = src => uvslot[u] < top[src]
    BY DEF lua_xmove, Open, OpenUpvals
  <2>4. \A u \in Open : uvslot[u] <= top[uvthread[u]]
    BY DEF SInv, Safe, UpvalLinks
  <2> QED BY <1>4, <2>1, <2>2, <2>3, <2>4
<1>8. \A x \in Table \cup Function \cup Upval : \A r \in refs'[x] : r \in refs[x]
  BY <1>1
<1>9. \A x \in Table : meta'[x] = meta[x]
  BY <1>1
<1> QED BY ONLY SInv, TypeOK', <1>1, <1>3, <1>6, <1>7, <1>8, <1>9, WriteSafe

\* resume_start: a thread that waits for nobody joins the chain, and it is not
\* black any more.
LEMMA ResumeSafe ==
  ASSUME SInv, TypeOK', NEW co \in Thread, Resume(co)
  PROVE  Safe'
<1>1. /\ Mutator /\ UNCHANGED <<alloc, upvals, control>> /\ gcstate' = gcstate
      /\ meta' = meta /\ refs' = refs /\ run' = co /\ UNCHANGED stacks
      /\ co # Main /\ co # run /\ from[co] = Nil
  BY RefsUnchanged DEF Resume, control, heap, isactive
<1>2. Alive(co) /\ Alive(run)
  BY HandAlive DEF Resume, SInv, Safe, LiveRefs
<1>3. Recolour /\ col'[co] # "black"
  BY <1>1, <1>2, ThreadbarrierSafe DEF Resume, Alive
<1>4. \A t \in Thread : from'[t] = IF t = co THEN run ELSE from[t]
  BY DEF Resume, SInv, IInv, TypeOK
<1>5. run \in Thread /\ run # Nil /\ Nil \notin Thread
  BY Kinds DEF SInv, IInv, TypeOK
<1>6. ASSUME NEW S \in SUBSET {t \in Thread : from'[t] # Nil}, S # {}
      PROVE  \E t \in S : from'[t] \notin S
  <2>1. \A t \in S : t \in Thread /\ (t # co => from[t] # Nil)
    BY <1>4, <1>6
  <2>2. CASE co \notin S
    <3>1. S \in SUBSET {t \in Thread : isactive(t)}
      BY <2>1, <2>2 DEF isactive
    <3>2. \E t \in S : from[t] \notin S
      BY <1>6, <3>1 DEF SInv, Safe, Activity
    <3> QED BY <1>4, <2>1, <2>2, <3>2
  <2>3. CASE co \in S /\ run \notin S
    BY <1>4, <2>3
  <2>4. CASE co \in S /\ run \in S
    <3>1. S \ {co} \in SUBSET {t \in Thread : isactive(t)} /\ S \ {co} # {}
      BY <1>1, <2>1, <2>4 DEF isactive
    <3>2. PICK t \in S \ {co} : from[t] \notin S \ {co}
      BY <3>1 DEF SInv, Safe, Activity
    <3>3. from[t] # co
      BY <1>1, <2>1, <3>2 DEF SInv, IInv, ResumeChain, isactive
    <3> QED BY <1>4, <2>1, <3>2, <3>3
  <2> QED BY <2>2, <2>3, <2>4
<1>7. Activity'
  <2>1. {t \in Thread : isactive(t)}' = {t \in Thread : from'[t] # Nil}
    BY DEF isactive
  <2>2. \A t \in Thread : (isactive(t) \/ t = Main)' => col'[t] # "black"
    BY <1>3, <1>4, Kinds DEF SInv, Safe, Activity, isactive, Recolour
  <2> QED BY <1>6, <2>1, <2>2 DEF Activity
<1>8. /\ Alive(run') /\ run' \in Thread
      /\ \A t \in Thread : from'[t] # Nil => from'[t] = from[t] \/ (Alive(t) /\ Alive(from'[t]))
  BY <1>1, <1>2, <1>4
<1>9. \A x \in Table \cup Function \cup Upval : \A r \in refs'[x] : r \in refs[x]
  BY <1>1
<1>10. \A x \in Table : meta'[x] = meta[x]
  BY <1>1
<1> QED
  BY ONLY SInv, TypeOK', <1>1, <1>3, <1>7, <1>8, <1>9, <1>10, StacksUnchanged, StepSafe

\* resume_finish: the last thread of the chain leaves it.
LEMMA YieldSafe ==
  ASSUME SInv, TypeOK', Yield
  PROVE  Safe'
<1>1. /\ Mutator /\ UNCHANGED <<alloc, upvals, control>> /\ gcstate' = gcstate
      /\ meta' = meta /\ refs' = refs /\ run' = from[run] /\ UNCHANGED stacks
      /\ UNCHANGED <<col, lists>> /\ run # Main
  BY RefsUnchanged DEF Yield, control, heap
<1>2. Recolour
  BY <1>1, NoBarrier
<1>3. \A t \in Thread : from'[t] = IF t = run THEN Nil ELSE from[t]
  BY DEF Yield, SInv, IInv, TypeOK
<1>4. from[run] # Nil /\ run \in Thread
  BY <1>1 DEF SInv, IInv, TypeOK, ResumeChain, isactive
<1>5. Alive(run') /\ run' \in Thread
  BY <1>1, <1>4 DEF SInv, IInv, TypeOK, Safe, LiveRefs
<1>6. ASSUME NEW S \in SUBSET {t \in Thread : from'[t] # Nil}, S # {}
      PROVE  \E t \in S : from'[t] \notin S
  <2>1. \A t \in S : from'[t] = from[t]
    BY <1>3, <1>6
  <2>2. S \in SUBSET {t \in Thread : isactive(t)}
    BY <1>6, <2>1 DEF isactive
  <2> QED BY <1>6, <2>1, <2>2 DEF SInv, Safe, Activity
<1>7. Activity'
  <2>1. {t \in Thread : isactive(t)}' = {t \in Thread : from'[t] # Nil}
    BY DEF isactive
  <2>2. \A t \in Thread : (isactive(t) \/ t = Main)' => col'[t] # "black"
    BY <1>1, <1>3 DEF SInv, Safe, Activity, isactive
  <2> QED BY <1>6, <2>1, <2>2 DEF Activity
<1>8. \A t \in Thread : from'[t] # Nil => from'[t] = from[t]
  BY <1>3
<1>9. \A x \in Table \cup Function \cup Upval : \A r \in refs'[x] : r \in refs[x]
  BY <1>1
<1>10. \A x \in Table : meta'[x] = meta[x]
  BY <1>1
<1> QED
  BY ONLY SInv, TypeOK', <1>1, <1>2, <1>5, <1>7, <1>8, <1>9, <1>10, StacksUnchanged, StepSafe

\* luaF_close of upvalues of the thread T, whose slots may be cleared then: a
\* gray upvalue becomes black with its value marked, or white in the sweep.
LEMMA CloseSafe ==
  ASSUME SInv, TypeOK', Mutator, NEW T \in Thread, NEW U \in SUBSET OpenUpvals(T), luaF_close(U),
         UNCHANGED <<alloc, grayagain, weak, node, meta, control, schedule>>,
         \A t \in Thread, i \in Slot : stack'[t][i] = stack[t][i] \/ stack'[t][i] = Nil,
         \A u \in Open \ U : uvslot[u] <= top'[uvthread[u]]
  PROVE  Safe'
<1> USE DEF SInv, Safe
<1> DEFINE GrayU == {u \in U : col[u] = "gray"}
           V == IF keepinvariant THEN UNION {UpvalValue(u) : u \in GrayU} ELSE {}
<1>1. /\ gcstate' = gcstate /\ unswept' = unswept /\ full' = full /\ alloc' = alloc
      /\ from' = from /\ run' = run /\ weak' = weak /\ grayagain' = grayagain
      /\ meta' = meta /\ uvslot' = uvslot /\ gray' = gray \cup markgray(V)
  BY DEF control, schedule, luaF_close
<1>2. /\ TypeOK /\ U \subseteq Upval /\ U \subseteq Open
      /\ \A u \in U : uvthread[u] = T
  BY Kinds DEF IInv, OpenUpvals, Open
<1>3. /\ \A u \in Upval : uvthread'[u] = IF u \in U THEN Nil ELSE uvthread[u]
      /\ \A u \in Upval : markedopen'[u] <=> u \notin U /\ markedopen[u]
      /\ \A x \in Table \cup Function \cup Upval :
           refs'[x] = IF x \in U THEN UpvalValue(x) ELSE refs[x]
  <2>1. refs' = [x \in DOMAIN refs |-> IF x \in U THEN UpvalValue(x) ELSE refs[x]]
    BY <1>2, RefsClose DEF luaF_close
  <2>2. refs \in [Holder -> SUBSET Obj]
    BY <1>2, RefsType
  <2>3. \A x \in Table \cup Function \cup Upval :
          refs'[x] = IF x \in U THEN UpvalValue(x) ELSE refs[x]
    BY <2>1, <2>2 DEF Holder
  <2> QED BY <1>2, <2>3 DEF luaF_close, TypeOK
<1>4. V \in SUBSET (Obj \ Upval)
  BY <1>2, UpvalValueType
<1>5. \A o \in Obj : col'[o] = IF o \in GrayU THEN IF keepinvariant THEN "black" ELSE "white"
                               ELSE IF o \in V /\ iswhite(o) THEN "gray" ELSE col[o]
  <2>1. \A o \in Obj : markcol(V)[o] = IF o \in V /\ iswhite(o) THEN "gray" ELSE col[o]
    BY <1>2, <1>4, MarkValues
  <2>2. \A o \in Obj : col'[o] = IF o \in GrayU THEN IF keepinvariant THEN "black" ELSE "white"
                                 ELSE markcol(V)[o]
    BY DEF luaF_close
  <2> QED BY <2>1, <2>2
<1>6. \A o : o \in markgray(V) <=> o \in V /\ iswhite(o) /\ o \notin String
  BY <1>2, <1>4, MarkValues
<1>7. Open' = Open \ U /\ keepinvariant' = keepinvariant
  BY <1>1, <1>2, <1>3 DEF Open, keepinvariant
<1>8. \A u \in GrayU : u \in alloc /\ u \in Upval /\ u \in Obj
  BY <1>2, Kinds DEF Open
<1>9. \A v \in V : Alive(v) /\ v \in Obj /\ v \notin Upval
  <2>1. ASSUME NEW u \in GrayU, NEW v \in UpvalValue(u)
        PROVE  Alive(v)
    <3>1. Alive(u) /\ u \in Upval
      BY <1>2 DEF LiveRefs
    <3> QED BY <3>1, UpvalAlive
  <2> QED BY <1>4, <2>1
<1>10. \A o \in Obj : isdead(o)' <=> isdead(o)
  <2>1. \A v \in V : ~isdead(v)
    BY <1>9 DEF Alive
  <2> QED BY <1>5, <2>1 DEF isdead
<1>11. \A o \in Obj : Alive(o)' <=> Alive(o)
  BY <1>1, <1>10 DEF Alive
<1>12. keepinvariant => \A o \in Obj : marked(o) => marked(o)'
  BY <1>5 DEF marked
<1>13. /\ \A o \in Obj \ Upval : col'[o] = "black" => col[o] = "black"
       /\ \A u \in Upval : u \notin U => col'[u] = col[u]
       /\ \A u \in Upval : u \in U => col'[u] # "gray"
  BY <1>4, <1>5, <1>8, Kinds
<1>14. /\ \A x \in Table \cup Function \cup Upval : x \in Obj /\ refs[x] \subseteq Obj
       /\ \A h \in Table : (meta[h] # Nil => meta[h] \in Obj)
       /\ \A t \in Thread : t \in Obj /\ t \notin Upval /\ (from[t] # Nil => from[t] \in Obj)
       /\ \A u \in Open : u \in Obj /\ u \in Upval /\ uvthread[u] \in Obj /\ uvthread[u] \in Thread
       /\ Main \in Obj /\ Globals \in Obj /\ run \in Obj
       /\ \A t \in Thread, i \in Slot : stack[t][i] # Nil => stack[t][i] \in Obj
  BY Kinds, RefsType DEF IInv, TypeOK, Open, Value, Holder
<1>15. \A u \in U : \A v \in UpvalValue(u) : Alive(v) /\ v \in Obj
  BY <1>2, UpvalAlive, UpvalValueType DEF LiveRefs
<1>20. FreeAddresses'
  <2>1. \A o \in Obj \ alloc : col'[o] = "white"
    BY <1>5, <1>8, <1>9 DEF FreeAddresses, Alive
  <2>2. \A o \in Obj \ alloc : o \notin U
    BY <1>2 DEF Open
  <2>3. \A o \in Obj \ alloc : o \in Table \cup Function \cup Upval => refs'[o] = {}
    BY <1>3, <2>2 DEF FreeAddresses
  <2>4. \A o \in Obj \ alloc : o \in Thread => \A i \in Slot : stack'[o][i] = Nil
    BY DEF FreeAddresses
  <2> QED BY <1>1, <2>1, <2>3, <2>4 DEF FreeAddresses
<1>21. Phases'
  <2>1. gcstate \in {"pause", "sweep"} => ~keepinvariant /\ V = {}
    BY DEF keepinvariant
  <2>2. gcstate = "sweep" => \A o \in Obj \ (unswept \cup {Main}) : col'[o] = "white"
    BY <1>5, <2>1 DEF Phases
  <2>3. gcstate = "pause" => \A o \in Obj : col'[o] = "white"
    BY <1>5, <2>1 DEF Phases
  <2> QED BY <1>1, <1>10, <2>2, <2>3 DEF Phases
<1>22. Activity'
  <2>1. {t \in Thread : isactive(t)}' = {t \in Thread : isactive(t)}
    BY <1>1 DEF isactive
  <2>2. \A t \in Thread : (isactive(t) \/ t = Main)' => col'[t] # "black"
    BY <1>1, <1>13, <1>14 DEF Activity, isactive
  <2> QED BY <1>1, <2>1, <2>2 DEF Activity
<1>23. LiveRefs'
  <2>1. \A x \in Table \cup Function : Alive(x)' => \A r \in refs'[x] : Alive(r)'
    BY <1>2, <1>3, <1>11, <1>14, Kinds DEF LiveRefs
  <2>2. \A h \in Table : Alive(h)' /\ meta'[h] # Nil => Alive(meta[h])'
    BY <1>1, <1>10, <1>14 DEF LiveRefs, Alive, isdead
  <2>3. \A t \in Thread : Alive(t)' =>
          \A j \in Slot : stack'[t][j] # Nil => Alive(stack[t][j])'
    <3>1. ASSUME NEW t \in Thread, Alive(t)', NEW j \in Slot, stack'[t][j] # Nil
          PROVE  Alive(stack[t][j])'
      <4>1. stack'[t][j] = stack[t][j]
        BY <3>1
      <4>2. Alive(stack[t][j]) /\ stack[t][j] \in Obj
        BY <1>11, <1>14, <3>1, <4>1 DEF LiveRefs
      <4> QED BY <1>1, <1>10, <4>1, <4>2 DEF Alive, isdead
    <3> QED BY <3>1
  <2>4. \A t \in Thread : from'[t] # Nil => Alive(t)' /\ Alive(from[t])'
    BY <1>1, <1>10, <1>14 DEF LiveRefs, Alive, isdead
  <2>5. \A u \in Open' : Alive(u)' /\ Alive(uvthread[u])'
    <3>1. ASSUME NEW u \in Open \ U
          PROVE  Alive(u)' /\ Alive(uvthread[u])'
      <4>1. uvthread'[u] = uvthread[u]
        BY <1>3, <1>14
      <4> QED BY <1>1, <1>10, <1>14, <4>1 DEF LiveRefs, Alive, isdead
    <3> QED BY <1>7, <3>1
  <2>6. \A u \in Upval : Alive(u)' /\ uvthread'[u] = Nil => \A r \in refs'[u] : Alive(r)'
    BY <1>3, <1>11, <1>14, <1>15 DEF LiveRefs
  <2>7. Alive(Main)' /\ Alive(Globals)' /\ Alive(run)'
    BY <1>1, <1>10, <1>14 DEF LiveRefs, Alive, isdead
  <2> QED BY <2>1, <2>2, <2>3, <2>4, <2>5, <2>6, <2>7 DEF LiveRefs
<1>24. UpvalLinks'
  <2>1. \A u \in Open' : col'[u] # "black" /\ uvslot'[u] <= top'[uvthread'[u]]
    BY <1>1, <1>3, <1>7, <1>13, <1>14 DEF UpvalLinks
  <2>2. \A u, w \in Open' : uvthread'[u] = uvthread'[w] /\ uvslot'[u] = uvslot'[w] => u = w
    BY <1>1, <1>3, <1>7, <1>14 DEF UpvalLinks
  <2>3. \A u \in Upval : col'[u] = "gray" => uvthread'[u] # Nil
    BY <1>3, <1>13 DEF UpvalLinks
  <2> QED BY <2>1, <2>2, <2>3 DEF UpvalLinks
<1>25. TriColour'
  <2>1. keepinvariant => marked(Main)' /\ marked(Globals)'
    BY <1>12, <1>14 DEF TriColour
  <2>2. ASSUME keepinvariant, NEW x \in Table \cup Function \cup Upval, col'[x] = "black",
               NEW r \in refs'[x]
        PROVE  marked(r)'
    <3>1. CASE x \in U
      <4>1. x \in GrayU
        BY <1>2, <1>5, <1>13, <1>14, <2>2, <3>1 DEF UpvalLinks
      <4>2. r \in V /\ r \in Obj
        BY <1>3, <1>9, <2>2, <3>1, <4>1
      <4> QED BY <1>5, <1>9, <4>1, <4>2, <1>8 DEF marked, iswhite, IInv, TypeOK, Colour
    <3>2. CASE x \notin U
      <4>1. col[x] = "black" /\ r \in refs[x] /\ r \in Obj
        BY <1>3, <1>13, <1>14, <2>2, <3>2
      <4> QED BY <1>12, <2>2, <4>1 DEF TriColour
    <3> QED BY <3>1, <3>2
  <2>3. ASSUME keepinvariant, NEW h \in Table, col'[h] = "black", meta'[h] # Nil
        PROVE  marked(meta[h])'
    <3>1. marked(meta[h]) /\ meta[h] \in Obj
      BY <1>1, <1>13, <1>14, <2>3, Kinds DEF TriColour
    <3> QED BY <1>1, <1>12, <2>3, <3>1 DEF marked
  <2>4. ASSUME keepinvariant, NEW t \in Thread, col'[t] = "black", NEW j \in Slot
        PROVE  (\/ stack[t][j] = Nil \/ marked(stack[t][j])
                \/ \E u \in Open : uvthread[u] = t /\ uvslot[u] = j)'
    <3>1. CASE stack'[t][j] = Nil
      BY <3>1
    <3>2. ASSUME stack'[t][j] = stack[t][j], stack[t][j] # Nil, marked(stack[t][j])
          PROVE  marked(stack[t][j])'
      <4>1. stack[t][j] \in Obj
        BY <1>14, <3>2
      <4> QED BY <1>12, <2>4, <3>2, <4>1 DEF marked
    <3>3. col[t] = "black"
      BY <1>13, <1>14, <2>4
    <3>4. ASSUME stack'[t][j] = stack[t][j], stack[t][j] # Nil,
                 NEW u \in U, uvthread[u] = t, uvslot[u] = j
          PROVE  marked(stack[t][j])'
      <4>1. marked(u) /\ col[u] # "black"
        BY <1>2, <2>4, <3>3, <3>4 DEF TriColour, UpvalLinks
      <4>2. u \in GrayU
        BY <4>1 DEF marked
      <4>3. UpvalValue(u) = {stack[t][j]}
        BY <3>4, Kinds DEF UpvalValue
      <4>4. stack[t][j] \in V
        BY <2>4, <4>2, <4>3
      <4>5. marked(stack[t][j]) \/ iswhite(stack[t][j])
        BY <1>9, <4>4 DEF marked, iswhite, IInv, TypeOK, Colour
      <4>6. stack[t][j] \notin GrayU
        BY <1>2, <1>9, <4>4
      <4> QED BY <1>5, <1>9, <3>4, <4>4, <4>5, <4>6 DEF marked
    <3>5. ASSUME NEW u \in Open \ U, uvthread[u] = t, uvslot[u] = j
          PROVE  u \in Open' /\ uvthread'[u] = t /\ uvslot'[u] = j
      BY <1>1, <1>3, <1>7, <1>14, <3>5
    <3>6. \/ stack[t][j] = Nil \/ marked(stack[t][j])
          \/ \E u \in Open : uvthread[u] = t /\ uvslot[u] = j
      BY <2>4, <3>3 DEF TriColour
    <3> QED BY <3>1, <3>2, <3>4, <3>5, <3>6
  <2>5. ASSUME keepinvariant, NEW u \in Open', col'[uvthread'[u]] = "black"
        PROVE  marked(u)' /\ markedopen'[u]
    <3>1. u \in Open /\ u \notin U /\ uvthread'[u] = uvthread[u]
      BY <1>3, <1>7, <1>14
    <3>2. col[uvthread[u]] = "black"
      BY <1>13, <1>14, <2>5, <3>1
    <3> QED BY <1>3, <1>12, <1>14, <2>5, <3>1, <3>2 DEF TriColour
  <2> QED BY <1>7, <2>1, <2>2, <2>3, <2>4, <2>5 DEF TriColour
<1>26. Lists'
  <2>1. ASSUME keepinvariant
        PROVE  /\ \A o \in Traversable : col'[o] = "gray" <=> o \in gray' \cup grayagain' \cup weak'
               /\ gray' \cap grayagain' = {} /\ (gray' \cup grayagain') \cap weak' = {}
    <3>1. \A o \in Traversable : o \in Obj /\ o \notin String /\ o \notin Upval
      BY Kinds DEF Traversable
    <3>2. \A o \in Traversable : o \notin GrayU
      BY <1>2, <3>1
    <3>3. \A o \in Traversable : col'[o] = "gray" <=> col[o] = "gray" \/ o \in markgray(V)
      BY <1>5, <1>6, <3>1, <3>2
    <3>4. \A o \in markgray(V) : o \in Traversable /\ col[o] # "gray"
      BY <1>6, <1>9, Kinds DEF iswhite, Obj, Traversable
    <3>5. \A o \in markgray(V) : o \notin gray \cup grayagain \cup weak
      BY <2>1, <3>4 DEF Lists
    <3> QED BY <1>1, <2>1, <3>3, <3>4, <3>5 DEF Lists
  <2> QED BY <1>7, <2>1 DEF Lists
<1>27. MarkedOpen'
  <2>1. ASSUME keepinvariant, NEW u \in Open', markedopen'[u]
        PROVE  marked(u)' /\ marked(uvthread[u])'
    <3>1. u \in Open /\ u \notin U /\ uvthread'[u] = uvthread[u] /\ markedopen[u]
      BY <1>3, <1>7, <1>14, <2>1
    <3>2. marked(u) /\ marked(uvthread[u])
      BY <2>1, <3>1 DEF MarkedOpen
    <3> QED BY <1>12, <1>14, <2>1, <3>1, <3>2 DEF marked
  <2>2. ASSUME ~keepinvariant, full # "swept", NEW u \in Open'
        PROVE  ~markedopen'[u]
    BY <1>3, <1>7, <1>14, <2>2 DEF MarkedOpen
  <2> QED BY <1>1, <1>7, <2>1, <2>2 DEF MarkedOpen
<1>28. Atomic'
  BY <1>1 DEF Atomic, Mutator, InAtomic
<1> QED
  BY <1>20, <1>21, <1>22, <1>23, <1>24, <1>25, <1>26, <1>27, <1>28

\* LOP_CLOSEUPVALS and the return of a function
LEMMA CloseUpvalsSafe ==
  ASSUME SInv, TypeOK', NEW i \in Slot, CloseUpvals(i)
  PROVE  Safe'
<1> DEFINE U == {u \in OpenUpvals(run) : uvslot[u] >= i}
<1>1. /\ Mutator /\ luaF_close(U) /\ UNCHANGED <<alloc, grayagain, weak, node, meta, control, schedule>>
      /\ stack' = stack /\ top' = top
  BY DEF CloseUpvals, stacks
<1>2. run \in Thread /\ U \in SUBSET OpenUpvals(run)
  BY DEF SInv, IInv, TypeOK
<1>3. \A u \in Open \ U : uvslot[u] <= top'[uvthread[u]]
  BY <1>1 DEF SInv, Safe, UpvalLinks
<1>4. \A t \in Thread, j \in Slot : stack'[t][j] = stack[t][j]
  BY <1>1
<1> HIDE DEF U
<1> QED BY ONLY SInv, TypeOK', <1>1, <1>2, <1>3, <1>4, CloseSafe

\* lua_resetthread
LEMMA ResetThreadSafe ==
  ASSUME SInv, TypeOK', NEW co \in Thread, lua_resetthread(co)
  PROVE  Safe'
<1>1. /\ Mutator /\ luaF_close(OpenUpvals(co))
      /\ UNCHANGED <<alloc, grayagain, weak, node, meta, control, schedule>>
      /\ OpenUpvals(co) \in SUBSET OpenUpvals(co)
  BY DEF lua_resetthread
<1>2. \A t \in Thread, i \in Slot : stack'[t][i] = stack[t][i] \/ stack'[t][i] = Nil
  BY DEF lua_resetthread, SInv, IInv, TypeOK
<1>3. \A u \in Open \ OpenUpvals(co) : uvslot[u] <= top'[uvthread[u]]
  <2>1. \A u \in Open \ OpenUpvals(co) : uvthread[u] \in Thread /\ uvthread[u] # co
    BY DEF Open, OpenUpvals, SInv, IInv, TypeOK
  <2>2. \A t \in Thread : t # co => top'[t] = top[t]
    BY DEF lua_resetthread, SInv, IInv, TypeOK
  <2> QED BY <2>1, <2>2 DEF SInv, Safe, UpvalLinks
<1> QED BY ONLY SInv, TypeOK', <1>1, <1>2, <1>3, CloseSafe

\* Every step of the program keeps the invariant.
LEMMA ProgramSafe == ASSUME SInv, Program PROVE Safe'
<1>1. TypeOK'
  BY ProgramType DEF SInv
<1>2. Keys \cup {Nil} \subseteq Value
  BY KindsAssumption DEF Value
<1> QED
  BY <1>1, <1>2, NewObjectSafe, NewStringSafe, LoadSafe, NewClosureSafe, NewClosureRefSafe,
     CloseUpvalsSafe, SetTableSafe, EraseSafe, SetMetatableSafe, TopSafe, SetUpvalSafe,
     ResumeSafe, ResetThreadSafe, XmoveSafe, YieldSafe DEF Program
=============================================================================
