--------------------------- MODULE LuaGC_collector --------------------------
(***************************************************************************)
(* The steps of the collector keep the invariant of LuaGC_safety, and what *)
(* follows from it: no live object refers to a dead one, and the collector *)
(* frees, clears and closes only what no root leads to.                    *)
(***************************************************************************)
EXTENDS LuaGC_safety

(***************************************************************************)
(* Marking.                                                                *)
(***************************************************************************)
\* What a marking step leaves alone: it gives colours to live objects only,
\* clears stack slots at most, and no object dies.
MarkStep ==
  /\ gcstate # "sweep" /\ keepinvariant' /\ full' # "swept"
  /\ UNCHANGED <<alloc, heap, top, uvthread, uvslot, unswept, schedule>>
  /\ \A t \in Thread, i \in Slot : stack'[t][i] = stack[t][i] \/ stack'[t][i] = Nil
  /\ \A o \in Obj : ~isdead(o)'
  /\ \A o \in Obj : col'[o] # col[o] => o \in alloc
  /\ \A u \in Upval : col'[u] # col[u] =>
       col'[u] = IF uvthread[u] = Nil THEN "black" ELSE "gray"

\* A marking step keeps what does not depend on the lists.
LEMMA MarkStepSafe ==
  ASSUME SInv, TypeOK', MarkStep
  PROVE  /\ FreeAddresses' /\ Phases' /\ LiveRefs' /\ UpvalLinks' /\ Open' = Open
<1> USE DEF SInv, Safe
<1>1. /\ alloc' = alloc /\ refs' = refs /\ meta' = meta /\ top' = top /\ uvthread' = uvthread
      /\ uvslot' = uvslot /\ unswept' = unswept /\ from' = from /\ run' = run
      /\ gcstate' # "sweep" /\ gcstate' # "pause" /\ full' # "swept"
  BY RefsUnchanged DEF MarkStep, heap, schedule, keepinvariant
<1>2. Open' = Open
  BY <1>1 DEF Open
<1>3. \A o \in Obj : (Alive(o) <=> o \in alloc) /\ (Alive(o)' <=> o \in alloc)
  BY <1>1, NoDead DEF MarkStep, Alive
<1>4. /\ \A x \in Table \cup Function \cup Upval : x \in Obj /\ refs[x] \subseteq Obj
      /\ \A h \in Table : meta[h] # Nil => meta[h] \in Obj
      /\ \A t \in Thread : t \in Obj /\ (from[t] # Nil => from[t] \in Obj)
      /\ \A u \in Open : u \in Obj /\ u \in Upval /\ uvthread[u] \in Obj /\ uvthread[u] # Nil
      /\ Main \in Obj /\ Globals \in Obj /\ run \in Obj
      /\ \A t \in Thread, i \in Slot : stack[t][i] # Nil => stack[t][i] \in Obj
  BY Kinds, RefsType DEF IInv, TypeOK, Open, Value, Holder
<1>5. FreeAddresses'
  <2>1. \A o \in Obj \ alloc : col'[o] = "white"
    BY DEF MarkStep, FreeAddresses
  <2>2. \A o \in Obj \ alloc : o \in Thread => \A i \in Slot : stack'[o][i] = Nil
    BY DEF MarkStep, FreeAddresses
  <2> QED BY <1>1, <2>1, <2>2 DEF FreeAddresses
<1>6. Phases'
  <2>1. \A o \in Obj : ~isdead(o)'
    BY DEF MarkStep
  <2>2. unswept = {}
    BY DEF MarkStep, Phases
  <2> QED BY <1>1, <2>1, <2>2 DEF Phases
<1>7. LiveRefs'
  <2>1. \A x \in Table \cup Function : Alive(x)' => \A r \in refs'[x] : Alive(r)'
    BY <1>1, <1>3, <1>4 DEF LiveRefs
  <2>2. \A h \in Table : Alive(h)' /\ meta'[h] # Nil => Alive(meta[h])'
    <3>1. ASSUME NEW h \in Table, Alive(h)', meta'[h] # Nil
          PROVE  Alive(meta[h])'
      <4>1. meta[h] \in Obj /\ meta[h] \in alloc /\ meta'[h] = meta[h]
        BY <1>1, <1>3, <1>4, <3>1, Kinds DEF LiveRefs
      <4>2. ~isdead(meta[h])'
        BY <1>1, <4>1 DEF MarkStep, isdead
      <4> QED BY <1>1, <4>1, <4>2 DEF Alive
    <3> QED BY <3>1
  <2>3. \A t \in Thread : Alive(t)' =>
          \A j \in Slot : stack'[t][j] # Nil => Alive(stack[t][j])'
    <3>1. ASSUME NEW t \in Thread, Alive(t)', NEW j \in Slot, stack'[t][j] # Nil
          PROVE  Alive(stack[t][j])'
      <4>1. stack'[t][j] = stack[t][j]
        BY <3>1 DEF MarkStep
      <4>2. stack[t][j] \in Obj /\ stack[t][j] \in alloc
        BY <1>3, <1>4, <3>1, <4>1 DEF LiveRefs
      <4> QED BY <1>1, <4>1, <4>2 DEF Alive, MarkStep, isdead
    <3> QED BY <3>1
  <2>4. \A t \in Thread : from'[t] # Nil => Alive(t)' /\ Alive(from[t])'
    <3>1. ASSUME NEW t \in Thread, from'[t] # Nil
          PROVE  Alive(t)' /\ Alive(from[t])'
      <4>1. t \in alloc /\ from[t] \in alloc /\ t \in Obj /\ from[t] \in Obj
        BY <1>1, <1>4, <3>1 DEF LiveRefs, Alive
      <4> QED BY <1>1, <4>1 DEF Alive, MarkStep, isdead
    <3> QED BY <3>1
  <2>5. \A u \in Open' : Alive(u)' /\ Alive(uvthread[u])'
    <3>1. ASSUME NEW u \in Open
          PROVE  Alive(u)' /\ Alive(uvthread[u])'
      <4>1. u \in alloc /\ uvthread[u] \in alloc /\ u \in Obj /\ uvthread[u] \in Obj
        BY <1>4 DEF LiveRefs, Alive
      <4> QED BY <1>1, <4>1 DEF Alive, MarkStep, isdead
    <3> QED BY <1>2, <3>1
  <2>6. \A u \in Upval : Alive(u)' /\ uvthread'[u] = Nil => \A r \in refs'[u] : Alive(r)'
    BY <1>1, <1>3, <1>4 DEF LiveRefs
  <2>7. Alive(Main)' /\ Alive(Globals)' /\ Alive(run)'
    <3>1. Main \in alloc /\ Globals \in alloc /\ run \in alloc
      BY DEF LiveRefs, Alive
    <3> QED BY <1>1, <1>4, <3>1 DEF Alive, MarkStep, isdead
  <2> QED BY <2>1, <2>2, <2>3, <2>4, <2>5, <2>6, <2>7 DEF LiveRefs
<1>8. UpvalLinks'
  <2>1. \A u \in Open' : col'[u] # "black" /\ uvslot'[u] <= top'[uvthread'[u]]
    BY <1>1, <1>2, <1>4 DEF UpvalLinks, MarkStep
  <2>2. \A u, w \in Open' : uvthread'[u] = uvthread'[w] /\ uvslot'[u] = uvslot'[w] => u = w
    BY <1>1, <1>2 DEF UpvalLinks
  <2>3. \A u \in Upval : col'[u] = "gray" => uvthread'[u] # Nil
    BY <1>1 DEF UpvalLinks, MarkStep
  <2> QED BY <2>1, <2>2, <2>3 DEF UpvalLinks
<1> QED BY <1>2, <1>5, <1>6, <1>7, <1>8

\* A cycle starts: everything was white, and the roots become gray.
LEMMA MarkRootsSafe ==
  ASSUME SInv, TypeOK', gcstate = "pause", MarkRoots, full' # "swept",
         UNCHANGED <<alloc, heap, stacks, uvthread, uvslot, unswept, schedule>>,
         \A u \in Open : ~markedopen'[u]
  PROVE  Safe'
<1> USE DEF SInv, Safe
<1>1. /\ col' = markcol(Roots) /\ gray' = markgray(Roots) /\ grayagain' = {} /\ weak' = {}
      /\ gcstate' = "propagate" /\ TypeOK /\ from' = from
  BY DEF MarkRoots, IInv, schedule
<1>2. Roots \in SUBSET (Obj \ Upval)
  BY Kinds DEF Roots
<1>3. \A o \in Obj : col[o] = "white"
  BY DEF Phases
<1>4. \A o \in Obj : col'[o] = IF o \in Roots THEN "gray" ELSE "white"
  <2>1. \A o \in Obj : markcol(Roots)[o] = IF o \in Roots /\ iswhite(o) THEN "gray" ELSE col[o]
    BY <1>1, <1>2, MarkValues
  <2> QED BY <1>1, <1>3, <2>1 DEF iswhite
<1>5. \A o : o \in gray' <=> o \in Roots
  <2>1. \A o : o \in markgray(Roots) <=> o \in Roots /\ iswhite(o) /\ o \notin String
    BY <1>1, <1>2, MarkValues
  <2>2. \A o \in Roots : o \in Obj /\ o \notin String
    BY Kinds DEF Roots
  <2> QED BY <1>1, <1>3, <2>1, <2>2 DEF iswhite
<1>6. MarkStep
  <2>1. \A o \in Roots : o \in alloc /\ o \notin Upval
    BY <1>2 DEF LiveRefs, Alive, Roots
  <2>2. \A u \in Upval : u \in Obj
    BY Kinds
  <2> QED
    BY <1>1, <1>3, <1>4, <2>1, <2>2 DEF MarkStep, stacks, keepinvariant, isdead
<1>7. FreeAddresses' /\ Phases' /\ LiveRefs' /\ UpvalLinks' /\ Open' = Open
  BY <1>6, MarkStepSafe
<1>8. Activity'
  <2>1. {t \in Thread : isactive(t)}' = {t \in Thread : isactive(t)}
    BY <1>1 DEF isactive
  <2>2. \A t \in Thread : (isactive(t) \/ t = Main)' => col'[t] # "black"
    BY <1>4, Kinds
  <2> QED BY <1>1, <2>1, <2>2 DEF Activity
<1>9. TriColour'
  <2>1. \A o \in Obj : col'[o] # "black"
    BY <1>4
  <2>2. marked(Main)' /\ marked(Globals)'
    BY <1>4, Kinds DEF marked, Roots
  <2>3. \A x \in Table \cup Function \cup Upval \cup Thread : col'[x] # "black"
    BY <2>1, Kinds
  <2>4. \A u \in Open' : uvthread'[u] \in Thread
    BY DEF Open, TypeOK
  <2> QED BY <2>2, <2>3, <2>4 DEF TriColour
<1>10. Lists'
  <2>1. \A o \in Traversable : o \in Obj
    BY Kinds DEF Traversable
  <2> QED BY <1>1, <1>4, <1>5, <2>1 DEF Lists
<1>11. MarkedOpen'
  BY <1>1, <1>7 DEF MarkedOpen, keepinvariant
<1>12. Atomic'
  BY <1>1 DEF Atomic, InAtomic
<1> QED BY <1>7, <1>8, <1>9, <1>10, <1>11, <1>12

\* markroot
LEMMA MarkrootSafe == ASSUME SInv, TypeOK', markroot PROVE Safe'
<1>1. /\ gcstate = "pause" /\ MarkRoots /\ full' = full /\ full = "no"
      /\ UNCHANGED <<alloc, heap, stacks, upvals, unswept, schedule>>
  BY DEF markroot
<1>2. \A u \in Open : ~markedopen[u]
  BY <1>1 DEF SInv, Safe, MarkedOpen, keepinvariant
<1>3. UNCHANGED <<uvthread, uvslot>> /\ markedopen' = markedopen /\ full' # "swept"
  BY <1>1 DEF upvals
<1> QED BY <1>1, <1>2, <1>3, MarkRootsSafe

\* the second half of lua_c_fullgc begins
LEMMA FullMarkSafe == ASSUME SInv, TypeOK', FullMark PROVE Safe'
<1>1. /\ MarkRoots /\ full' = "mark" /\ full = "swept"
      /\ UNCHANGED <<alloc, heap, stacks, uvthread, uvslot, unswept, schedule>>
  BY DEF FullMark
<1>2. \A u \in Open : ~markedopen'[u]
  BY DEF FullMark, Open
<1>3. gcstate = "pause" /\ full' # "swept"
  BY <1>1 DEF SInv, Safe, Phases
<1> QED BY <1>1, <1>2, <1>3, MarkRootsSafe

\* What a live object that can be traversed leads to is alive.
LEMMA ChildrenAlive ==
  ASSUME SInv, NEW o \in Traversable, Alive(o), NEW r \in Children(o)
  PROVE  Alive(r)
<1> USE DEF SInv, Safe
<1>1. CASE o \in Table
  <2>1. (r = meta[o] /\ r # Nil) \/ r \in refs[o]
    BY <1>1 DEF Children, traversetable
  <2> QED BY <1>1, <2>1 DEF LiveRefs
<1>2. CASE o \in Function
  <2>1. r = Globals \/ r \in refs[o]
    BY <1>2, Kinds DEF Children, traverseclosure
  <2> QED BY <1>2, <2>1 DEF LiveRefs
<1>3. CASE o \in Thread
  <2>1. r \in {Globals} \cup LiveSlots(o) \cup Resumed(o) \cup OpenUpvals(o)
    BY <1>3, Kinds DEF Children, traversestack
  <2>2. CASE r \in LiveSlots(o)
    <3>1. PICK i \in 1..top[o] : r = stack[o][i] /\ r # Nil
      BY <2>2 DEF LiveSlots
    <3>2. i \in Slot
      BY <1>3, BoundsAssumption DEF IInv, TypeOK, Slot
    <3> QED BY <1>3, <3>1, <3>2 DEF LiveRefs
  <2>3. CASE r \in Resumed(o)
    BY <1>3, <2>3, Kinds DEF Resumed, LiveRefs
  <2>4. CASE r \in OpenUpvals(o)
    BY <1>3, <2>4, Kinds DEF OpenUpvals, LiveRefs, Open
  <2>5. CASE r = Globals
    BY <2>5 DEF LiveRefs
  <2> QED BY <2>1, <2>2, <2>3, <2>4, <2>5
<1> QED BY <1>1, <1>2, <1>3 DEF Traversable

\* Only live objects are marked when live objects are.
LEMMA MarkAlive ==
  ASSUME SInv, NEW S \in SUBSET Obj, \A o \in S : Alive(o)
  PROVE  \A o \in Obj : markcol(S)[o] # col[o] => Alive(o)
<1>1. \A o \in Obj : markcol(S)[o] # col[o] => o \in S \/ \E u \in S \cap Upval : o \in UpvalValue(u)
  BY MarkFacts DEF SInv, IInv
<1>2. \A u \in S \cap Upval : \A v \in UpvalValue(u) : Alive(v)
  BY UpvalAlive
<1> QED BY <1>1, <1>2

\* propagatemark: an object leaves the gray list with its references marked,
\* or goes to another list.
LEMMA PropagateSafe ==
  ASSUME SInv, TypeOK', NEW o \in Obj, propagatemark(o)
  PROVE  Safe'
<1> USE DEF SInv, Safe
<1> DEFINE S == Children(o)
           rescan == o \in Thread /\ (isactive(o) \/ o = Main)
           clear  == o \in Thread /\ (~rescan \/ InAtomic)
           stays  == rescan \/ (o \in Table /\ isweak(o))
<1>1. /\ gcstate \in {"propagate", "propagateagain"} \/ InAtomic
      /\ o \in gray /\ gcstate' = gcstate /\ full' = full /\ unswept' = unswept
      /\ alloc' = alloc /\ heap' = heap /\ refs' = refs /\ meta' = meta /\ top' = top
      /\ uvthread' = uvthread /\ uvslot' = uvslot /\ from' = from /\ run' = run
      /\ gray' = (gray \ {o}) \cup markgray(S)
      /\ grayagain' = (IF rescan THEN grayagain \cup {o} ELSE grayagain)
      /\ weak' = (IF o \in Table /\ isweak(o) THEN weak \cup {o} ELSE weak)
      /\ col' = [markcol(S) EXCEPT ![o] = IF stays THEN "gray" ELSE "black"]
  BY RefsUnchanged DEF propagatemark, control, heap, schedule
<1>2. keepinvariant /\ keepinvariant' /\ gcstate # "sweep" /\ gcstate # "pause" /\ full # "swept"
  BY <1>1 DEF keepinvariant, InAtomic, Phases
<1>3. TypeOK /\ o \in Traversable /\ col[o] = "gray" /\ o \in alloc
  <2>1. o \in Traversable /\ TypeOK
    BY <1>1 DEF IInv, TypeOK, Traversable
  <2>2. col[o] = "gray"
    BY <1>1, <1>2, <2>1 DEF Lists
  <2> QED BY <2>1, <2>2 DEF FreeAddresses
<1>4. S \in SUBSET Obj
  BY <1>3, ChildrenType
<1>5. Alive(o)
  BY <1>2, <1>3, NoDead
<1>6. /\ \A x \in Obj : markcol(S)[x] # col[x] => Alive(x)
      /\ \A x \in Obj : col[x] \in Colour /\ (iswhite(x) <=> ~marked(x)) /\ ~isdead(x)
  BY <1>2, <1>3, <1>4, <1>5, ChildrenAlive, MarkAlive, NoDead DEF TypeOK
<1>7. \A x \in Obj : col'[x] = IF x = o THEN (IF stays THEN "gray" ELSE "black") ELSE markcol(S)[x]
  BY <1>1, <1>3, <1>4, MarkType
<1>8. \A x \in Obj : marked(x) => marked(x)'
  <2>1. \A x \in Obj : marked(x) => markcol(S)[x] = col[x]
    BY <1>3, <1>4, MarkFacts
  <2> QED BY <1>7, <2>1 DEF marked
<1>9. \A x \in S : marked(x)'
  <2>1. \A x \in S : markcol(S)[x] \in {"gray", "black"}
    BY <1>3, <1>4, MarkFacts
  <2> QED BY <1>4, <1>7, <2>1 DEF marked
<1>10. \A x \in Obj : x # o /\ col'[x] # col[x] =>
         /\ ~marked(x)
         /\ col'[x] = IF x \in Upval /\ uvthread[x] = Nil THEN "black" ELSE "gray"
  <2>1. \A x \in Obj : markcol(S)[x] # col[x] =>
          /\ iswhite(x)
          /\ markcol(S)[x] = IF x \in Upval /\ uvthread[x] = Nil THEN "black" ELSE "gray"
    BY <1>3, <1>4, MarkFacts
  <2> QED BY <1>6, <1>7, <2>1
<1>11. \A u \in Upval : col'[u] # col[u] => \A v \in UpvalValue(u) : marked(v)'
  <2>1. \A u \in Upval : u # o /\ u \in Obj
    BY <1>3, Kinds DEF Traversable
  <2>2. \A u \in Upval : markcol(S)[u] # col[u] =>
          \A v \in UpvalValue(u) : markcol(S)[v] \in {"gray", "black"}
    BY <1>3, <1>4, MarkFacts
  <2>3. \A u \in Upval : \A v \in UpvalValue(u) : v \in Obj
    BY <1>3, UpvalValueType
  <2> QED BY <1>7, <2>1, <2>2, <2>3 DEF marked
<1>12. \A x : x \in markgray(S) <=>
         x \in Traversable /\ x # o /\ col'[x] # col[x]
  <2>1. \A x \in Obj : x \in markgray(S) <=> x \notin Upval \cup String /\ markcol(S)[x] # col[x]
    BY <1>3, <1>4, MarkFacts
  <2>2. markgray(S) \subseteq Traversable
    BY <1>3, <1>4, MarkType
  <2>3. \A x \in Traversable : x \in Obj /\ x \notin Upval \cup String
    BY Kinds DEF Traversable
  <2>4. markcol(S)[o] = col[o]
    BY <1>3, <1>4, MarkFacts DEF marked
  <2> QED BY <1>7, <2>1, <2>2, <2>3, <2>4
<1>13. /\ \A t \in Thread, i \in Slot : stack'[t][i] = stack[t][i] \/ stack'[t][i] = Nil
       /\ \A t \in Thread, i \in Slot : t # o => stack'[t][i] = stack[t][i]
       /\ o \in Thread /\ clear => \A i \in Slot : i > top[o] => stack'[o][i] = Nil
  <2>1. CASE ~clear
    BY <2>1 DEF propagatemark
  <2>2. CASE clear
    <3>1. stack' = [stack EXCEPT ![o] = [i \in Slot |-> IF i > top[o] THEN Nil ELSE @[i]]]
      BY <2>2 DEF propagatemark
    <3> QED BY <2>2, <3>1 DEF IInv, TypeOK
  <2> QED BY <2>1, <2>2
<1>14. \A u \in Upval : markedopen'[u] <=> markedopen[u] \/ (o \in Thread /\ u \in OpenUpvals(o))
  BY DEF propagatemark, MarkOpen
<1> HIDE DEF S, rescan, clear, stays
<1>15. MarkStep
  <2>1. UNCHANGED <<alloc, heap, top, uvthread, uvslot, unswept, schedule>>
    BY <1>1 DEF schedule
  <2>2. \A x \in Obj : ~isdead(x)'
    BY <1>6, <1>7, <1>10 DEF isdead
  <2>3. \A x \in Obj : col'[x] # col[x] => x \in alloc
    BY <1>3, <1>6, <1>7 DEF Alive
  <2>4. \A u \in Upval : u # o /\ u \in Obj
    BY <1>3, Kinds DEF Traversable
  <2> QED BY <1>1, <1>2, <1>10, <1>13, <2>1, <2>2, <2>3, <2>4 DEF MarkStep
<1>16. FreeAddresses' /\ Phases' /\ LiveRefs' /\ UpvalLinks' /\ Open' = Open
  BY <1>15, MarkStepSafe
<1>17. /\ \A x \in Table \cup Function \cup Upval : x \in Obj /\ refs[x] \subseteq Obj
       /\ \A h \in Table : meta[h] # Nil => meta[h] \in Obj
       /\ \A t \in Thread : t \in Obj /\ t \notin Upval
       /\ \A u \in Open : u \in Obj /\ u \in Upval /\ uvthread[u] \in Obj /\ uvthread[u] \in Thread
       /\ Main \in Obj /\ Globals \in Obj
       /\ \A t \in Thread, i \in Slot : stack[t][i] # Nil => stack[t][i] \in Obj
  BY Kinds, RefsType DEF IInv, TypeOK, Open, Value, Holder
<1>18. \A x \in Obj \ Upval : col'[x] = "black" /\ x # o => col[x] = "black"
  BY <1>10
<1>19. col'[o] = "black" => ~stays
  BY <1>7
<1>20. Activity'
  <2>1. {t \in Thread : isactive(t)}' = {t \in Thread : isactive(t)}
    BY <1>1 DEF isactive
  <2>2. \A t \in Thread : (isactive(t) \/ t = Main)' => col'[t] # "black"
    BY <1>1, <1>17, <1>18, <1>19 DEF Activity, isactive, stays, rescan
  <2> QED BY <1>1, <2>1, <2>2 DEF Activity
<1>21. o \in Thread => /\ \A u \in Open : uvthread[u] = o => u \in S
                       /\ \A i \in 1..top[o] : stack[o][i] # Nil => stack[o][i] \in S
                       /\ S = traversestack(o)
  <2>1. o \in Thread => S = traversestack(o)
    BY Kinds DEF S, Children
  <2> QED BY <2>1 DEF traversestack, LiveSlots, OpenUpvals, Open
<1>22. TriColour'
  <2>1. marked(Main)' /\ marked(Globals)'
    BY <1>2, <1>8, <1>17 DEF TriColour
  <2>2. ASSUME NEW x \in Table \cup Function \cup Upval, col'[x] = "black", NEW r \in refs'[x]
        PROVE  marked(r)'
    <3>1. r \in refs[x] /\ r \in Obj /\ x \in Obj
      BY <1>1, <1>17, <2>2
    <3>2. CASE x = o
      <4>1. r \in S
        BY <1>3, <1>19, <2>2, <3>1, <3>2, Kinds
           DEF S, stays, Children, traversetable, traverseclosure, Traversable
      <4> QED BY <1>9, <4>1
    <3>3. CASE col[x] = "black"
      BY <1>2, <1>8, <3>1, <3>3 DEF TriColour
    <3>4. CASE x # o /\ col[x] # "black"
      <4>1. x \in Upval /\ uvthread[x] = Nil /\ col'[x] # col[x]
        BY <1>10, <2>2, <3>1, <3>4
      <4>2. UpvalValue(x) = refs[x]
        BY <4>1 DEF UpvalValue
      <4> QED BY <1>11, <3>1, <4>1, <4>2
    <3> QED BY <3>2, <3>3, <3>4
  <2>3. ASSUME NEW h \in Table, col'[h] = "black", meta'[h] # Nil
        PROVE  marked(meta[h])'
    <3>1. meta'[h] = meta[h] /\ meta[h] \in Obj /\ h \in Obj \ Upval
      BY <1>1, <1>17, <2>3, Kinds
    <3>2. CASE h = o
      <4>1. meta[h] \in S
        BY <2>3, <3>1, <3>2 DEF S, Children, traversetable
      <4> QED BY <1>9, <3>1, <4>1 DEF marked
    <3>3. CASE h # o
      <4>1. marked(meta[h])
        BY <1>2, <1>18, <2>3, <3>1, <3>3 DEF TriColour
      <4> QED BY <1>8, <3>1, <4>1 DEF marked
    <3> QED BY <3>2, <3>3
  <2>4. ASSUME NEW t \in Thread, col'[t] = "black", NEW j \in Slot
        PROVE  (\/ stack[t][j] = Nil \/ marked(stack[t][j])
                \/ \E u \in Open : uvthread[u] = t /\ uvslot[u] = j)'
    <3>1. CASE t = o
      <4>1. clear
        BY <1>19, <2>4, <3>1 DEF clear, stays
      <4>2. CASE j > top[o]
        BY <1>13, <3>1, <4>1, <4>2
      <4>3. CASE j \in 1..top[o]
        BY <1>9, <1>13, <1>21, <3>1, <4>3 DEF marked
      <4>4. j > top[o] \/ j \in 1..top[o]
        BY <3>1, BoundsAssumption DEF IInv, TypeOK, Slot
      <4> QED BY <4>2, <4>3, <4>4
    <3>2. CASE t # o
      <4>1. stack'[t][j] = stack[t][j] /\ col[t] = "black"
        BY <1>13, <1>17, <1>18, <2>4, <3>2
      <4>2. \/ stack[t][j] = Nil \/ (marked(stack[t][j]) /\ stack[t][j] \in Obj)
            \/ \E u \in Open : uvthread[u] = t /\ uvslot[u] = j
        BY <1>2, <1>17, <2>4, <4>1 DEF TriColour
      <4> QED BY <1>1, <1>8, <1>16, <4>1, <4>2 DEF marked
    <3> QED BY <3>1, <3>2
  <2>5. ASSUME NEW u \in Open', col'[uvthread'[u]] = "black"
        PROVE  marked(u)' /\ markedopen'[u]
    <3>1. u \in Open /\ uvthread'[u] = uvthread[u] /\ u \in Upval /\ uvthread[u] \in Thread /\ u \in Obj
      BY <1>1, <1>16, <1>17
    <3>2. CASE uvthread[u] = o
      <4>1. u \in OpenUpvals(o)
        BY <3>1, <3>2 DEF Open, OpenUpvals
      <4> QED BY <1>9, <1>14, <1>21, <3>1, <3>2, <4>1
    <3>3. CASE uvthread[u] # o
      BY <1>2, <1>8, <1>14, <1>17, <1>18, <2>5, <3>1, <3>3 DEF TriColour
    <3> QED BY <3>2, <3>3
  <2> QED BY <2>1, <2>2, <2>3, <2>4, <2>5 DEF TriColour
<1>23. Lists'
  <2>1. \A x \in Traversable : x \in Obj /\ x \notin Upval
    BY Kinds DEF Traversable
  <2>2. \A x \in Traversable : x # o =>
          (col'[x] = "gray" <=> col[x] = "gray" \/ x \in markgray(S))
    BY <1>10, <1>12, <2>1 DEF marked
  <2>3. \A x \in markgray(S) : x \in Traversable /\ col[x] # "gray" /\ x # o
    BY <1>10, <1>12, <2>1 DEF marked
  <2>4. \A x \in markgray(S) : x \notin gray \cup grayagain \cup weak
    BY <1>2, <2>3 DEF Lists
  <2>5. \A x : x # o => (x \in grayagain' <=> x \in grayagain) /\ (x \in weak' <=> x \in weak)
                        /\ (x \in gray' <=> x \in gray \/ x \in markgray(S))
    BY <1>1
  <2>6. o \notin grayagain /\ o \notin weak /\ o \notin gray'
    BY <1>1, <1>2, <2>3 DEF Lists
  <2>7. ~(rescan /\ o \in Table)
    BY Kinds DEF rescan
  <2>8. (o \in grayagain' <=> rescan) /\ (o \in weak' <=> o \in Table /\ isweak(o))
    BY <1>1, <2>6
  <2>9. col'[o] = "gray" <=> stays
    BY <1>7
  <2>10. ASSUME NEW x \in Traversable
         PROVE  col'[x] = "gray" <=> x \in gray' \cup grayagain' \cup weak'
    <3>1. CASE x = o
      BY <2>6, <2>8, <2>9, <3>1 DEF stays
    <3>2. CASE x # o
      BY <1>2, <2>2, <2>5, <3>2 DEF Lists
    <3> QED BY <3>1, <3>2
  <2>11. \A x : ~(x \in gray' /\ x \in grayagain') /\ ~(x \in gray' \cup grayagain' /\ x \in weak')
    <3>1. ASSUME NEW x, x # o
          PROVE  ~(x \in gray' /\ x \in grayagain') /\ ~(x \in gray' \cup grayagain' /\ x \in weak')
      BY <1>2, <2>4, <2>5, <3>1 DEF Lists
    <3> QED BY <2>6, <2>7, <2>8, <3>1
  <2> QED BY <2>10, <2>11 DEF Lists
<1>24. MarkedOpen'
  <2>1. ASSUME NEW u \in Open', markedopen'[u]
        PROVE  marked(u)' /\ marked(uvthread[u])'
    <3>1. u \in Open /\ uvthread'[u] = uvthread[u] /\ u \in Upval /\ uvthread[u] \in Obj /\ u \in Obj
      BY <1>1, <1>16, <1>17
    <3>2. CASE markedopen[u]
      BY <1>2, <1>8, <3>1, <3>2 DEF MarkedOpen, marked
    <3>3. CASE o \in Thread /\ u \in OpenUpvals(o)
      <4>1. uvthread[u] = o
        BY <3>3 DEF OpenUpvals
      <4> QED BY <1>3, <1>8, <1>9, <1>21, <3>1, <3>3, <4>1 DEF marked
    <3> QED BY <1>14, <2>1, <3>1, <3>2, <3>3
  <2> QED BY <1>2, <2>1 DEF MarkedOpen
<1>25. Atomic'
  <2>1. ASSUME InAtomic, NEW u \in Open', marked(u)', NEW v \in UpvalValue(u)'
        PROVE  marked(v)'
    <3>1. u \in Open /\ uvthread'[u] = uvthread[u] /\ uvslot'[u] = uvslot[u]
          /\ u \in Upval /\ uvthread[u] \in Thread /\ u \in Obj /\ uvthread[u] # Nil
      BY <1>1, <1>16, <1>17, Kinds
    <3>2. uvslot[u] \in Slot
      BY <3>1 DEF IInv, TypeOK
    <3>3. v = stack'[uvthread[u]][uvslot[u]] /\ v # Nil
      BY <2>1, <3>1 DEF UpvalValue
    <3>4. v = stack[uvthread[u]][uvslot[u]] /\ v \in Obj
      BY <1>13, <1>17, <3>1, <3>2, <3>3
    <3>5. v \in UpvalValue(u)
      BY <3>1, <3>3, <3>4 DEF UpvalValue
    <3>6. CASE marked(u)
      BY <1>8, <2>1, <3>1, <3>4, <3>5, <3>6 DEF Atomic
    <3>7. CASE ~marked(u)
      <4>1. col'[u] # col[u]
        BY <2>1, <3>7 DEF marked
      <4> QED BY <1>11, <3>1, <3>5, <4>1
    <3> QED BY <3>6, <3>7
  <2>2. ASSUME gcstate \in {"atomic2", "atomic3"}, NEW h \in weak'
        PROVE  isweak(h)' /\ marked(meta[h])'
    <3>1. isweak(h)' = isweak(h) /\ meta'[h] = meta[h]
      BY <1>1 DEF isweak
    <3>2. CASE h \in weak
      <4>1. isweak(h) /\ marked(meta[h])
        BY <2>2, <3>2 DEF Atomic
      <4>2. meta[h] \in Obj
        BY <4>1, Kinds, KindsAssumption DEF isweak
      <4> QED BY <1>8, <3>1, <4>1, <4>2 DEF marked
    <3>3. CASE h = o /\ o \in Table /\ isweak(o)
      <4>1. meta[o] \in S
        BY <3>3, Kinds, KindsAssumption DEF S, Children, traversetable, isweak
      <4> QED BY <1>9, <3>1, <3>3, <4>1 DEF marked
    <3> QED BY <1>1, <2>2, <3>2, <3>3
  <2>3. ASSUME gcstate = "atomic3", NEW x \in grayagain'
        PROVE  (/\ x \in Thread
                /\ \A r \in traversestack(x) : marked(r)
                /\ \A i \in Slot : i > top[x] => stack[x][i] = Nil
                /\ \A u \in OpenUpvals(x) : markedopen[u])'
    <3>1. x \in Thread
      <4>1. x \in grayagain => x \in Thread
        BY <2>3 DEF Atomic
      <4> QED BY <1>1, <4>1 DEF rescan
    <3>2. OpenUpvals(x)' = OpenUpvals(x) /\ Resumed(x)' = Resumed(x) /\ OpenUpvals(x) \subseteq Upval
      BY <1>1 DEF OpenUpvals, Resumed
    <3>3. \A i \in 1..top[x] : i \in Slot
      BY <3>1, BoundsAssumption DEF IInv, TypeOK, Slot
    <3>4. LiveSlots(x)' \subseteq LiveSlots(x)
      BY <1>1, <1>13, <3>1, <3>3 DEF LiveSlots
    <3>5. traversestack(x)' \subseteq traversestack(x)
      BY <3>2, <3>4 DEF traversestack
    <3>6. traversestack(x) \subseteq Obj
      BY <1>3, <3>1, ChildrenType, Kinds DEF Children, Traversable
    <3>7. CASE x = o
      <4>1. InAtomic
        BY <2>3 DEF InAtomic
      <4>2. \A i \in Slot : i > top[o] => stack'[o][i] = Nil
        BY <1>13, <3>1, <3>7, <4>1 DEF clear
      <4>3. \A r \in traversestack(x)' : marked(r)'
        BY <1>9, <1>21, <3>1, <3>5, <3>7
      <4>4. \A u \in OpenUpvals(x)' : markedopen'[u]
        BY <1>14, <3>1, <3>2, <3>7
      <4> QED BY <1>1, <3>1, <3>7, <4>2, <4>3, <4>4
    <3>8. CASE x # o
      <4>1. x \in grayagain
        BY <1>1, <2>3, <3>8
      <4>2. /\ \A r \in traversestack(x) : marked(r)
            /\ \A i \in Slot : i > top[x] => stack[x][i] = Nil
            /\ \A u \in OpenUpvals(x) : markedopen[u]
        BY <2>3, <4>1 DEF Atomic
      <4>3. \A r \in traversestack(x)' : marked(r)'
        BY <1>8, <3>5, <3>6, <4>2
      <4>4. \A u \in OpenUpvals(x)' : markedopen'[u]
        BY <1>14, <3>2, <4>2
      <4>5. \A i \in Slot : i > top'[x] => stack'[x][i] = Nil
        BY <1>1, <1>13, <3>1, <3>8, <4>2
      <4> QED BY <3>1, <4>3, <4>4, <4>5
    <3> QED BY <3>7, <3>8
  <2> QED BY <1>1, <2>1, <2>2, <2>3 DEF Atomic, InAtomic
<1> QED BY <1>16, <1>20, <1>22, <1>23, <1>24, <1>25

\* The other marking steps: values V are marked, and the lists change roles.
LEMMA MarkListsSafe ==
  ASSUME SInv, TypeOK', keepinvariant, keepinvariant', NEW V \in SUBSET (Obj \ Upval),
         \A v \in V : Alive(v),
         \A o \in Obj : col'[o] = IF o \in V /\ iswhite(o) THEN "gray" ELSE col[o],
         UNCHANGED <<alloc, heap, stacks, upvals, unswept, full, schedule>>,
         \A o \in Traversable : o \in gray' \cup grayagain' \cup weak' <=>
            o \in gray \cup grayagain \cup weak \/ (o \in V /\ iswhite(o)),
         gray' \cap grayagain' = {}, (gray' \cup grayagain') \cap weak' = {},
         Atomic'
  PROVE  Safe'
<1> USE DEF SInv, Safe
<1>1. /\ alloc' = alloc /\ refs' = refs /\ meta' = meta /\ top' = top /\ stack' = stack
      /\ uvthread' = uvthread /\ uvslot' = uvslot /\ markedopen' = markedopen
      /\ from' = from /\ run' = run /\ full' = full
  BY RefsUnchanged DEF heap, stacks, upvals, schedule
<1>2. gcstate # "sweep" /\ gcstate # "pause" /\ full # "swept"
  BY DEF keepinvariant, Phases
<1>3. \A o \in Obj : ~isdead(o) /\ (iswhite(o) <=> ~marked(o))
  BY <1>2, NoDead
<1>4. /\ \A o \in Obj : marked(o) => marked(o)'
      /\ \A o \in Obj : col'[o] = "black" => col[o] = "black"
  BY <1>3 DEF marked
<1>5. MarkStep
  <2>1. UNCHANGED <<alloc, heap, top, uvthread, uvslot, unswept, schedule>>
    BY <1>1 DEF heap, schedule
  <2>2. \A o \in Obj : ~isdead(o)' /\ (col'[o] # col[o] => o \in alloc)
    BY <1>3 DEF isdead, Alive
  <2>3. \A u \in Upval : col'[u] = col[u]
    BY Kinds
  <2> QED BY <1>1, <1>2, <2>1, <2>2, <2>3 DEF MarkStep
<1>6. FreeAddresses' /\ Phases' /\ LiveRefs' /\ UpvalLinks' /\ Open' = Open
  BY <1>5, MarkStepSafe
<1>7. /\ \A x \in Table \cup Function \cup Upval : x \in Obj /\ refs[x] \subseteq Obj
      /\ \A h \in Table : meta[h] # Nil => meta[h] \in Obj
      /\ \A t \in Thread : t \in Obj
      /\ \A u \in Open : u \in Obj /\ uvthread[u] \in Obj
      /\ Main \in Obj /\ Globals \in Obj
      /\ \A t \in Thread, i \in Slot : stack[t][i] # Nil => stack[t][i] \in Obj
  BY Kinds, RefsType DEF IInv, TypeOK, Open, Value, Holder
<1>8. Activity'
  <2>1. {t \in Thread : isactive(t)}' = {t \in Thread : isactive(t)}
    BY <1>1 DEF isactive
  <2>2. \A t \in Thread : (isactive(t) \/ t = Main)' => col'[t] # "black"
    BY <1>1, <1>4, <1>7 DEF Activity, isactive
  <2> QED BY <1>1, <2>1, <2>2 DEF Activity
<1>9. TriColour'
  <2>1. /\ marked(Main)' /\ marked(Globals)'
        /\ \A x \in Table \cup Function \cup Upval :
             col'[x] = "black" => \A r \in refs'[x] : marked(r)'
    BY <1>1, <1>4, <1>7 DEF TriColour
  <2>2. ASSUME NEW h \in Table, col'[h] = "black", meta'[h] # Nil
        PROVE  marked(meta[h])'
    <3>1. marked(meta[h]) /\ meta[h] \in Obj
      BY <1>1, <1>4, <1>7, <2>2, Kinds DEF TriColour
    <3> QED BY <1>1, <1>4, <3>1 DEF marked
  <2>3. ASSUME NEW t \in Thread, col'[t] = "black", NEW j \in Slot
        PROVE  (\/ stack[t][j] = Nil \/ marked(stack[t][j])
                \/ \E u \in Open : uvthread[u] = t /\ uvslot[u] = j)'
    <3>1. \/ stack[t][j] = Nil \/ (marked(stack[t][j]) /\ stack[t][j] \in Obj)
          \/ \E u \in Open : uvthread[u] = t /\ uvslot[u] = j
      BY <1>4, <1>7, <2>3 DEF TriColour
    <3> QED BY <1>1, <1>4, <1>6, <3>1 DEF marked
  <2>4. ASSUME NEW u \in Open', col'[uvthread'[u]] = "black"
        PROVE  marked(u)' /\ markedopen'[u]
    BY <1>1, <1>4, <1>6, <1>7, <2>4 DEF TriColour
  <2> QED BY <2>1, <2>2, <2>3, <2>4 DEF TriColour
<1>10. Lists'
  <2>1. \A o \in Traversable : o \in Obj
    BY Kinds DEF Traversable
  <2>2. \A o \in Traversable : col'[o] = "gray" <=> col[o] = "gray" \/ (o \in V /\ iswhite(o))
    BY <2>1
  <2> QED BY <2>2 DEF Lists
<1>11. MarkedOpen'
  <2>1. ASSUME NEW u \in Open', markedopen'[u]
        PROVE  marked(u)' /\ marked(uvthread[u])'
    <3>1. u \in Open /\ marked(u) /\ marked(uvthread[u])
      BY <1>1, <1>6, <2>1 DEF MarkedOpen
    <3> QED BY <1>1, <1>4, <1>7, <3>1 DEF marked
  <2> QED BY <2>1 DEF MarkedOpen
<1> QED BY <1>6, <1>8, <1>9, <1>10, <1>11

\* Marking can only go on: what the parts of atomic() know of the upvalues
\* stays true while values are marked.
LEMMA ValuesStayMarked ==
  ASSUME SInv, InAtomic, NEW V \in SUBSET (Obj \ Upval),
         \A o \in Obj : col'[o] = IF o \in V /\ iswhite(o) THEN "gray" ELSE col[o],
         UNCHANGED <<alloc, heap, stacks, upvals>>
  PROVE  (\A u \in Open : marked(u) => \A v \in UpvalValue(u) : marked(v))'
<1>1. alloc' = alloc /\ refs' = refs /\ stack' = stack /\ uvthread' = uvthread /\ uvslot' = uvslot
  BY RefsUnchanged DEF heap, stacks, upvals
<1>2. Open' = Open /\ \A u \in Open : UpvalValue(u)' = UpvalValue(u)
  BY <1>1 DEF Open, UpvalValue
<1>3. \A u \in Open : u \in Obj /\ u \in Upval /\ UpvalValue(u) \subseteq Obj
  BY Kinds, UpvalValueType DEF Open, SInv, IInv
<1>4. \A u \in Open : marked(u)' => marked(u)
  BY <1>3 DEF marked
<1>5. \A o \in Obj : marked(o) => marked(o)'
  BY DEF marked
<1> QED BY <1>2, <1>3, <1>4, <1>5 DEF SInv, Safe, Atomic

\* The ends of the two propagations.
LEMMA PropagateDoneSafe ==
  ASSUME SInv, TypeOK', PropagateDone \/ PropagateAgainDone
  PROVE  Safe'
<1>1. /\ gray = {} /\ col' = col /\ weak' = weak
      /\ UNCHANGED <<alloc, heap, stacks, upvals, unswept, full, schedule>>
      /\ gcstate \in {"propagate", "propagateagain"} /\ gcstate' \in {"propagateagain", "atomic"}
      /\ gray' \cup grayagain' = grayagain /\ gray' \cap grayagain' = {}
  BY DEF PropagateDone, PropagateAgainDone, lists
<1>2. keepinvariant /\ keepinvariant'
  BY <1>1 DEF keepinvariant
<1>3. Atomic'
  BY <1>1 DEF Atomic, InAtomic
<1>4. {} \in SUBSET (Obj \ Upval) /\ \A v \in {} : Alive(v)
  OBVIOUS
<1>5. \A o \in Obj : col'[o] = IF o \in {} /\ iswhite(o) THEN "gray" ELSE col[o]
  BY <1>1
<1>6. \A o \in Traversable : o \in gray' \cup grayagain' \cup weak' <=>
        o \in gray \cup grayagain \cup weak \/ (o \in {} /\ iswhite(o))
  BY <1>1
<1>7. (gray' \cup grayagain') \cap weak' = {}
  BY <1>1, <1>2 DEF SInv, Safe, Lists
<1> QED BY ONLY SInv, TypeOK', <1>1, <1>2, <1>3, <1>4, <1>5, <1>6, <1>7, MarkListsSafe

\* remarkupvals: from here on the value of a marked upvalue is marked.
LEMMA RemarkSafe == ASSUME SInv, TypeOK', remarkupvals PROVE Safe'
<1> DEFINE V == UNION {UpvalValue(u) : u \in {w \in Open : col[w] = "gray"}}
<1>1. /\ col' = markcol(V) /\ gray' = gray \cup markgray(V) /\ weak' = weak /\ grayagain' = grayagain
      /\ UNCHANGED <<alloc, heap, stacks, upvals, unswept, full, schedule>>
      /\ gcstate = "atomic" /\ gcstate' = "atomic1"
  BY DEF remarkupvals
<1>2. keepinvariant /\ keepinvariant' /\ TypeOK
  BY <1>1 DEF keepinvariant, SInv, IInv
<1>3. V \in SUBSET (Obj \ Upval)
  BY <1>2, UpvalValueType DEF Open
<1>4. \A v \in V : Alive(v)
  <2>1. \A u \in Open : u \in Upval /\ Alive(u)
    BY DEF SInv, Safe, LiveRefs, Open
  <2> QED BY <2>1, UpvalAlive
<1>5. \A o \in Obj : col'[o] = IF o \in V /\ iswhite(o) THEN "gray" ELSE col[o]
  BY <1>1, <1>2, <1>3, MarkValues
<1>6. \A o : o \in markgray(V) <=> o \in V /\ iswhite(o) /\ o \notin String
  BY <1>2, <1>3, MarkValues
<1>7. \A o \in Traversable : o \notin String
  BY Kinds DEF Traversable
<1>8. \A o \in Traversable : o \in gray' \cup grayagain' \cup weak' <=>
        o \in gray \cup grayagain \cup weak \/ (o \in V /\ iswhite(o))
  BY <1>1, <1>6, <1>7
<1>9. gray' \cap grayagain' = {} /\ (gray' \cup grayagain') \cap weak' = {}
  <2>1. markgray(V) \subseteq Traversable
    BY <1>2, <1>3, MarkType
  <2>2. \A o \in markgray(V) : o \notin gray \cup grayagain \cup weak
    BY <1>2, <1>6, <2>1 DEF SInv, Safe, Lists, iswhite
  <2> QED BY <1>1, <1>2, <2>2 DEF SInv, Safe, Lists
<1>10. Atomic'
  <2>1. /\ alloc' = alloc /\ refs' = refs /\ stack' = stack /\ uvthread' = uvthread /\ uvslot' = uvslot
    BY <1>1, RefsUnchanged DEF heap, stacks, upvals
  <2>2. Open' = Open /\ \A u \in Open : UpvalValue(u)' = UpvalValue(u)
    BY <2>1 DEF Open, UpvalValue
  <2>3. \A u \in Open : u \in Obj /\ u \in Upval /\ UpvalValue(u) \subseteq Obj
    BY <1>2, Kinds, UpvalValueType DEF Open
  <2>4. \A u \in Open : marked(u)' => col[u] = "gray"
    BY <1>3, <1>5, <2>3 DEF marked, SInv, Safe, UpvalLinks
  <2>5. \A v \in V : marked(v)'
    <3>1. \A v \in V : v \in Obj /\ col[v] \in Colour
      BY <1>2, <1>3 DEF TypeOK
    <3> HIDE DEF V
    <3> QED BY <1>5, <3>1 DEF marked, iswhite, Colour
  <2>6. \A u \in Open' : marked(u)' => \A v \in UpvalValue(u)' : marked(v)'
    BY <2>2, <2>4, <2>5
  <2> QED BY <1>1, <2>6 DEF Atomic
<1> HIDE DEF V
<1> QED
  BY ONLY SInv, TypeOK', <1>1, <1>2, <1>3, <1>4, <1>5, <1>8, <1>9, <1>10, MarkListsSafe

\* The weak tables are traversed once more, after the running thread.
LEMMA AtomicWeakSafe == ASSUME SInv, TypeOK', AtomicWeak PROVE Safe'
<1>1. /\ col' = markcol({run}) /\ gray' = weak \cup markgray({run}) /\ weak' = {}
      /\ grayagain' = grayagain /\ gray = {}
      /\ UNCHANGED <<alloc, heap, stacks, upvals, unswept, full, schedule>>
      /\ gcstate = "atomic1" /\ gcstate' = "atomic2"
  BY DEF AtomicWeak
<1>2. keepinvariant /\ keepinvariant' /\ TypeOK /\ InAtomic
  BY <1>1 DEF keepinvariant, SInv, IInv, InAtomic
<1>3. {run} \in SUBSET (Obj \ Upval) /\ run \in Traversable /\ run \notin String
  BY <1>2, Kinds DEF TypeOK, Traversable
<1>4. \A v \in {run} : Alive(v)
  BY DEF SInv, Safe, LiveRefs
<1>5. \A o \in Obj : col'[o] = IF o \in {run} /\ iswhite(o) THEN "gray" ELSE col[o]
  BY <1>1, <1>2, <1>3, MarkValues
<1>6. \A o : o \in markgray({run}) <=> o \in {run} /\ iswhite(o)
  BY <1>2, <1>3, MarkValues
<1>7. \A o \in Traversable : o \in gray' \cup grayagain' \cup weak' <=>
        o \in gray \cup grayagain \cup weak \/ (o \in {run} /\ iswhite(o))
  BY <1>1, <1>6
<1>8. gray' \cap grayagain' = {} /\ (gray' \cup grayagain') \cap weak' = {}
  <2>1. iswhite(run) => run \notin gray \cup grayagain \cup weak
    BY <1>2, <1>3 DEF SInv, Safe, Lists, iswhite
  <2> QED BY <1>1, <1>2, <1>6, <2>1 DEF SInv, Safe, Lists
<1>9. Atomic'
  <2>1. (\A u \in Open : marked(u) => \A v \in UpvalValue(u) : marked(v))'
    BY <1>1, <1>2, <1>3, <1>5, ValuesStayMarked
  <2> QED BY <1>1, <2>1 DEF Atomic
<1> QED
  BY ONLY SInv, TypeOK', <1>1, <1>2, <1>3, <1>4, <1>5, <1>7, <1>8, <1>9, MarkListsSafe

\* What was left for the end comes to the gray list.
LEMMA AtomicGrayAgainSafe == ASSUME SInv, TypeOK', AtomicGrayAgain PROVE Safe'
<1>1. /\ gray = {} /\ col' = col /\ weak' = weak /\ gray' = grayagain /\ grayagain' = {}
      /\ UNCHANGED <<alloc, heap, stacks, upvals, unswept, full, schedule>>
      /\ gcstate = "atomic2" /\ gcstate' = "atomic3"
  BY DEF AtomicGrayAgain
<1>2. keepinvariant /\ keepinvariant' /\ InAtomic
  BY <1>1 DEF keepinvariant, InAtomic
<1>3. {} \in SUBSET (Obj \ Upval) /\ \A v \in {} : Alive(v)
  OBVIOUS
<1>4. \A o \in Obj : col'[o] = IF o \in {} /\ iswhite(o) THEN "gray" ELSE col[o]
  BY <1>1
<1>5. \A o \in Traversable : o \in gray' \cup grayagain' \cup weak' <=>
        o \in gray \cup grayagain \cup weak \/ (o \in {} /\ iswhite(o))
  BY <1>1
<1>6. gray' \cap grayagain' = {} /\ (gray' \cup grayagain') \cap weak' = {}
  BY <1>1, <1>2 DEF SInv, Safe, Lists
<1>7. Atomic'
  <2>1. (\A u \in Open : marked(u) => \A v \in UpvalValue(u) : marked(v))'
    BY <1>1, <1>2, <1>3, <1>4, ValuesStayMarked
  <2>2. (\A h \in weak : isweak(h) /\ marked(meta[h]))'
    BY <1>1 DEF SInv, Safe, Atomic, isweak, marked, heap
  <2> QED BY <1>1, <2>1, <2>2 DEF Atomic
<1> QED BY ONLY SInv, TypeOK', <1>1, <1>2, <1>3, <1>4, <1>5, <1>6, <1>7, MarkListsSafe

(***************************************************************************)
(* The end of atomic().                                                    *)
(***************************************************************************)
\* When nothing is left to traverse the marked objects are closed under every
\* reference but the contents of the weak tables, and they contain the roots
\* and the threads that run or wait: who resumed a marked thread's coroutine
\* has been traversed, and the chain starts at the main thread.
LEMMA MarkedClosed ==
  ASSUME SInv, gcstate = "atomic3", gray = {}
  PROVE  /\ \A h \in Table : marked(h) /\ h \notin weak => \A r \in refs[h] : marked(r)
         /\ \A h \in Table : marked(h) /\ meta[h] # Nil => marked(meta[h])
         /\ \A f \in Function : marked(f) => \A r \in refs[f] : marked(r)
         /\ \A t \in Thread : marked(t) =>
              \A i \in Slot : stack[t][i] # Nil => marked(stack[t][i])
         /\ \A u \in Open : marked(uvthread[u]) => marked(u) /\ markedopen[u]
         /\ \A u \in Upval : marked(u) => \A v \in UpvalValue(u) : marked(v)
         /\ \A t \in Thread : from[t] # Nil => marked(t) /\ marked(from[t])
         /\ marked(Main) /\ marked(Globals) /\ marked(run)
<1> USE DEF SInv, Safe
<1>1. keepinvariant /\ InAtomic
  BY DEF keepinvariant, InAtomic
<1>2. \A o \in Traversable : o \in Obj /\ (col[o] = "gray" => o \in grayagain \/ o \in weak)
  BY <1>1, Kinds DEF Lists, Traversable
<1>3. \A o \in grayagain : /\ o \in Thread
                           /\ \A r \in traversestack(o) : marked(r)
                           /\ \A i \in Slot : i > top[o] => stack[o][i] = Nil
                           /\ \A u \in OpenUpvals(o) : markedopen[u]
  BY DEF Atomic
<1>4. \A h \in weak : isweak(h) /\ marked(meta[h]) /\ h \in Table
  BY DEF Atomic, IInv, TypeOK
<1>5. \A h \in Table : marked(h) => col[h] = "black" \/ h \in weak
  BY <1>2, <1>3, Kinds DEF marked, Traversable
<1>6. \A f \in Function : marked(f) => col[f] = "black"
  BY <1>2, <1>3, <1>4, Kinds DEF marked, Traversable
<1>7. \A t \in Thread : marked(t) => col[t] = "black" \/ t \in grayagain
  BY <1>2, <1>4, Kinds DEF marked, Traversable
<1>8. \A h \in Table : marked(h) /\ h \notin weak => \A r \in refs[h] : marked(r)
  BY <1>1, <1>5 DEF TriColour
<1>9. \A h \in Table : marked(h) /\ meta[h] # Nil => marked(meta[h])
  BY <1>1, <1>4, <1>5 DEF TriColour
<1>10. \A f \in Function : marked(f) => \A r \in refs[f] : marked(r)
  BY <1>1, <1>6 DEF TriColour
<1>11. \A u \in Open : marked(uvthread[u]) => marked(u) /\ markedopen[u]
  <2>1. ASSUME NEW u \in Open, marked(uvthread[u])
        PROVE  marked(u) /\ markedopen[u]
    <3>1. uvthread[u] \in Thread /\ u \in OpenUpvals(uvthread[u])
      BY DEF Open, OpenUpvals, IInv, TypeOK
    <3>2. CASE col[uvthread[u]] = "black"
      BY <1>1, <3>2 DEF TriColour
    <3>3. CASE uvthread[u] \in grayagain
      BY <1>3, <3>1, <3>3 DEF traversestack
    <3> QED BY <1>7, <2>1, <3>1, <3>2, <3>3
  <2> QED BY <2>1
<1>12. \A u \in Upval : marked(u) => \A v \in UpvalValue(u) : marked(v)
  <2>1. ASSUME NEW u \in Upval, marked(u), NEW v \in UpvalValue(u)
        PROVE  marked(v)
    <3>1. u \in alloc
      BY <2>1, Kinds DEF FreeAddresses, marked
    <3>2. CASE uvthread[u] # Nil
      BY <1>1, <2>1, <3>1, <3>2 DEF Open, Atomic
    <3>3. CASE uvthread[u] = Nil
      <4>1. col[u] = "black"
        BY <2>1, <3>3 DEF marked, UpvalLinks
      <4> QED BY <1>1, <2>1, <3>3, <4>1 DEF UpvalValue, TriColour
    <3> QED BY <3>2, <3>3
  <2> QED BY <2>1
<1>13. ASSUME NEW t \in Thread, marked(t), NEW i \in Slot, stack[t][i] # Nil
       PROVE  marked(stack[t][i])
  <2>1. CASE t \in grayagain
    <3>1. ~(i > top[t])
      BY <1>3, <1>13, <2>1
    <3>2. i \in 1..top[t]
      BY <3>1, BoundsAssumption DEF IInv, TypeOK, Slot
    <3>3. stack[t][i] \in traversestack(t)
      BY <1>13, <3>2 DEF traversestack, LiveSlots
    <3> QED BY <1>3, <2>1, <3>3
  <2>2. CASE col[t] = "black"
    <3>1. ASSUME NEW u \in Open, uvthread[u] = t, uvslot[u] = i
          PROVE  marked(stack[t][i])
      <4>1. marked(u) /\ u \in Upval /\ uvthread[u] # Nil
        BY <1>11, <1>13, <3>1 DEF Open
      <4>2. stack[t][i] \in UpvalValue(u)
        BY <1>13, <3>1, <4>1 DEF UpvalValue
      <4> QED BY <1>12, <4>1, <4>2
    <3> QED BY <1>1, <1>13, <2>2, <3>1 DEF TriColour
  <2> QED BY <1>7, <1>13, <2>1, <2>2
<1>14. \A t \in Thread : from[t] # Nil => marked(t)
  <2> DEFINE W == {t \in Thread : from[t] # Nil /\ ~marked(t)}
  <2>1. SUFFICES ASSUME W # {} PROVE FALSE
    OBVIOUS
  <2>2. W \in SUBSET {t \in Thread : isactive(t)}
    BY DEF isactive
  <2>3. PICK t \in W : from[t] \notin W
    BY <2>1, <2>2 DEF Activity
  <2>4. from[t] \in Thread /\ t \in Thread /\ from[t] # Nil /\ ~marked(t)
    BY <2>3 DEF IInv, TypeOK
  <2>5. from[t] = Main \/ from[from[t]] # Nil
    BY <2>4 DEF IInv, ResumeChain, isactive
  <2>6. marked(from[t])
    BY <1>1, <2>3, <2>4, <2>5 DEF TriColour
  <2>7. col[from[t]] # "black"
    BY <2>4, <2>5 DEF Activity, isactive
  <2>8. from[t] \in grayagain
    BY <1>7, <2>4, <2>6, <2>7
  <2>9. t \in traversestack(from[t])
    BY <2>4 DEF traversestack, Resumed
  <2> QED BY <1>3, <2>4, <2>8, <2>9
<1>15. marked(Main) /\ marked(Globals)
  BY <1>1 DEF TriColour
<1>16. \A t \in Thread : from[t] # Nil => marked(from[t])
  <2>1. ASSUME NEW t \in Thread, from[t] # Nil
        PROVE  marked(from[t])
    <3>1. from[t] \in Thread /\ (from[t] = Main \/ from[from[t]] # Nil)
      BY <2>1 DEF IInv, TypeOK, ResumeChain, isactive
    <3> QED BY <1>14, <1>15, <3>1
  <2> QED BY <2>1
<1>17. marked(run)
  BY <1>14, <1>15 DEF IInv, TypeOK, ResumeChain, isactive
<1> QED
  BY <1>8, <1>9, <1>10, <1>11, <1>12, <1>13, <1>14, <1>15, <1>16, <1>17

\* What an entry that stays in a weak table holds: its strings are marked.
LEMMA ClearedEntries ==
  ASSUME TypeOK, NEW h \in Table, NEW r \in Objects(cleartable(h))
  PROVE  /\ r \in refs[h] /\ r \in Obj /\ ~iscleared(r)
         /\ r \in String => r \in stringmark(h)
<1>1. refs[h] = Objects(node[h]) /\ refs[h] \subseteq Obj
  BY RefsType DEF refs, Holder
<1>2. PICK e \in cleartable(h) : (r = e.key \/ r = e.val) /\ r # Nil
  BY DEF Objects
<1>3. e \in node[h] /\ ~iscleared(e.key) /\ ~iscleared(e.val)
  BY DEF cleartable
<1> QED BY <1>1, <1>2, <1>3 DEF Objects, stringmark

\* atomic() ends: what is not marked is dead, except for strings in weak
\* tables; what is left refers only to what is left.
LEMMA AtomicEndFacts ==
  ASSUME SInv, AtomicEnd
  PROVE  LET kept   == UNION {stringmark(h) : h \in weak}
             closed == {u \in Orphans : ~iswhite(u)}
         IN /\ closed \subseteq Open /\ kept \subseteq String
            /\ \A o \in kept : o \in alloc
            /\ \A u \in closed : marked(u)
            /\ \A o \in Obj : col'[o] = IF o \in closed THEN "black"
                                        ELSE IF marked(o) THEN col[o]
                                        ELSE IF o \in kept THEN "gray"
                                        ELSE IF o \in alloc THEN "dead" ELSE "white"
            /\ \A x \in Table \cup Function \cup Upval :
                 refs'[x] = IF x \in weak THEN Objects(cleartable(x))
                            ELSE IF x \in closed THEN UpvalValue(x) ELSE refs[x]
            /\ \A u \in Upval : uvthread'[u] = IF u \in Orphans THEN Nil ELSE uvthread[u]
            /\ \A u \in Upval : ~markedopen'[u]
            /\ gcstate = "atomic3" /\ gray = {}
            /\ weak' = {} /\ unswept' = alloc \ {Main} /\ gcstate' = "sweep"
            /\ UNCHANGED <<alloc, gray, grayagain, meta, stacks, uvslot, full, schedule>>
<1> USE DEF SInv, Safe
<1> DEFINE kept   == UNION {stringmark(h) : h \in weak}
           closed == {u \in Orphans : ~iswhite(u)}
           marks  == kept \cup UNION {UpvalValue(u) : u \in closed}
<1>1. /\ gcstate = "atomic3" /\ gray = {}
      /\ weak' = {} /\ unswept' = alloc \ {Main} /\ gcstate' = "sweep"
      /\ UNCHANGED <<alloc, gray, grayagain, meta, stacks, uvslot, full, schedule>>
  BY DEF AtomicEnd
<1>2. TypeOK /\ \A o \in Obj : ~isdead(o) /\ (iswhite(o) <=> ~marked(o)) /\ col[o] \in Colour
  BY <1>1, NoDead DEF IInv, TypeOK
<1>3. closed \subseteq Open /\ closed \subseteq Upval /\ kept \subseteq String
  BY DEF Orphans, Open, stringmark
<1>4. \A u \in closed : marked(u)
  BY <1>2, <1>3, Kinds
<1>5. \A o \in kept : o \in alloc
  <2>1. \A h \in weak : h \in Table /\ h \in Traversable /\ h \in Obj
    BY Kinds DEF IInv, TypeOK, Traversable
  <2>2. \A h \in weak : col[h] = "gray"
    BY <1>1, <2>1 DEF Lists, keepinvariant
  <2>3. \A h \in weak : Alive(h)
    BY <2>1, <2>2 DEF FreeAddresses, Alive, isdead
  <2>4. \A h \in weak : stringmark(h) \subseteq refs[h]
    BY <2>1 DEF stringmark, Objects, refs, Holder
  <2> QED BY <2>1, <2>3, <2>4 DEF LiveRefs, Alive
<1>6. \A u \in closed : \A v \in UpvalValue(u) : marked(v)
  BY <1>1, <1>3, <1>4, MarkedClosed
<1>7. marks \in SUBSET (Obj \ Upval)
  BY <1>2, <1>3, UpvalValueType, Kinds
<1>8. \A o \in Obj : markcol(marks)[o] = IF o \in kept /\ ~marked(o) THEN "gray" ELSE col[o]
  <2>1. \A o \in Obj : markcol(marks)[o] = IF o \in marks /\ iswhite(o) THEN "gray" ELSE col[o]
    BY <1>2, <1>7, MarkValues
  <2>2. \A o \in Obj : o \in marks /\ ~marked(o) <=> o \in kept /\ ~marked(o)
    BY <1>6
  <2> QED BY <1>2, <2>1, <2>2
<1>9. \A o \in Obj : ~marked(o) => col[o] = "white"
  BY <1>2 DEF marked, isdead, Colour
<1>10. \A o \in Obj : col'[o] = IF o \in closed THEN "black"
                                ELSE IF marked(o) THEN col[o]
                                ELSE IF o \in kept THEN "gray"
                                ELSE IF o \in alloc THEN "dead" ELSE "white"
  <2>1. \A o \in Obj : col'[o] = IF o \in closed THEN "black"
                                 ELSE IF o \in alloc /\ markcol(marks)[o] = "white" THEN "dead"
                                 ELSE markcol(marks)[o]
    BY DEF AtomicEnd
  <2> HIDE DEF kept, closed, marks
  <2> QED BY <1>8, <1>9, <2>1 DEF marked
<1>11. /\ \A x \in Table \cup Function \cup Upval :
            refs'[x] = IF x \in weak THEN Objects(cleartable(x))
                       ELSE IF x \in closed THEN UpvalValue(x) ELSE refs[x]
       /\ \A u \in Upval : uvthread'[u] = IF u \in Orphans THEN Nil ELSE uvthread[u]
       /\ \A u \in Upval : ~markedopen'[u]
  <2>1. ASSUME NEW h \in Table
        PROVE  refs'[h] = IF h \in weak THEN Objects(cleartable(h)) ELSE refs[h]
    BY DEF AtomicEnd, refs, Holder, Objects
  <2>2. ASSUME NEW x \in Function \cup Upval
        PROVE  refs'[x] = IF x \in closed THEN UpvalValue(x) ELSE refs[x]
    <3>1. x \in DOMAIN cells /\ refs'[x] = cells'[x] /\ refs[x] = cells[x]
      BY <1>2, Kinds DEF refs, Holder, TypeOK
    <3> QED BY <3>1 DEF AtomicEnd
  <2>3. \A h \in Table : h \notin closed
    BY <1>3, Kinds
  <2>4. \A x \in Function \cup Upval : x \notin weak
    BY <1>2, Kinds DEF TypeOK
  <2>5. /\ \A u \in Upval : uvthread'[u] = IF u \in Orphans THEN Nil ELSE uvthread[u]
        /\ \A u \in Upval : ~markedopen'[u]
    BY DEF AtomicEnd
  <2> HIDE DEF closed, kept, marks
  <2> QED BY <2>1, <2>2, <2>3, <2>4, <2>5
<1> QED BY <1>1, <1>3, <1>4, <1>5, <1>10, <1>11

\* The flip of the whites keeps the invariant.
LEMMA AtomicEndSafe == ASSUME SInv, TypeOK', AtomicEnd PROVE Safe'
<1> USE DEF SInv, Safe
<1> DEFINE kept   == UNION {stringmark(h) : h \in weak}
           closed == {u \in Orphans : ~iswhite(u)}
<1>1. /\ closed \subseteq Open /\ kept \subseteq String
      /\ \A o \in kept : o \in alloc
      /\ \A u \in closed : marked(u)
      /\ \A o \in Obj : col'[o] = IF o \in closed THEN "black"
                                  ELSE IF marked(o) THEN col[o]
                                  ELSE IF o \in kept THEN "gray"
                                  ELSE IF o \in alloc THEN "dead" ELSE "white"
      /\ \A x \in Table \cup Function \cup Upval :
           refs'[x] = IF x \in weak THEN Objects(cleartable(x))
                      ELSE IF x \in closed THEN UpvalValue(x) ELSE refs[x]
      /\ \A u \in Upval : uvthread'[u] = IF u \in Orphans THEN Nil ELSE uvthread[u]
      /\ \A u \in Upval : ~markedopen'[u]
      /\ gcstate = "atomic3" /\ gray = {}
      /\ weak' = {} /\ unswept' = alloc \ {Main} /\ gcstate' = "sweep"
      /\ UNCHANGED <<alloc, gray, grayagain, meta, stacks, uvslot, full, schedule>>
  BY AtomicEndFacts
<1>2. /\ alloc' = alloc /\ meta' = meta /\ stack' = stack /\ top' = top /\ from' = from
      /\ run' = run /\ uvslot' = uvslot /\ full' = full
      /\ ~keepinvariant' /\ full # "swept" /\ TypeOK
  BY <1>1 DEF stacks, schedule, keepinvariant, Phases, IInv
<1>3. /\ \A u \in Orphans : u \in Upval /\ u \in Open /\ ~markedopen[u]
      /\ \A u \in Orphans : marked(u) => u \in closed
      /\ \A u \in closed : u \in Orphans
  <2>1. \A u \in Orphans : u \in Upval /\ u \in Open /\ ~markedopen[u]
    BY DEF Orphans, Open
  <2> QED BY <2>1 DEF iswhite, marked
<1>4. /\ \A h \in Table : marked(h) /\ h \notin weak => \A r \in refs[h] : marked(r)
      /\ \A h \in Table : marked(h) /\ meta[h] # Nil => marked(meta[h])
      /\ \A f \in Function : marked(f) => \A r \in refs[f] : marked(r)
      /\ \A t \in Thread : marked(t) =>
           \A i \in Slot : stack[t][i] # Nil => marked(stack[t][i])
      /\ \A u \in Open : marked(uvthread[u]) => marked(u) /\ markedopen[u]
      /\ \A u \in Upval : marked(u) => \A v \in UpvalValue(u) : marked(v)
      /\ \A t \in Thread : from[t] # Nil => marked(t) /\ marked(from[t])
      /\ marked(Main) /\ marked(Globals) /\ marked(run)
  BY <1>1, MarkedClosed
<1>5. /\ weak \subseteq Table
      /\ \A h \in weak : \A r \in Objects(cleartable(h)) :
           r \in refs[h] /\ ~iscleared(r) /\ (r \in String => r \in kept)
  BY ClearedEntries DEF IInv, TypeOK
<1>6. \A o \in Obj : /\ marked(o) => o \in alloc
                     /\ iswhite(o) <=> ~marked(o)
  BY <1>1, NoDead DEF FreeAddresses, marked
<1>7. /\ \A x \in Table \cup Function \cup Upval : x \in Obj /\ x \notin String /\ refs[x] \subseteq Obj
      /\ \A h \in Table : h \notin Upval /\ h \notin closed /\ (meta[h] # Nil => meta[h] \in Obj)
      /\ \A t \in Thread : t \in Obj /\ t \notin String /\ t \notin closed
                           /\ (from[t] # Nil => from[t] \in Obj)
      /\ \A u \in Open : u \in Obj /\ u \in Upval /\ uvthread[u] \in Obj /\ uvthread[u] \in Thread
      /\ Main \in Obj /\ Globals \in Obj /\ run \in Obj
      /\ \A f \in Function : f \notin weak /\ f \notin closed
      /\ \A u \in Upval : u \notin weak
      /\ \A t \in Thread, i \in Slot : stack[t][i] # Nil => stack[t][i] \in Obj
  <2>1. \A x \in closed : x \in Upval
    BY <1>3
  <2> HIDE DEF closed, kept
  <2> QED BY <1>5, <2>1, Kinds, RefsType DEF IInv, TypeOK, Open, Value, Holder
<1> HIDE DEF kept, closed
<1>8. \A o \in Obj : Alive(o)' <=> marked(o) \/ o \in kept
  BY <1>1, <1>2, <1>6 DEF Alive, isdead, marked
<1>9. FreeAddresses'
  <2>1. \A o \in Obj \ alloc : ~marked(o) /\ o \notin kept /\ o \notin closed /\ o \notin weak
    <3>1. keepinvariant
      BY <1>1 DEF keepinvariant
    <3>2. \A o \in weak : o \in Traversable /\ o \in Obj
      BY <1>5, Kinds DEF Traversable
    <3>3. \A o \in weak : col[o] = "gray"
      BY <3>1, <3>2 DEF Lists
    <3>4. \A o \in weak : marked(o) /\ o \in Obj
      BY <3>2, <3>3 DEF marked
    <3> QED BY <1>1, <1>6, <3>4
  <2>2. \A o \in Obj \ alloc : col'[o] = "white"
    BY <1>1, <2>1
  <2>3. \A o \in Obj \ alloc : o \in Table \cup Function \cup Upval => refs'[o] = {}
    BY <1>1, <2>1 DEF FreeAddresses
  <2> QED BY <1>2, <2>2, <2>3 DEF FreeAddresses
<1>10. Phases'
  <2>1. \A o \in Obj : isdead(o)' => o \in alloc /\ ~marked(o)
    BY <1>1 DEF isdead, marked
  <2>2. \A o \in Obj \ alloc : col'[o] = "white"
    BY <1>2, <1>9 DEF FreeAddresses
  <2> QED BY <1>1, <1>2, <1>4, <2>1, <2>2 DEF Phases
<1>11. Activity'
  <2>1. {t \in Thread : isactive(t)}' = {t \in Thread : isactive(t)}
    BY <1>2 DEF isactive
  <2>2. \A t \in Thread : (isactive(t) \/ t = Main)' => col'[t] # "black"
    BY <1>1, <1>2, <1>7 DEF Activity, isactive
  <2> QED BY <1>2, <2>1, <2>2 DEF Activity
<1>12. Open' = Open \ Orphans
  BY <1>1, <1>2, <1>3 DEF Open
<1>13. LiveRefs'
  <2>1. ASSUME NEW x \in Table \cup Function, Alive(x)', NEW r \in refs'[x]
        PROVE  Alive(r)'
    <3>1. marked(x)
      BY <1>1, <1>7, <1>8, <2>1
    <3>2. CASE x \in weak
      <4>1. r \in refs[x] /\ ~iscleared(r) /\ (r \in String => r \in kept)
        <5>1. refs'[x] = Objects(cleartable(x))
          BY <1>1, <2>1, <3>2
        <5> QED BY <1>5, <2>1, <3>2, <5>1
      <4>2. r \in Obj
        BY <1>7, <2>1, <4>1
      <4>3. marked(r) \/ r \in String
        BY <1>6, <4>1, <4>2, Kinds DEF iscleared
      <4> QED BY <1>8, <4>1, <4>2, <4>3
    <3>3. CASE x \notin weak
      <4>1. r \in refs[x] /\ r \in Obj
        BY <1>1, <1>7, <2>1, <3>3
      <4> QED BY <1>4, <1>8, <3>1, <3>3, <4>1
    <3> QED BY <3>2, <3>3
  <2>2. ASSUME NEW h \in Table, Alive(h)', meta'[h] # Nil
        PROVE  Alive(meta[h])'
    <3>1. marked(meta[h]) /\ meta[h] \in Obj
      BY <1>1, <1>2, <1>4, <1>7, <1>8, <2>2
    <3>2. meta[h] \in alloc /\ col'[meta[h]] # "dead"
      BY <1>1, <1>6, <3>1 DEF marked
    <3> QED BY <1>2, <3>2 DEF Alive, isdead
  <2>3. ASSUME NEW t \in Thread, Alive(t)', NEW j \in Slot, stack'[t][j] # Nil
        PROVE  Alive(stack[t][j])'
    <3>1. marked(stack[t][j]) /\ stack[t][j] \in Obj
      BY <1>1, <1>2, <1>4, <1>7, <1>8, <2>3
    <3>2. stack[t][j] \in alloc /\ col'[stack[t][j]] # "dead"
      BY <1>1, <1>6, <3>1 DEF marked
    <3> QED BY <1>2, <3>2 DEF Alive, isdead
  <2>4. ASSUME NEW t \in Thread, from'[t] # Nil
        PROVE  Alive(t)' /\ Alive(from[t])'
    <3>1. marked(t) /\ marked(from[t]) /\ t \in Obj /\ from[t] \in Obj
      BY <1>2, <1>4, <1>7, <2>4
    <3>2. t \in alloc /\ col'[t] # "dead" /\ from[t] \in alloc /\ col'[from[t]] # "dead"
      BY <1>1, <1>6, <3>1 DEF marked
    <3> QED BY <1>2, <3>2 DEF Alive, isdead
  <2>5. ASSUME NEW u \in Open'
        PROVE  Alive(u)' /\ Alive(uvthread[u])'
    <3>1. u \in Open /\ u \notin Orphans
      BY <1>12
    <3>2. markedopen[u] /\ uvthread'[u] = uvthread[u]
      BY <1>1, <1>7, <3>1 DEF Orphans
    <3>3. marked(u) /\ marked(uvthread[u]) /\ u \in Obj /\ uvthread[u] \in Obj
      BY <1>1, <1>7, <3>1, <3>2 DEF MarkedOpen, keepinvariant
    <3>4. u \in alloc /\ col'[u] # "dead" /\ uvthread[u] \in alloc /\ col'[uvthread[u]] # "dead"
      BY <1>1, <1>6, <3>3 DEF marked
    <3> QED BY <1>2, <3>2, <3>4 DEF Alive, isdead
  <2>6. ASSUME NEW u \in Upval, Alive(u)', uvthread'[u] = Nil, NEW r \in refs'[u]
        PROVE  Alive(r)'
    <3>1. marked(u) /\ u \notin weak
      BY <1>1, <1>7, <1>8, <2>6
    <3>2. r \in UpvalValue(u)
      <4>1. CASE u \in Orphans
        BY <1>1, <1>3, <2>6, <3>1, <4>1
      <4>2. CASE u \notin Orphans
        <5>1. uvthread[u] = Nil /\ u \notin closed
          BY <1>1, <1>3, <2>6, <4>2
        <5> QED BY <1>1, <2>6, <3>1, <5>1 DEF UpvalValue
      <4> QED BY <4>1, <4>2
    <3>3. r \in Obj
      BY <1>2, <3>2, UpvalValueType
    <3> QED BY <1>4, <1>8, <3>1, <3>2, <3>3
  <2>7. Alive(Main)' /\ Alive(Globals)' /\ Alive(run)'
    <3>1. Main \in alloc /\ col'[Main] # "dead" /\ Globals \in alloc /\ col'[Globals] # "dead"
          /\ run \in alloc /\ col'[run] # "dead"
      BY <1>1, <1>4, <1>6, <1>7 DEF marked
    <3> QED BY <1>2, <3>1 DEF Alive, isdead
  <2> QED BY <2>1, <2>2, <2>3, <2>4, <2>5, <2>6, <2>7 DEF LiveRefs
<1>14. UpvalLinks'
  <2>1. \A u \in Open' : col'[u] # "black" /\ uvslot'[u] <= top'[uvthread'[u]]
    BY <1>1, <1>2, <1>3, <1>7, <1>12 DEF UpvalLinks
  <2>2. \A u, w \in Open' : uvthread'[u] = uvthread'[w] /\ uvslot'[u] = uvslot'[w] => u = w
    BY <1>1, <1>2, <1>7, <1>12 DEF UpvalLinks
  <2>3. ASSUME NEW u \in Upval, col'[u] = "gray"
        PROVE  uvthread'[u] # Nil
    <3>1. u \in Obj /\ u \notin String
      BY Kinds
    <3>2. col[u] = "gray" /\ u \notin closed
      BY <1>1, <2>3, <3>1
    <3>3. uvthread[u] # Nil /\ marked(u)
      BY <3>2 DEF UpvalLinks, marked
    <3> QED BY <1>1, <1>3, <3>2, <3>3
  <2> QED BY <2>1, <2>2, <2>3 DEF UpvalLinks
<1>15. TriColour' /\ Lists'
  BY <1>2 DEF TriColour, Lists
<1>16. MarkedOpen'
  BY <1>1, <1>2, <1>7, <1>12 DEF MarkedOpen
<1>17. Atomic'
  BY <1>1 DEF Atomic, InAtomic
<1> QED
  BY <1>9, <1>10, <1>11, <1>13, <1>14, <1>15, <1>16, <1>17

(***************************************************************************)
(* The sweep.                                                              *)
(***************************************************************************)
\* What is freed refers to nothing.
LEMMA RefsFree ==
  ASSUME TypeOK, NEW D, Free(D)
  PROVE  \A x \in Table \cup Function \cup Upval : refs'[x] = IF x \in D THEN {} ELSE refs[x]
<1>1. ASSUME NEW x \in Table
      PROVE  refs'[x] = IF x \in D THEN {} ELSE refs[x]
  <2>1. /\ refs'[x] = Objects(node'[x]) /\ refs[x] = Objects(node[x])
        /\ node'[x] = IF x \in D THEN {} ELSE node[x]
    BY DEF Free, refs, Holder, Objects
  <2>2. Objects({}) = {}
    BY DEF Objects
  <2> QED BY <2>1, <2>2
<1>2. ASSUME NEW x \in Function \cup Upval
      PROVE  refs'[x] = IF x \in D THEN {} ELSE refs[x]
  <2>1. x \in DOMAIN cells /\ refs'[x] = cells'[x] /\ refs[x] = cells[x]
    BY Kinds DEF refs, Holder, TypeOK
  <2> QED BY <2>1 DEF Free
<1> QED BY <1>1, <1>2

\* Dead objects D are freed, and others become white: nobody alive notices.
LEMMA FreeSafe ==
  ASSUME SInv, TypeOK', NEW D, Free(D), \A x \in D : isdead(x), UNCHANGED <<upvals, schedule>>,
         \A x \in Obj : \/ col'[x] = col[x] /\ x \notin D
                        \/ col'[x] = "white" /\ (isdead(x) => x \in D)
  PROVE  /\ FreeAddresses' /\ LiveRefs' /\ UpvalLinks' /\ Activity'
         /\ Open' = Open /\ \A x \in Obj : Alive(x)' <=> Alive(x)
<1> USE DEF SInv, Safe
<1>1. /\ uvthread' = uvthread /\ uvslot' = uvslot /\ markedopen' = markedopen
      /\ from' = from /\ run' = run /\ alloc' = alloc \ D
  BY DEF upvals, schedule, Free
<1>2. /\ \A x \in Table \cup Function \cup Upval : refs'[x] = IF x \in D THEN {} ELSE refs[x]
      /\ \A x \in Table : meta'[x] = IF x \in D THEN Nil ELSE meta[x]
      /\ \A t \in Thread, i \in Slot : stack'[t][i] = IF t \in D THEN Nil ELSE stack[t][i]
      /\ \A t \in Thread : top'[t] = IF t \in D THEN 0 ELSE top[t]
  BY RefsFree DEF Free, IInv
<1>3. \A x \in Obj : Alive(x)' <=> Alive(x)
  BY <1>1 DEF Alive, isdead
<1>4. \A x \in Obj : Alive(x) => x \notin D
  BY DEF Alive
<1>5. /\ \A x \in Table \cup Function \cup Upval : x \in Obj /\ refs[x] \subseteq Obj
      /\ \A h \in Table : meta[h] # Nil => meta[h] \in Obj
      /\ \A t \in Thread : t \in Obj /\ (from[t] # Nil => from[t] \in Obj)
      /\ \A u \in Open : u \in Obj /\ u \in Upval /\ uvthread[u] \in Obj /\ uvthread[u] \in Thread
      /\ Main \in Obj /\ Globals \in Obj /\ run \in Obj
      /\ \A t \in Thread, i \in Slot : stack[t][i] # Nil => stack[t][i] \in Obj
  BY Kinds, RefsType DEF IInv, TypeOK, Open, Value, Holder
<1>6. Open' = Open
  <2>1. \A u \in Open : u \notin D
    BY <1>4, <1>5 DEF LiveRefs
  <2> QED BY <1>1, <2>1 DEF Open
<1>7. \A x \in Obj : Alive(x) => x \in alloc' /\ col'[x] # "dead"
  BY <1>3 DEF Alive, isdead
<1>8. FreeAddresses'
  <2>1. \A x \in Obj \ alloc' : x \notin alloc \/ x \in D
    BY <1>1
  <2>2. \A x \in Obj \ alloc' : col'[x] = "white"
    BY <2>1 DEF FreeAddresses
  <2>3. \A x \in Obj \ alloc' : /\ x \in Table \cup Function \cup Upval => refs'[x] = {}
                                /\ x \in Table => meta'[x] = Nil
                                /\ x \in Thread => \A i \in Slot : stack'[x][i] = Nil
    BY <1>2, <2>1 DEF FreeAddresses
  <2> QED BY <2>2, <2>3 DEF FreeAddresses
<1>9. LiveRefs'
  <2>1. \A x \in Table \cup Function : Alive(x)' => \A r \in refs'[x] : Alive(r)'
    BY <1>2, <1>3, <1>4, <1>5 DEF LiveRefs
  <2>2. ASSUME NEW h \in Table, Alive(h)', meta'[h] # Nil
        PROVE  Alive(meta[h])'
    <3>1. Alive(h) /\ h \notin D /\ meta'[h] = meta[h]
      BY <1>2, <1>3, <1>4, <2>2, Kinds
    <3>2. Alive(meta[h]) /\ meta[h] \in Obj
      BY <1>5, <2>2, <3>1 DEF LiveRefs
    <3> QED BY <1>7, <3>1, <3>2 DEF Alive, isdead
  <2>3. ASSUME NEW t \in Thread, Alive(t)', NEW j \in Slot, stack'[t][j] # Nil
        PROVE  Alive(stack[t][j])'
    <3>1. Alive(t) /\ t \notin D /\ stack'[t][j] = stack[t][j]
      BY <1>2, <1>3, <1>4, <1>5, <2>3
    <3>2. Alive(stack[t][j]) /\ stack[t][j] \in Obj
      BY <1>5, <2>3, <3>1 DEF LiveRefs
    <3> QED BY <1>7, <3>1, <3>2 DEF Alive, isdead
  <2>4. \A t \in Thread : from'[t] # Nil => Alive(t)' /\ Alive(from[t])'
    <3>1. \A t \in Thread : from[t] # Nil =>
            Alive(t) /\ Alive(from[t]) /\ t \in Obj /\ from[t] \in Obj
      BY <1>5 DEF LiveRefs
    <3> QED BY <1>1, <1>7, <3>1 DEF Alive, isdead
  <2>5. \A u \in Open' : Alive(u)' /\ Alive(uvthread[u])'
    <3>1. \A u \in Open : Alive(u) /\ Alive(uvthread[u]) /\ u \in Obj /\ uvthread[u] \in Obj
      BY <1>5 DEF LiveRefs
    <3> QED BY <1>1, <1>6, <1>7, <3>1 DEF Alive, isdead
  <2>6. \A u \in Upval : Alive(u)' /\ uvthread'[u] = Nil => \A r \in refs'[u] : Alive(r)'
    BY <1>1, <1>2, <1>3, <1>4, <1>5 DEF LiveRefs
  <2>7. Alive(Main)' /\ Alive(Globals)' /\ Alive(run)'
    <3>1. Alive(Main) /\ Alive(Globals) /\ Alive(run)
      BY DEF LiveRefs
    <3> QED BY <1>1, <1>5, <1>7, <3>1 DEF Alive, isdead
  <2> QED BY <2>1, <2>2, <2>3, <2>4, <2>5, <2>6, <2>7 DEF LiveRefs
<1>10. UpvalLinks'
  <2>1. \A u \in Open : uvthread[u] \notin D
    BY <1>4, <1>5 DEF LiveRefs
  <2>2. \A u \in Open' : col'[u] # "black" /\ uvslot'[u] <= top'[uvthread'[u]]
    BY <1>1, <1>2, <1>5, <1>6, <2>1 DEF UpvalLinks
  <2>3. \A u, w \in Open' : uvthread'[u] = uvthread'[w] /\ uvslot'[u] = uvslot'[w] => u = w
    BY <1>1, <1>6 DEF UpvalLinks
  <2>4. \A u \in Upval : col'[u] = "gray" => uvthread'[u] # Nil
    BY <1>1, Kinds DEF UpvalLinks
  <2> QED BY <2>2, <2>3, <2>4 DEF UpvalLinks
<1>11. Activity'
  <2>1. {t \in Thread : isactive(t)}' = {t \in Thread : isactive(t)}
    BY <1>1 DEF isactive
  <2>2. \A t \in Thread : (isactive(t) \/ t = Main)' => col'[t] # "black"
    BY <1>1, <1>5 DEF Activity, isactive
  <2> QED BY <1>1, <2>1, <2>2 DEF Activity
<1> QED BY <1>3, <1>6, <1>8, <1>9, <1>10, <1>11

\* sweepgcopage
LEMMA SweepSafe == ASSUME SInv, TypeOK', NEW o \in Obj, sweepgcopage(o) PROVE Safe'
<1> USE DEF SInv, Safe
<1> DEFINE D == {x \in {o} : isdead(x)}
<1>1. /\ gcstate = "sweep" /\ gcstate' = "sweep" /\ o \in unswept /\ unswept' = unswept \ {o}
      /\ Free(D) /\ UNCHANGED <<upvals, schedule>> /\ full' = full /\ markedopen' = markedopen
  BY DEF sweepgcopage, upvals
<1>2. \A x \in Obj : col'[x] = IF x = o THEN "white" ELSE col[x]
  BY DEF sweepgcopage, IInv, TypeOK
<1>3. (\A x \in D : isdead(x)) /\ alloc' = alloc \ D
  BY <1>1 DEF Free
<1>4. \A x \in Obj : \/ col'[x] = col[x] /\ x \notin D
                     \/ col'[x] = "white" /\ (isdead(x) => x \in D)
  BY <1>2
<1>5. /\ FreeAddresses' /\ LiveRefs' /\ UpvalLinks' /\ Activity' /\ Open' = Open
  BY <1>1, <1>3, <1>4, FreeSafe
<1>6. Phases'
  <2>1. \A x \in Obj : isdead(x)' => x \in unswept'
    BY <1>1, <1>2 DEF Phases, isdead
  <2>2. unswept' \subseteq alloc' \ {Main}
    BY <1>1, <1>3 DEF Phases
  <2>3. \A x \in Obj \ (unswept' \cup {Main}) : col'[x] = "white"
    BY <1>1, <1>2 DEF Phases
  <2> QED BY <1>1, <2>1, <2>2, <2>3 DEF Phases
<1>7. ~keepinvariant' /\ ~keepinvariant
  BY <1>1 DEF keepinvariant
<1>8. MarkedOpen'
  BY <1>1, <1>5, <1>7 DEF MarkedOpen
<1>9. TriColour' /\ Lists' /\ Atomic'
  BY <1>1, <1>7 DEF TriColour, Lists, Atomic, InAtomic
<1> QED BY <1>5, <1>6, <1>8, <1>9

\* The sweep ends, and with it the cycle.
LEMMA SweepDoneSafe == ASSUME SInv, TypeOK', SweepDone PROVE Safe'
<1> USE DEF SInv, Safe
<1>1. /\ gcstate = "sweep" /\ gcstate' = "pause" /\ unswept = {} /\ unswept' = {} /\ full' = full
      /\ alloc' = alloc /\ refs' = refs /\ meta' = meta /\ stack' = stack /\ top' = top
      /\ uvthread' = uvthread /\ uvslot' = uvslot /\ markedopen' = markedopen
      /\ from' = from /\ run' = run
  BY RefsUnchanged DEF SweepDone, heap, stacks, upvals, schedule
<1>2. \A x \in Obj : col'[x] = "white"
  BY <1>1 DEF SweepDone, Phases, IInv, TypeOK
<1>3. \A x \in Obj : ~isdead(x) /\ ~isdead(x)'
  BY <1>1, <1>2 DEF Phases, isdead
<1>4. Open' = Open /\ \A x \in Obj : Alive(x)' <=> Alive(x)
  BY <1>1, <1>3 DEF Open, Alive
<1>5. /\ \A x \in Table \cup Function \cup Upval \cup Thread : x \in Obj
      /\ \A x \in Table \cup Function \cup Upval : refs[x] \subseteq Obj
      /\ \A h \in Table : meta[h] # Nil => meta[h] \in Obj
      /\ \A t \in Thread : from[t] # Nil => from[t] \in Obj
      /\ \A u \in Open : u \in Obj /\ uvthread[u] \in Obj
      /\ Main \in Obj /\ Globals \in Obj /\ run \in Obj
      /\ \A t \in Thread, i \in Slot : stack[t][i] # Nil => stack[t][i] \in Obj
  BY Kinds, RefsType DEF IInv, TypeOK, Open, Value, Holder
<1>6. \A x \in Obj : x \in alloc => Alive(x) /\ col'[x] # "dead"
  BY <1>2, <1>3 DEF Alive
<1>7. FreeAddresses'
  BY <1>1, <1>2 DEF FreeAddresses
<1>8. Phases'
  BY <1>1, <1>2, <1>3 DEF Phases
<1>9. Activity'
  <2>1. {t \in Thread : isactive(t)}' = {t \in Thread : isactive(t)}
    BY <1>1 DEF isactive
  <2>2. \A t \in Thread : (isactive(t) \/ t = Main)' => col'[t] # "black"
    BY <1>2, <1>5
  <2> QED BY <1>1, <2>1, <2>2 DEF Activity
<1>10. LiveRefs'
  <2>1. \A x \in Table \cup Function : Alive(x)' => \A r \in refs'[x] : Alive(r)'
    BY <1>1, <1>4, <1>5 DEF LiveRefs
  <2>2. \A h \in Table : Alive(h)' /\ meta'[h] # Nil => Alive(meta[h])'
    BY <1>1, <1>2, <1>4, <1>5 DEF LiveRefs, Alive, isdead
  <2>3. \A t \in Thread : Alive(t)' => \A j \in Slot : stack'[t][j] # Nil => Alive(stack[t][j])'
    BY <1>1, <1>2, <1>4, <1>5 DEF LiveRefs, Alive, isdead
  <2>4. \A t \in Thread : from'[t] # Nil => Alive(t)' /\ Alive(from[t])'
    BY <1>1, <1>2, <1>4, <1>5 DEF LiveRefs, Alive, isdead
  <2>5. \A u \in Open' : Alive(u)' /\ Alive(uvthread[u])'
    BY <1>1, <1>2, <1>4, <1>5 DEF LiveRefs, Alive, isdead
  <2>6. \A u \in Upval : Alive(u)' /\ uvthread'[u] = Nil => \A r \in refs'[u] : Alive(r)'
    BY <1>1, <1>4, <1>5 DEF LiveRefs
  <2>7. Alive(Main)' /\ Alive(Globals)' /\ Alive(run)'
    BY <1>1, <1>2, <1>5 DEF LiveRefs, Alive, isdead
  <2> QED BY <2>1, <2>2, <2>3, <2>4, <2>5, <2>6, <2>7 DEF LiveRefs
<1>11. UpvalLinks'
  BY <1>1, <1>2, <1>4, <1>5 DEF UpvalLinks
<1>12. ~keepinvariant' /\ ~keepinvariant
  BY <1>1 DEF keepinvariant
<1>13. MarkedOpen'
  BY <1>1, <1>4, <1>12 DEF MarkedOpen
<1>14. TriColour' /\ Lists' /\ Atomic'
  BY <1>1, <1>12 DEF TriColour, Lists, Atomic, InAtomic
<1> QED BY <1>7, <1>8, <1>9, <1>10, <1>11, <1>13, <1>14

\* lua_c_fullgc abandons a cycle: whatever it had marked is white again.
LEMMA FullBeginSafe == ASSUME SInv, TypeOK', FullBegin PROVE Safe'
<1> USE DEF SInv, Safe
<1>1. PICK E \in SUBSET Obj : FullSweep(E) /\ E = IF keepinvariant THEN alloc \ {Main} ELSE unswept
  BY DEF FullBegin, IInv, TypeOK
<1> DEFINE D == {x \in E : isdead(x)}
<1>2. /\ Free(D) /\ UNCHANGED <<upvals, schedule>> /\ unswept' = {} /\ gcstate' = "pause"
      /\ full' = "swept"
  BY <1>1 DEF FullSweep
<1>3. \A x \in Obj : col'[x] = IF x \in E \cup {Main} THEN "white" ELSE col[x]
  BY <1>1 DEF FullSweep
<1>4. \A x \in Obj : isdead(x) => x \in D
  <2>1. CASE keepinvariant
    BY <2>1, NoDead DEF keepinvariant
  <2>2. CASE ~keepinvariant
    BY <1>1, <2>2 DEF Phases
  <2> QED BY <2>1, <2>2
<1>5. \A x \in Obj : col'[x] = "white"
  <2>1. CASE keepinvariant
    BY <1>1, <1>3, <2>1 DEF FreeAddresses
  <2>2. CASE gcstate = "sweep"
    BY <1>1, <1>3, <2>2 DEF Phases, keepinvariant
  <2>3. CASE gcstate = "pause"
    BY <1>3, <2>3 DEF Phases
  <2>4. keepinvariant \/ gcstate = "sweep" \/ gcstate = "pause"
    BY DEF IInv, TypeOK, GCStates, keepinvariant
  <2> QED BY <2>1, <2>2, <2>3, <2>4
<1>6. /\ \A x \in D : isdead(x)
      /\ \A x \in Obj : \/ col'[x] = col[x] /\ x \notin D
                        \/ col'[x] = "white" /\ (isdead(x) => x \in D)
  BY <1>4, <1>5
<1>7. FreeAddresses' /\ LiveRefs' /\ UpvalLinks' /\ Activity'
  <2> HIDE DEF D
  <2> QED BY <1>2, <1>6, FreeSafe
<1>8. Phases'
  BY <1>2, <1>5 DEF Phases, isdead
<1>9. TriColour' /\ Lists' /\ Atomic' /\ MarkedOpen'
  BY <1>2 DEF TriColour, Lists, Atomic, InAtomic, MarkedOpen, keepinvariant
<1> QED BY <1>7, <1>8, <1>9

(***************************************************************************)
(* The invariant.                                                          *)
(***************************************************************************)
\* A step that changes nothing but the progress of lua_c_fullgc.
LEMMA SameSafe ==
  ASSUME SInv, UNCHANGED <<alloc, col, lists, heap, stacks, upvals, gcstate, unswept, schedule>>,
         full' = full \/ (full # "swept" /\ full' # "swept")
  PROVE  Safe'
<1> USE DEF SInv, Safe
<1>1. /\ alloc' = alloc /\ col' = col /\ gray' = gray /\ grayagain' = grayagain /\ weak' = weak
      /\ refs' = refs /\ meta' = meta /\ stack' = stack /\ top' = top /\ uvthread' = uvthread
      /\ uvslot' = uvslot /\ markedopen' = markedopen /\ gcstate' = gcstate /\ unswept' = unswept
      /\ from' = from /\ run' = run
  BY RefsUnchanged DEF lists, heap, stacks, upvals, schedule
<1>2. FreeAddresses' /\ Phases'
  BY <1>1 DEF FreeAddresses, Phases, isdead
<1>3. Activity'
  <2>1. {t \in Thread : isactive(t)}' = {t \in Thread : isactive(t)}
    BY <1>1 DEF isactive
  <2>2. \A t \in Thread : (isactive(t) \/ t = Main)' => col'[t] # "black"
    BY <1>1 DEF Activity, isactive
  <2> QED BY <1>1, <2>1, <2>2 DEF Activity
<1>4. Open' = Open /\ keepinvariant' = keepinvariant /\ InAtomic' = InAtomic
  BY <1>1 DEF Open, keepinvariant, InAtomic
<1>5. LiveRefs'
  BY <1>1, <1>4 DEF LiveRefs, Alive, isdead
<1>6. UpvalLinks' /\ Lists'
  BY <1>1, <1>4 DEF UpvalLinks, Lists
<1>7. TriColour' /\ MarkedOpen'
  BY <1>1, <1>4 DEF TriColour, MarkedOpen, marked
<1>8. Atomic'
  <2>1. /\ \A u : UpvalValue(u)' = UpvalValue(u)
        /\ \A t : OpenUpvals(t)' = OpenUpvals(t) /\ traversestack(t)' = traversestack(t)
    BY <1>1 DEF UpvalValue, OpenUpvals, traversestack, LiveSlots, Resumed
  <2> QED BY <1>1, <1>4, <2>1 DEF Atomic, marked, isweak
<1> QED BY <1>2, <1>3, <1>5, <1>6, <1>7, <1>8

\* Every step of the collector keeps the invariant.
LEMMA CollectorSafe == ASSUME SInv, gcstep \/ FullBegin PROVE Safe'
<1>1. TypeOK'
  BY CollectorType DEF SInv
<1>2. CASE FullEnd
  <2>1. /\ UNCHANGED <<alloc, col, lists, heap, stacks, upvals, gcstate, unswept, schedule>>
        /\ full # "swept" /\ full' # "swept"
    BY <1>2 DEF FullEnd
  <2> QED BY <2>1, SameSafe
<1> QED
  BY <1>1, <1>2, MarkrootSafe, PropagateSafe, PropagateDoneSafe, RemarkSafe, AtomicWeakSafe,
     AtomicGrayAgainSafe, AtomicEndSafe, SweepSafe, SweepDoneSafe, FullMarkSafe, FullBeginSafe
  DEF gcstep

\* A new VM.
LEMMA InitSafe == Init => SInv
<1> SUFFICES ASSUME Init PROVE SInv
  OBVIOUS
<1>1. IInv
  BY InitIInv
<1>2. /\ alloc = {Main, Globals} /\ \A o \in Obj : col[o] = "white"
      /\ \A x \in Table \cup Function \cup Upval : refs[x] = {}
      /\ \A h \in Table : meta[h] = Nil
      /\ \A t \in Thread, i \in Slot : stack[t][i] = Nil
      /\ \A t \in Thread : from[t] = Nil
      /\ \A u \in Upval : uvthread[u] = Nil /\ ~markedopen[u]
      /\ gcstate = "pause" /\ full = "no" /\ unswept = {} /\ run = Main
  <2>1. \A h \in Table : refs[h] = Objects(node[h]) /\ node[h] = {}
    BY DEF Init, refs, Holder
  <2>2. Objects({}) = {}
    BY DEF Objects
  <2>3. \A x \in Function \cup Upval : refs[x] = {}
    BY Kinds DEF Init, refs, Holder
  <2> QED BY <2>1, <2>2, <2>3 DEF Init
<1>3. Open = {} /\ ~keepinvariant /\ ~InAtomic
  BY <1>2 DEF Open, keepinvariant, InAtomic
<1>4. Main \in Obj /\ Globals \in Obj /\ \A t \in Thread : t \in Obj
  BY Kinds
<1>5. FreeAddresses /\ Phases
  BY <1>2 DEF FreeAddresses, Phases, isdead
<1>6. Activity
  BY <1>2, <1>4 DEF Activity, isactive
<1>7. LiveRefs
  BY <1>2, <1>3, <1>4 DEF LiveRefs, Alive, isdead
<1>8. UpvalLinks
  BY <1>2, <1>3, Kinds DEF UpvalLinks
<1>9. TriColour /\ Lists /\ MarkedOpen /\ Atomic
  BY <1>2, <1>3 DEF TriColour, Lists, MarkedOpen, Atomic
<1> QED BY <1>1, <1>5, <1>6, <1>7, <1>8, <1>9 DEF SInv, Safe

\* SInv is inductive.
LEMMA NextSafe == SInv /\ [Next]_vars => SInv'
<1> SUFFICES ASSUME SInv, [Next]_vars PROVE SInv'
  OBVIOUS
<1>1. IInv'
  BY NextIInv DEF SInv
<1>2. CASE UNCHANGED vars
  <2>1. /\ UNCHANGED <<alloc, col, lists, heap, stacks, upvals, gcstate, unswept, schedule>>
        /\ full' = full
    BY <1>2 DEF vars, control
  <2> QED BY <1>1, <2>1, SameSafe DEF SInv
<1> QED BY <1>1, <1>2, ProgramSafe, CollectorSafe DEF Next, SInv

\* The invariant holds in every state.
THEOREM SafeCorrect == Spec => []SInv
BY InitSafe, NextSafe, PTL DEF Spec

(***************************************************************************)
(* What it says of the states.                                             *)
(***************************************************************************)
\* lua_c_validate: nothing alive refers to an object that is dead or freed,
\* in any state, whatever the program did between the collector's steps.
THEOREM NoDanglingCorrect == Spec => []NoDanglingReference
<1>1. SInv => NoDanglingReference
  <2> SUFFICES ASSUME SInv PROVE NoDanglingReference
    OBVIOUS
  <2> USE DEF SInv, Safe
  <2>1. ASSUME NEW o \in Obj, Alive(o), NEW r \in Held(o)
        PROVE  Alive(r)
    <3>1. CASE o \in Table
      <4>1. r \in refs[o] \/ (r = meta[o] /\ r # Nil)
        BY <2>1, <3>1 DEF Held
      <4> QED BY <2>1, <3>1, <4>1 DEF LiveRefs
    <3>2. CASE o \in Thread
      <4>1. o \notin Table /\ o # Nil
        BY <3>2, Kinds
      <4>2. r \in ({stack[o][i] : i \in Slot} \ {Nil}) \cup Resumed(o) \cup OpenUpvals(o)
        BY <2>1, <3>2, <4>1 DEF Held
      <4>3. CASE r \in Resumed(o)
        BY <4>1, <4>3 DEF Resumed, LiveRefs
      <4>4. CASE r \in OpenUpvals(o)
        BY <4>1, <4>4 DEF OpenUpvals, Open, LiveRefs
      <4>5. ASSUME NEW i \in Slot, r = stack[o][i], r # Nil
            PROVE  Alive(r)
        BY <2>1, <3>2, <4>5 DEF LiveRefs
      <4> QED BY <4>2, <4>3, <4>4, <4>5
    <3>3. CASE o \in Upval
      <4>1. o \notin Table /\ o \notin Thread
        BY <3>3, Kinds
      <4>2. CASE uvthread[o] # Nil
        <5>1. r = uvthread[o]
          BY <2>1, <3>3, <4>1, <4>2 DEF Held
        <5>2. o \in Open
          BY <2>1, <3>3, <4>2 DEF Open, Alive
        <5> QED BY <5>1, <5>2 DEF LiveRefs
      <4>3. CASE uvthread[o] = Nil
        <5>1. r \in refs[o]
          BY <2>1, <3>3, <4>1, <4>3 DEF Held
        <5> QED BY <2>1, <3>3, <4>3, <5>1 DEF LiveRefs
      <4> QED BY <4>2, <4>3
    <3>4. CASE o \in Function
      <4>1. r \in refs[o]
        BY <2>1, <3>4, Kinds DEF Held
      <4> QED BY <2>1, <3>4, <4>1 DEF LiveRefs
    <3> QED BY <2>1, <3>1, <3>2, <3>3, <3>4 DEF Held
  <2>2. Alive(Main) /\ Alive(Globals) /\ Alive(run)
        /\ \A t \in Thread : isactive(t) => Alive(t) /\ Alive(from[t])
    BY DEF LiveRefs, isactive
  <2> QED BY <2>1, <2>2 DEF NoDanglingReference
<1> QED BY <1>1, SafeCorrect, PTL

\* validateobjref: the barriers of every write keep black objects from
\* referring to white ones, for any interleaving of writes and marking.
THEOREM TriColourCorrect == Spec => []BlackNeverToWhite
<1>1. SInv => BlackNeverToWhite
  <2> SUFFICES ASSUME SInv, keepinvariant, NEW o \in alloc, col[o] = "black", NEW r \in Strong(o)
               PROVE  ~iswhite(r)
    BY DEF BlackNeverToWhite
  <2> USE DEF SInv, Safe
  <2>1. SUFFICES marked(r)
    BY DEF marked, iswhite
  <2>2. o \in Obj
    BY DEF IInv, TypeOK
  <2>3. CASE o \in Thread
    <3>1. CASE r \in OpenUpvals(o)
      BY <2>3, <3>1, Kinds DEF OpenUpvals, Open, TriColour
    <3>2. CASE r \notin OpenUpvals(o)
      <4>1. PICK i \in 1..top[o] : /\ \A u \in OpenUpvals(o) : uvslot[u] # i
                                   /\ r = stack[o][i] /\ r # Nil
        BY <2>3, <3>2 DEF Strong
      <4>2. i \in Slot
        BY <2>3, BoundsAssumption DEF IInv, TypeOK, Slot
      <4>3. ~ \E u \in Open : uvthread[u] = o /\ uvslot[u] = i
        BY <4>1 DEF Open, OpenUpvals
      <4> QED BY <2>3, <4>1, <4>2, <4>3 DEF TriColour
    <3> QED BY <3>1, <3>2
  <2>4. CASE o \in Table
    <3>1. r \in refs[o] \/ (r = meta[o] /\ r # Nil)
      BY <2>4, Kinds DEF Strong, Held
    <3> QED BY <2>4, <3>1 DEF TriColour
  <2>5. CASE o \in Upval
    <3>1. uvthread[o] = Nil
      BY <2>5 DEF UpvalLinks, Open
    <3>2. r \in refs[o]
      BY <2>5, <3>1, Kinds DEF Strong, Held
    <3> QED BY <2>5, <3>2 DEF TriColour
  <2>6. CASE o \in Function
    <3>1. r \in refs[o]
      BY <2>6, Kinds DEF Strong, Held
    <3> QED BY <2>6, <3>1 DEF TriColour
  <2>7. CASE o \in String
    BY <2>7, Kinds DEF Strong, Held
  <2> QED BY <2>2, <2>3, <2>4, <2>5, <2>6, <2>7 DEF Obj
<1> QED BY <1>1, SafeCorrect, PTL

\* validategraylist: while the collector marks, a gray object waits on exactly
\* one list, and what is on a list is gray.
THEOREM GrayListsCorrect == Spec => []GrayLists
<1>1. SInv => GrayLists
  <2> SUFFICES ASSUME SInv, keepinvariant
               PROVE  /\ gray \cup grayagain \cup weak
                           = {o \in alloc \ (Upval \cup String) : col[o] = "gray"}
                      /\ gray \cap grayagain = {}
                      /\ (gray \cup grayagain) \cap weak = {}
    BY DEF GrayLists
  <2> USE DEF SInv, Safe
  <2>1. \A o : o \in Traversable <=> o \in Obj \ (Upval \cup String)
    BY Kinds DEF Traversable, Obj
  <2>2. gray \cup grayagain \cup weak \subseteq Traversable /\ alloc \subseteq Obj
    BY DEF IInv, TypeOK, Traversable
  <2>3. \A o \in Obj : col[o] = "gray" => o \in alloc
    BY DEF FreeAddresses
  <2>4. \A o \in Traversable : col[o] = "gray" <=> o \in gray \cup grayagain \cup weak
    BY DEF Lists
  <2>5. gray \cup grayagain \cup weak = {o \in alloc \ (Upval \cup String) : col[o] = "gray"}
    BY <2>1, <2>2, <2>3, <2>4
  <2> QED BY <2>5 DEF Lists
<1> QED BY <1>1, SafeCorrect, PTL

\* luaF_findupval, luaF_close and clearupvals agree on the open upvalues: one
\* for a slot, of a live thread, below its top, never black.
THEOREM OpenUpvaluesCorrect == Spec => []OpenUpvalues
<1>1. SInv => OpenUpvalues
  <2> SUFFICES ASSUME SInv, NEW u \in Open
               PROVE  /\ col[u] # "black"
                      /\ Alive(uvthread[u])
                      /\ uvslot[u] <= top[uvthread[u]]
                      /\ \A w \in OpenUpvals(uvthread[u]) : uvslot[w] = uvslot[u] => w = u
    BY DEF OpenUpvalues
  <2>1. \A w \in OpenUpvals(uvthread[u]) : w \in Open /\ uvthread[w] = uvthread[u]
    BY DEF Open, OpenUpvals
  <2> QED BY <2>1 DEF SInv, Safe, LiveRefs, UpvalLinks
<1> QED BY <1>1, SafeCorrect, PTL

(***************************************************************************)
(* What it says of the steps.  A set that contains the roots and is closed *)
(* under the references that keep an object contains what is reachable.    *)
(***************************************************************************)
\* Reachable is the least closed set.
LEMMA ReachableIn ==
  ASSUME NEW S \in SUBSET Obj, {Main, Globals, run} \subseteq S,
         \A o \in S : Keeps(o) \subseteq S
  PROVE  Reachable \subseteq S
BY DEF Reachable, ReachableBy

\* What can be reached is alive.
LEMMA ReachableAlive == ASSUME SInv PROVE \A o \in Reachable : Alive(o) /\ o \in Obj
<1> DEFINE S == {o \in Obj : Alive(o)}
<1>1. {Main, Globals, run} \subseteq S
  BY Kinds DEF SInv, IInv, TypeOK, Safe, LiveRefs
<1>2. ASSUME NEW o \in S, NEW r \in Keeps(o)
      PROVE  r \in S
  <2>1. TypeOK /\ o \in Obj /\ Alive(o)
    BY DEF SInv, IInv
  <2>2. CASE o \in Traversable
    <3>1. r \in Children(o) \/ (o \in Table /\ r \in refs[o])
      BY <1>2, <2>2, Kinds DEF Keeps, Children, Traversable
    <3>2. r \in Obj
      BY <2>1, <2>2, <3>1, ChildrenType, RefsType DEF Holder
    <3> QED BY <2>1, <2>2, <3>1, <3>2, ChildrenAlive DEF SInv, Safe, LiveRefs
  <2>3. CASE o \in Upval
    <3>1. r \in UpvalValue(o)
      BY <1>2, <2>3, Kinds DEF Keeps
    <3> QED BY <2>1, <2>3, <3>1, UpvalAlive, UpvalValueType
  <2>4. CASE o \in String
    BY <1>2, <2>4, Kinds DEF Keeps
  <2> QED BY <2>1, <2>2, <2>3, <2>4 DEF Obj, Traversable
<1>3. S \in SUBSET Obj
  OBVIOUS
<1> QED BY <1>1, <1>2, <1>3, ReachableIn

\* Only the sweeps free, and they free the dead.
LEMMA FreesDead == ASSUME SInv, [Next]_vars PROVE \A o \in alloc \ alloc' : isdead(o)
<1>1. ASSUME NEW o \in Obj, sweepgcopage(o)
      PROVE  \A x \in alloc \ alloc' : isdead(x)
  BY <1>1 DEF sweepgcopage, Free
<1>2. CASE FullBegin
  <2>1. PICK D \in SUBSET Obj : FullSweep(D)
    BY <1>2 DEF FullBegin, SInv, IInv, TypeOK
  <2> QED BY <2>1 DEF FullSweep, Free
<1>3. CASE UNCHANGED vars
  BY <1>3 DEF vars
<1>4. CASE Program
  <2>1. alloc \subseteq alloc'
    BY <1>4
    DEF Program, NewObject, luaS_newlstr, Load, NewClosure, NewClosureRef, CloseUpvals,
        lua_v_settable, Erase, lua_setmetatable, lua_settop, luau_precall, SetUpval, Resume,
        lua_resetthread, lua_xmove, Yield
  <2> QED BY <2>1
<1>5. CASE gcstep
  <2>1. \/ \E o \in Obj : sweepgcopage(o)
        \/ alloc' = alloc
    BY <1>5
    DEF gcstep, markroot, propagatemark, PropagateDone, PropagateAgainDone, remarkupvals,
        AtomicWeak, AtomicGrayAgain, AtomicEnd, SweepDone, FullMark, FullEnd
  <2> QED BY <1>1, <2>1
<1> QED BY <1>2, <1>3, <1>4, <1>5 DEF Next

\* freeobj: the collector frees nothing that a root leads to, for every
\* program, every heap and every interleaving with the collector's steps.
THEOREM FreesOnlyGarbageCorrect == Spec => FreesOnlyGarbage
<1>1. SInv /\ [Next]_vars => [\A o \in alloc \ alloc' : o \notin Reachable]_vars
  BY FreesDead, ReachableAlive DEF Alive
<1> QED BY <1>1, SafeCorrect, PTL DEF Spec, FreesOnlyGarbage

\* What can be reached at the end of the atomic phase is marked, or is a
\* string that stringmark keeps.
LEMMA ReachableMarked ==
  ASSUME SInv, gcstate = "atomic3", gray = {}
  PROVE  \A o \in Reachable : marked(o) \/ o \in String
<1> DEFINE kept == UNION {refs[h] \cap String : h \in weak}
           S == {o \in Obj : marked(o) \/ o \in kept}
<1>1. /\ \A h \in Table : marked(h) /\ h \notin weak => \A r \in refs[h] : marked(r)
      /\ \A h \in Table : marked(h) /\ meta[h] # Nil => marked(meta[h])
      /\ \A f \in Function : marked(f) => \A r \in refs[f] : marked(r)
      /\ \A t \in Thread : marked(t) =>
           \A i \in Slot : stack[t][i] # Nil => marked(stack[t][i])
      /\ \A u \in Open : marked(uvthread[u]) => marked(u) /\ markedopen[u]
      /\ \A u \in Upval : marked(u) => \A v \in UpvalValue(u) : marked(v)
      /\ \A t \in Thread : from[t] # Nil => marked(t) /\ marked(from[t])
      /\ marked(Main) /\ marked(Globals) /\ marked(run)
  BY MarkedClosed
<1>2. {Main, Globals, run} \subseteq S
  BY <1>1, Kinds DEF SInv, IInv, TypeOK
<1>3. TypeOK /\ \A h \in weak : isweak(h) /\ h \in Table
  BY DEF SInv, IInv, TypeOK, Safe, Atomic
<1>4. kept \subseteq String /\ kept \subseteq Obj
  BY Kinds
<1>5. ASSUME NEW o \in S, NEW r \in Keeps(o)
      PROVE  r \in S
  <2>1. CASE o \in Table
    <3>1. marked(o)
      BY <1>4, <2>1, Kinds
    <3>2. \/ r = meta[o] /\ r # Nil
          \/ r \in refs[o] /\ (isweak(o) => r \in String)
      BY <1>5, <2>1, Kinds DEF Keeps, Children, traversetable
    <3>3. r \in Obj
      BY <1>3, <2>1, <3>2, Kinds, RefsType DEF TypeOK, Holder
    <3>4. CASE o \in weak /\ r \in refs[o]
      <4>1. isweak(o)
        BY <1>3, <3>4
      <4> QED BY <1>1, <2>1, <3>1, <3>2, <3>3, <3>4, <4>1
    <3> QED BY <1>1, <2>1, <3>1, <3>2, <3>3, <3>4
  <2>2. CASE o \in Function
    <3>1. marked(o) /\ (r = Globals \/ r \in refs[o])
      BY <1>4, <1>5, <2>2, Kinds DEF Keeps, Children, traverseclosure
    <3> QED BY <1>1, <1>3, <2>2, <3>1, Kinds, RefsType DEF Holder
  <2>3. CASE o \in Thread
    <3>1. marked(o) /\ o # Nil /\ r \in {Globals} \cup LiveSlots(o) \cup Resumed(o) \cup OpenUpvals(o)
      BY <1>4, <1>5, <2>3, Kinds DEF Keeps, Children, traversestack
    <3>2. CASE r \in LiveSlots(o)
      <4>1. PICK i \in 1..top[o] : r = stack[o][i] /\ r # Nil
        BY <3>2 DEF LiveSlots
      <4>2. i \in Slot
        BY <1>3, <2>3, BoundsAssumption DEF TypeOK, Slot
      <4>3. r \in Obj
        BY <1>3, <2>3, <4>1, <4>2 DEF TypeOK, Value
      <4> QED BY <1>1, <2>3, <3>1, <4>1, <4>2, <4>3
    <3>3. CASE r \in Resumed(o)
      BY <1>1, <3>1, <3>3, Kinds DEF Resumed
    <3>4. CASE r \in OpenUpvals(o)
      BY <1>1, <3>1, <3>4, Kinds DEF OpenUpvals, Open
    <3>5. CASE r = Globals
      BY <1>2, <3>5
    <3> QED BY <3>1, <3>2, <3>3, <3>4, <3>5
  <2>4. CASE o \in Upval
    <3>1. marked(o) /\ r \in UpvalValue(o)
      BY <1>4, <1>5, <2>4, Kinds DEF Keeps
    <3> QED BY <1>1, <1>3, <2>4, <3>1, UpvalValueType
  <2>5. CASE o \in String
    BY <1>5, <2>5, Kinds DEF Keeps
  <2> QED BY <2>1, <2>2, <2>3, <2>4, <2>5 DEF Obj
<1>6. S \in SUBSET Obj
  OBVIOUS
<1>7. Reachable \subseteq S
  BY <1>2, <1>5, <1>6, ReachableIn
<1> QED BY <1>4, <1>7

\* In the last part of atomic() only its end changes what a table holds or
\* which upvalues are open.
LEMMA Atomic3Steps ==
  ASSUME SInv, gcstate = "atomic3", [Next]_vars
  PROVE  AtomicEnd \/ (node' = node /\ uvthread' = uvthread)
<1>1. ~Mutator /\ ~FullBegin /\ ~Program
  <2>1. ~Mutator
    BY DEF Mutator, InAtomic
  <2> QED
    BY <2>1
    DEF FullBegin, Program, NewObject, luaS_newlstr, Load, NewClosure, NewClosureRef, CloseUpvals,
        lua_v_settable, Erase, lua_setmetatable, lua_settop, luau_precall, SetUpval, Resume,
        lua_resetthread, lua_xmove, Yield
<1>2. full # "swept"
  BY DEF SInv, Safe, Phases
<1> QED
  BY <1>1, <1>2
  DEF Next, gcstep, vars, heap, upvals, markroot, propagatemark, PropagateDone, PropagateAgainDone,
      remarkupvals, AtomicWeak, AtomicGrayAgain, sweepgcopage, SweepDone, FullMark, FullEnd

\* cleartable: an entry of a weak table is removed only when its key or its
\* value is an object that no root leads to.
THEOREM ClearsOnlyGarbageCorrect == Spec => ClearsOnlyGarbage
<1>1. ASSUME SInv, [Next]_vars, gcstate = "atomic3", NEW h \in Table, NEW e \in node[h] \ node'[h]
      PROVE  ~ {e.key, e.val} \subseteq Reachable \cup {Nil}
  <2>1. AtomicEnd
    BY <1>1, Atomic3Steps
  <2>2. gray = {} /\ node'[h] = IF h \in weak THEN cleartable(h) ELSE node[h]
    BY <2>1 DEF AtomicEnd
  <2>3. iscleared(e.key) \/ iscleared(e.val)
    BY <1>1, <2>2 DEF cleartable
  <2>4. \A o \in Reachable : marked(o) \/ o \in String
    BY <1>1, <2>2, ReachableMarked
  <2>5. \A o \in Reachable \cup {Nil} : ~iscleared(o)
    BY <2>4 DEF iscleared, iswhite, marked
  <2> QED BY <2>3, <2>5
<1>2. SInv /\ [Next]_vars =>
        [gcstate = "atomic3" =>
           \A h \in Table : \A e \in node[h] \ node'[h] :
             ~ {e.key, e.val} \subseteq Reachable \cup {Nil}]_vars
  BY <1>1
<1> QED BY <1>2, SafeCorrect, PTL DEF Spec, ClearsOnlyGarbage

\* clearupvals: an upvalue is closed behind the program's back only when no
\* root leads to its thread any more.
THEOREM ClosesOnlyOrphansCorrect == Spec => ClosesOnlyOrphans
<1>1. ASSUME SInv, [Next]_vars, gcstate = "atomic3", NEW u \in Open, uvthread'[u] = Nil
      PROVE  uvthread[u] \notin Reachable
  <2>1. u \in Upval /\ uvthread[u] # Nil /\ uvthread[u] \in Thread
    BY <1>1 DEF Open, SInv, IInv, TypeOK
  <2>2. AtomicEnd
    BY <1>1, <2>1, Atomic3Steps
  <2>3. gray = {} /\ u \in Orphans
    BY <1>1, <2>1, <2>2 DEF AtomicEnd
  <2>4. ~marked(uvthread[u])
    BY <1>1, <2>3, MarkedClosed DEF Orphans
  <2> QED BY <1>1, <2>1, <2>3, <2>4, ReachableMarked, Kinds
<1>2. SInv /\ [Next]_vars =>
        [gcstate = "atomic3" =>
           \A u \in Open : uvthread'[u] = Nil => uvthread[u] \notin Reachable]_vars
  BY <1>1
<1> QED BY <1>2, SafeCorrect, PTL DEF Spec, ClosesOnlyOrphans

(***************************************************************************)
(* A full collection is complete: the program waits, so what it marks is   *)
(* reachable when it is marked and stays so until the end, strings apart.  *)
(***************************************************************************)
FullInv ==
  full = "mark" =>
    /\ keepinvariant => \A o \in Obj \ String : marked(o) => o \in Reachable
    /\ ~keepinvariant => \A o \in alloc \ String : ~isdead(o) => o \in Reachable

\* The references that keep an object lead to objects.
LEMMA KeepsType == ASSUME SInv, NEW o \in Obj PROVE Keeps(o) \subseteq Obj
<1>1. TypeOK
  BY DEF SInv, IInv
<1>2. CASE o \in Traversable
  BY <1>1, <1>2, ChildrenType, Kinds DEF Keeps, Children, Traversable
<1>3. CASE o \in Upval
  BY <1>1, <1>3, UpvalValueType, Kinds DEF Keeps
<1>4. CASE o \in String
  BY <1>4, Kinds DEF Keeps
<1> QED BY <1>2, <1>3, <1>4 DEF Obj, Traversable

\* The roots are reachable, and what a reachable object keeps is too.
LEMMA ReachableClosed ==
  ASSUME SInv
  PROVE  /\ Reachable \subseteq Obj /\ {Main, Globals, run} \subseteq Reachable
         /\ \A o \in Reachable : Keeps(o) \subseteq Reachable
<1>1. Reachable \subseteq Obj /\ {Main, Globals, run} \subseteq Obj
  BY Kinds DEF Reachable, ReachableBy, SInv, IInv, TypeOK
<1>2. {Main, Globals, run} \subseteq Reachable
  BY <1>1 DEF Reachable, ReachableBy
<1>3. \A o \in Reachable : Keeps(o) \subseteq Obj
  BY <1>1, KeepsType
<1>4. ASSUME NEW o \in Reachable, NEW r \in Keeps(o), NEW S \in SUBSET Obj,
             {Main, Globals, run} \subseteq S, \A x \in S : Keeps(x) \subseteq S
      PROVE  r \in S
  <2>1. o \in S
    BY <1>4, ReachableIn
  <2> QED BY <1>4, <2>1
<1>5. \A o \in Reachable : \A r \in Keeps(o) : r \in Reachable
  BY <1>3, <1>4 DEF Reachable, ReachableBy
<1> QED BY <1>1, <1>2, <1>5

\* A step that keeps the references of what is reachable keeps it reachable.
LEMMA StaysReachable ==
  ASSUME SInv, SInv', run' = run, \A o \in Reachable : Keeps(o)' = Keeps(o)
  PROVE  Reachable \subseteq Reachable'
<1>1. /\ Reachable \subseteq Obj /\ {Main, Globals, run} \subseteq Reachable
      /\ \A o \in Reachable : Keeps(o) \subseteq Reachable
  BY ReachableClosed
<1>2. ASSUME NEW S \in SUBSET Obj, {Main, Globals, run'} \subseteq S,
             \A o \in S : Keeps(o)' \subseteq S
      PROVE  Reachable \subseteq S
  <2>1. S \cap Reachable \in SUBSET Obj /\ {Main, Globals, run} \subseteq S \cap Reachable
    BY <1>1, <1>2
  <2>2. \A o \in S \cap Reachable : Keeps(o) \subseteq S \cap Reachable
    BY <1>1, <1>2
  <2>3. Reachable \subseteq S \cap Reachable
    BY <2>1, <2>2, ReachableIn
  <2> QED BY <2>3
<1> QED BY <1>1, <1>2 DEF Reachable, ReachableBy

\* The same when only strings are let go, which lead nowhere.
LEMMA StaysReachableNoString ==
  ASSUME SInv, SInv', run' = run, \A o \in Reachable : Keeps(o) \ String \subseteq Keeps(o)'
  PROVE  Reachable \ String \subseteq Reachable'
<1>1. /\ Reachable \subseteq Obj /\ {Main, Globals, run} \subseteq Reachable
      /\ \A o \in Reachable : Keeps(o) \subseteq Reachable
  BY ReachableClosed
<1>2. ASSUME NEW S \in SUBSET Obj, {Main, Globals, run'} \subseteq S,
             \A o \in S : Keeps(o)' \subseteq S
      PROVE  Reachable \ String \subseteq S
  <2> DEFINE T == (S \cup String) \cap Reachable
  <2>1. T \in SUBSET Obj /\ {Main, Globals, run} \subseteq T
    BY <1>1, <1>2
  <2>2. \A o \in String : Keeps(o) = {}
    BY Kinds DEF Keeps
  <2>3. \A o \in T : Keeps(o) \subseteq T
    BY <1>1, <1>2, <2>2
  <2> HIDE DEF T
  <2>4. Reachable \subseteq T
    BY <2>1, <2>3, ReachableIn
  <2> QED BY <2>4 DEF T
<1> QED BY <1>1, <1>2 DEF Reachable, ReachableBy

\* Keeps depends on the contents, the live slots, the threads resumed and the
\* open upvalues only.
LEMMA KeepsSame ==
  ASSUME NEW o \in Obj, from' = from,
         o \in Table \cup Function => refs'[o] = refs[o],
         o \in Table => meta'[o] = meta[o],
         o \in Thread => LiveSlots(o)' = LiveSlots(o) /\ OpenUpvals(o)' = OpenUpvals(o),
         o \in Upval => UpvalValue(o)' = UpvalValue(o)
  PROVE  Keeps(o)' = Keeps(o)
<1>1. CASE o \in Table
  BY <1>1, Kinds DEF Keeps, Children, traversetable, isweak
<1>2. CASE o \in Function
  BY <1>2, Kinds DEF Keeps, Children, traverseclosure
<1>3. CASE o \in Thread
  <2>1. Resumed(o)' = Resumed(o)
    BY DEF Resumed
  <2>2. Keeps(o) = traversestack(o) /\ Keeps(o)' = traversestack(o)'
    BY <1>3, Kinds DEF Keeps, Children
  <2> QED BY <1>3, <2>1, <2>2 DEF traversestack
<1>4. CASE o \in Upval
  <2>1. Keeps(o) = UpvalValue(o) /\ Keeps(o)' = UpvalValue(o)'
    BY <1>4, Kinds DEF Keeps
  <2> QED BY <1>4, <2>1
<1>5. CASE o \in String
  BY <1>5, Kinds DEF Keeps
<1> QED BY <1>1, <1>2, <1>3, <1>4, <1>5 DEF Obj

\* No reference changes at all.
LEMMA GraphSame ==
  ASSUME SInv, SInv', UNCHANGED <<heap, stacks, uvthread, uvslot, alloc, schedule>>
  PROVE  Reachable \subseteq Reachable'
<1>1. /\ refs' = refs /\ meta' = meta /\ stack' = stack /\ top' = top /\ uvthread' = uvthread
      /\ uvslot' = uvslot /\ alloc' = alloc /\ from' = from /\ run' = run
  BY RefsUnchanged DEF heap, stacks, schedule
<1>2. /\ \A t \in Thread : LiveSlots(t)' = LiveSlots(t) /\ OpenUpvals(t)' = OpenUpvals(t)
      /\ \A u \in Upval : UpvalValue(u)' = UpvalValue(u)
  BY <1>1 DEF LiveSlots, OpenUpvals, UpvalValue
<1>3. \A o \in Obj : Keeps(o)' = Keeps(o)
  BY <1>1, <1>2, KeepsSame
<1> QED BY <1>1, <1>3, StaysReachable, ReachableClosed

\* Marking reachable objects marks reachable objects.
LEMMA MarksReachable ==
  ASSUME SInv, NEW S \in SUBSET Obj, S \subseteq Reachable
  PROVE  \A o \in Obj : markcol(S)[o] # col[o] => o \in Reachable
<1>1. \A o \in Obj : markcol(S)[o] # col[o] => o \in S \/ \E u \in S \cap Upval : o \in UpvalValue(u)
  BY MarkFacts DEF SInv, IInv
<1>2. \A u \in Upval : Keeps(u) = UpvalValue(u)
  BY Kinds DEF Keeps
<1> QED BY <1>1, <1>2, ReachableClosed

\* propagatemark in a full collection
LEMMA PropagateFull ==
  ASSUME SInv, SInv', FullInv, full = "mark", NEW o \in Obj, propagatemark(o)
  PROVE  FullInv'
<1> USE DEF SInv, Safe
<1>1. /\ gcstate \in {"propagate", "propagateagain"} \/ InAtomic
      /\ o \in gray /\ alloc' = alloc /\ refs' = refs /\ meta' = meta /\ top' = top
      /\ uvthread' = uvthread /\ uvslot' = uvslot /\ from' = from /\ run' = run /\ gcstate' = gcstate
      /\ col' = [markcol(Children(o)) EXCEPT ![o] = col'[o]]
  <2>1. markcol(Children(o)) = [x \in Obj |-> markcol(Children(o))[x]]
    BY DEF markcol
  <2>2. PICK c : col' = [markcol(Children(o)) EXCEPT ![o] = c]
    BY DEF propagatemark
  <2> QED BY <2>1, <2>2, RefsUnchanged DEF propagatemark, control, heap, schedule
<1>2. keepinvariant /\ keepinvariant'
  BY <1>1 DEF keepinvariant, InAtomic
<1>3. TypeOK /\ o \in Traversable /\ marked(o)
  <2>1. o \in Traversable /\ TypeOK
    BY <1>1 DEF IInv, TypeOK, Traversable
  <2> QED BY <1>1, <1>2, <2>1 DEF Lists, marked
<1>4. o \in Reachable
  BY <1>2, <1>3, Kinds DEF FullInv, Traversable
<1>5. Children(o) \subseteq Reachable /\ Children(o) \in SUBSET Obj
  <2>1. Children(o) \subseteq Keeps(o)
    BY <1>3, Kinds DEF Keeps, Children, Traversable
  <2> QED BY <1>4, <2>1, ReachableClosed
<1>6. \A x \in Obj \ String : marked(x)' => x \in Reachable
  <2>1. \A x \in Obj : x # o => col'[x] = markcol(Children(o))[x]
    BY <1>1, <1>3, <1>5, MarkType
  <2>2. \A x \in Obj : col'[x] # col[x] => x \in Reachable
    BY <1>4, <1>5, <2>1, MarksReachable
  <2> QED BY <1>2, <2>2 DEF FullInv, marked
<1>7. /\ \A t \in Thread, i \in Slot : i <= top[t] => stack'[t][i] = stack[t][i]
  <2>1. CASE stack' = stack
    BY <2>1
  <2>2. CASE stack' # stack
    <3>1. /\ stack' = [stack EXCEPT ![o] = [i \in Slot |-> IF i > top[o] THEN Nil ELSE @[i]]]
          /\ o \in Thread
      BY <2>2 DEF propagatemark
    <3>2. \A t \in Thread, i \in Slot : i <= top[t] => ~(i > top[t])
      BY BoundsAssumption DEF IInv, TypeOK, Slot
    <3> QED BY <3>1, <3>2 DEF IInv, TypeOK
  <2> QED BY <2>1, <2>2
<1>8. ASSUME NEW x \in Reachable
      PROVE  Keeps(x)' = Keeps(x)
  <2>1. x \in Obj /\ x \in alloc
    BY ReachableAlive DEF Alive
  <2>2. x \in Thread => LiveSlots(x)' = LiveSlots(x)
    <3>1. x \in Thread => \A i \in 1..top[x] : i \in Slot /\ i <= top[x]
      BY BoundsAssumption DEF IInv, TypeOK, Slot
    <3> QED BY <1>1, <1>7, <3>1 DEF LiveSlots
  <2>3. OpenUpvals(x)' = OpenUpvals(x)
    BY <1>1 DEF OpenUpvals
  <2>4. x \in Upval => UpvalValue(x)' = UpvalValue(x)
    <3>1. CASE x \in Upval /\ uvthread[x] # Nil
      <4>1. x \in Open /\ uvthread[x] \in Thread /\ uvslot[x] \in Slot
        BY <2>1, <3>1 DEF Open, IInv, TypeOK
      <4>2. uvslot[x] <= top[uvthread[x]]
        BY <4>1 DEF UpvalLinks
      <4> QED BY <1>1, <1>7, <3>1, <4>1, <4>2 DEF UpvalValue
    <3> QED BY <1>1, <3>1 DEF UpvalValue
  <2> QED BY <1>1, <2>1, <2>2, <2>3, <2>4, KeepsSame
<1>9. Reachable \subseteq Reachable'
  BY <1>1, <1>8, StaysReachable
<1> QED BY <1>2, <1>6, <1>9 DEF FullInv

\* The other marking steps in a full collection.
LEMMA MarkFull ==
  ASSUME SInv, SInv', FullInv, full = "mark", keepinvariant, keepinvariant',
         UNCHANGED <<alloc, heap, stacks, uvthread, uvslot, schedule>>,
         NEW S \in SUBSET Obj, S \subseteq Reachable, col' = markcol(S) \/ col' = col
  PROVE  FullInv'
<1>1. \A o \in Obj : col'[o] # col[o] => o \in Reachable
  BY MarksReachable
<1>2. \A o \in Obj \ String : marked(o)' => o \in Reachable
  BY <1>1 DEF FullInv, marked
<1> QED BY <1>2, GraphSame DEF FullInv

\* The end of atomic() in a full collection
LEMMA AtomicEndFull ==
  ASSUME SInv, SInv', FullInv, full = "mark", AtomicEnd
  PROVE  FullInv'
<1> USE DEF SInv, Safe
<1> DEFINE kept   == UNION {stringmark(h) : h \in weak}
           closed == {u \in Orphans : ~iswhite(u)}
<1>1. /\ closed \subseteq Open /\ kept \subseteq String
      /\ \A o \in Obj : col'[o] = IF o \in closed THEN "black"
                                  ELSE IF marked(o) THEN col[o]
                                  ELSE IF o \in kept THEN "gray"
                                  ELSE IF o \in alloc THEN "dead" ELSE "white"
      /\ \A u \in closed : marked(u)
      /\ \A x \in Table \cup Function \cup Upval :
           refs'[x] = IF x \in weak THEN Objects(cleartable(x))
                      ELSE IF x \in closed THEN UpvalValue(x) ELSE refs[x]
      /\ \A u \in Upval : uvthread'[u] = IF u \in Orphans THEN Nil ELSE uvthread[u]
      /\ gcstate = "atomic3" /\ gray = {} /\ gcstate' = "sweep"
      /\ UNCHANGED <<alloc, gray, grayagain, meta, stacks, uvslot, full, schedule>>
  BY AtomicEndFacts
<1>2. /\ alloc' = alloc /\ meta' = meta /\ stack' = stack /\ top' = top /\ from' = from
      /\ run' = run /\ uvslot' = uvslot
  BY <1>1 DEF stacks, schedule
<1>3. keepinvariant /\ ~keepinvariant' /\ \A h \in weak : isweak(h) /\ h \in Table /\ h \in Traversable
  BY <1>1 DEF keepinvariant, Atomic, IInv, TypeOK, Traversable
<1>4. ASSUME NEW o \in alloc' \ String, ~isdead(o)'
      PROVE  o \in Reachable
  <2>1. o \in alloc /\ o \in Obj /\ o \notin kept
    BY <1>1, <1>2, <1>4 DEF IInv, TypeOK
  <2>2. marked(o)
    BY <1>1, <1>4, <2>1 DEF isdead
  <2> QED BY <1>3, <1>4, <2>1, <2>2 DEF FullInv
<1>5. ASSUME NEW o \in Reachable
      PROVE  Keeps(o) \ String \subseteq Keeps(o)'
  <2>1. o \in Obj /\ o \in alloc /\ (marked(o) \/ o \in String)
    BY <1>1, ReachableAlive, ReachableMarked DEF Alive
  <2>2. CASE o \in Table /\ o \in weak
    <3>1. isweak(o) /\ isweak(o)' /\ meta'[o] = meta[o]
      BY <1>2, <1>3, <2>2 DEF isweak
    <3> QED BY <2>2, <3>1 DEF Keeps, traversetable
  <2>3. CASE o \notin weak
    <3>1. o \in Table \cup Function => refs'[o] = refs[o]
      <4>1. o \in Table \cup Function => o \notin closed
        BY <1>1, Kinds DEF Open
      <4> QED BY <1>1, <2>3, <4>1
    <3>2. o \in Thread => LiveSlots(o)' = LiveSlots(o) /\ OpenUpvals(o)' = OpenUpvals(o)
      <4>1. ASSUME o \in Thread, NEW u \in OpenUpvals(o)
            PROVE  u \notin Orphans
        <5>1. u \in Open /\ marked(uvthread[u])
          BY <2>1, <4>1, Kinds DEF OpenUpvals, Open
        <5> QED BY <1>1, <5>1, MarkedClosed DEF Orphans
      <4>2. ASSUME o \in Thread
            PROVE  OpenUpvals(o)' = OpenUpvals(o)
        BY <1>1, <1>2, <4>1, <4>2, Kinds DEF OpenUpvals
      <4>3. LiveSlots(o)' = LiveSlots(o)
        BY <1>2 DEF LiveSlots
      <4> QED BY <4>2, <4>3
    <3>3. o \in Upval => UpvalValue(o)' = UpvalValue(o)
      <4>1. CASE o \in Upval /\ o \in Orphans
        <5>1. marked(o) /\ o \in closed
          BY <2>1, <4>1, Kinds DEF marked, iswhite
        <5> QED BY <1>1, <2>3, <4>1, <5>1 DEF UpvalValue
      <4>2. CASE o \in Upval /\ o \notin Orphans
        BY <1>1, <1>2, <2>3, <4>2 DEF UpvalValue
      <4> QED BY <4>1, <4>2
    <3> QED BY <1>2, <2>1, <3>1, <3>2, <3>3, KeepsSame
  <2> QED BY <1>3, <2>2, <2>3
<1>6. Reachable \ String \subseteq Reachable'
  BY <1>2, <1>5, StaysReachableNoString
<1> QED BY <1>3, <1>4, <1>6 DEF FullInv

\* The sweep in a full collection
LEMMA SweepFull ==
  ASSUME SInv, SInv', FullInv, full = "mark", NEW o \in Obj, sweepgcopage(o)
  PROVE  FullInv'
<1> USE DEF SInv, Safe
<1> DEFINE D == {x \in {o} : isdead(x)}
<1>1. /\ Free(D) /\ gcstate = "sweep" /\ gcstate' = "sweep" /\ alloc' = alloc \ D
      /\ uvthread' = uvthread /\ uvslot' = uvslot /\ from' = from /\ run' = run
  BY DEF sweepgcopage, Free, upvals, schedule
<1>2. ~keepinvariant /\ ~keepinvariant'
  BY <1>1 DEF keepinvariant
<1>3. /\ \A x \in Table \cup Function \cup Upval : refs'[x] = IF x \in D THEN {} ELSE refs[x]
      /\ \A x \in Table : meta'[x] = IF x \in D THEN Nil ELSE meta[x]
      /\ \A t \in Thread : t \notin D => stack'[t] = stack[t] /\ top'[t] = top[t]
  BY <1>1, RefsFree DEF Free, IInv
<1>4. \A x \in alloc' : x \in alloc /\ (~isdead(x)' => ~isdead(x))
  <2>1. \A x \in Obj : col'[x] = IF x = o THEN "white" ELSE col[x]
    BY DEF sweepgcopage, IInv, TypeOK
  <2> QED BY <1>1, <2>1 DEF isdead, IInv, TypeOK
<1>5. ASSUME NEW x \in Reachable
      PROVE  Keeps(x)' = Keeps(x)
  <2>1. x \in Obj /\ x \in alloc /\ x \notin D /\ Alive(x)
    BY ReachableAlive DEF Alive
  <2>2. x \in Thread => LiveSlots(x)' = LiveSlots(x)
    BY <1>3, <2>1 DEF LiveSlots
  <2>3. x \in Thread => OpenUpvals(x)' = OpenUpvals(x)
    <3>1. x \in Thread => \A u \in OpenUpvals(x) : u \notin D
      BY Kinds DEF OpenUpvals, Open, LiveRefs, Alive
    <3> QED BY <1>1, <3>1 DEF OpenUpvals
  <2>4. x \in Upval => UpvalValue(x)' = UpvalValue(x)
    <3>1. CASE x \in Upval /\ uvthread[x] # Nil
      <4>1. x \in Open /\ uvthread[x] \in Thread
        BY <2>1, <3>1 DEF Open, IInv, TypeOK
      <4>2. uvthread[x] \notin D
        BY <4>1 DEF LiveRefs, Alive
      <4> QED BY <1>1, <1>3, <3>1, <4>1, <4>2 DEF UpvalValue
    <3> QED BY <1>1, <1>3, <2>1, <3>1 DEF UpvalValue
  <2> HIDE DEF D
  <2> QED BY <1>1, <1>3, <2>1, <2>2, <2>3, <2>4, KeepsSame
<1>6. Reachable \subseteq Reachable'
  BY <1>1, <1>5, StaysReachable
<1> QED BY <1>2, <1>4, <1>6 DEF FullInv

\* What a full collection has marked so far is reachable, in every step.
LEMMA NextFull == SInv /\ SInv' /\ FullInv /\ [Next]_vars => FullInv'
<1> SUFFICES ASSUME SInv, SInv', FullInv, [Next]_vars, full' = "mark" PROVE FullInv'
  BY DEF FullInv
<1> USE DEF SInv, Safe
<1>1. CASE FullMark
  <2>1. keepinvariant' /\ col' = markcol(Roots) /\ TypeOK /\ Roots \in SUBSET (Obj \ Upval)
    BY <1>1, Kinds DEF FullMark, MarkRoots, keepinvariant, IInv, Roots
  <2>2. \A o \in Obj : col[o] = "white"
    BY <1>1 DEF FullMark, Phases
  <2>3. \A o \in Obj : marked(o)' => o \in Roots
    <3>1. \A o \in Obj : markcol(Roots)[o] = IF o \in Roots /\ iswhite(o) THEN "gray" ELSE col[o]
      BY <2>1, MarkValues
    <3> QED BY <2>1, <2>2, <3>1 DEF marked
  <2>4. \A o \in Roots : o \in Reachable'
    BY <2>1 DEF Roots, Reachable, ReachableBy
  <2> QED BY <2>1, <2>3, <2>4 DEF FullInv
<1>2. CASE UNCHANGED vars
  <2>1. /\ UNCHANGED <<alloc, heap, stacks, uvthread, uvslot, schedule>>
        /\ col' = col /\ gcstate' = gcstate /\ full' = full /\ alloc' = alloc
    BY <1>2 DEF vars, upvals, control
  <2>2. Reachable \subseteq Reachable'
    BY <2>1, GraphSame
  <2> QED BY <2>1, <2>2 DEF FullInv, keepinvariant, marked, isdead
<1>3. CASE ~FullMark /\ Next
  <2>1. full = "mark"
    <3>1. full = "mark" \/ full' = full \/ full' = "swept" \/ full' = "no" \/ FullMark
      BY <1>3
      DEF Next, Program, gcstep, control, NewObject, luaS_newlstr, Load, NewClosure, NewClosureRef,
          CloseUpvals, lua_v_settable, Erase, lua_setmetatable, lua_settop, luau_precall, SetUpval,
          Resume, lua_resetthread, lua_xmove, Yield, markroot, propagatemark, PropagateDone,
          PropagateAgainDone, remarkupvals, AtomicWeak, AtomicGrayAgain, AtomicEnd, sweepgcopage,
          SweepDone, FullEnd, FullBegin, FullSweep
    <3> QED BY <1>3, <3>1
  <2>2. ~Mutator /\ ~FullBegin /\ ~Program /\ ~markroot /\ ~FullEnd
    <3>1. ~Mutator
      BY <2>1 DEF Mutator
    <3> QED
      BY <2>1, <3>1
      DEF FullBegin, Program, NewObject, luaS_newlstr, Load, NewClosure, NewClosureRef,
          CloseUpvals, lua_v_settable, Erase, lua_setmetatable, lua_settop, luau_precall, SetUpval,
          Resume, lua_resetthread, lua_xmove, Yield, markroot, FullEnd
  <2>3. ASSUME NEW o \in Obj, propagatemark(o)
        PROVE  FullInv'
    BY <2>1, <2>3, PropagateFull
  <2>4. CASE PropagateDone \/ PropagateAgainDone \/ AtomicGrayAgain
    <3>1. /\ UNCHANGED <<alloc, heap, stacks, uvthread, uvslot, schedule>> /\ col' = col
          /\ keepinvariant /\ keepinvariant'
      BY <2>4 DEF PropagateDone, PropagateAgainDone, AtomicGrayAgain, upvals, keepinvariant
    <3>2. {} \in SUBSET Obj /\ {} \subseteq Reachable
      OBVIOUS
    <3> QED BY <2>1, <3>1, <3>2, MarkFull
  <2>5. CASE remarkupvals
    <3> DEFINE V == UNION {UpvalValue(u) : u \in {w \in Open : col[w] = "gray"}}
    <3>1. /\ UNCHANGED <<alloc, heap, stacks, uvthread, uvslot, schedule>> /\ col' = markcol(V)
          /\ keepinvariant /\ keepinvariant'
      BY <2>5 DEF remarkupvals, upvals, keepinvariant
    <3>2. \A u \in Open : u \in Upval /\ u \in Obj /\ Keeps(u) = UpvalValue(u)
      BY Kinds DEF Open, Keeps
    <3>3. \A u \in Open : col[u] = "gray" => u \in Reachable
      BY <2>1, <3>1, <3>2, Kinds DEF FullInv, marked
    <3>4. V \in SUBSET Obj /\ V \subseteq Reachable
      BY <3>2, <3>3, ReachableClosed
    <3> HIDE DEF V
    <3> QED BY <2>1, <3>1, <3>4, MarkFull
  <2>6. CASE AtomicWeak
    <3>1. /\ UNCHANGED <<alloc, heap, stacks, uvthread, uvslot, schedule>> /\ col' = markcol({run})
          /\ keepinvariant /\ keepinvariant'
      BY <2>6 DEF AtomicWeak, upvals, keepinvariant
    <3>2. {run} \in SUBSET Obj /\ {run} \subseteq Reachable
      BY ReachableClosed
    <3> QED BY <2>1, <3>1, <3>2, MarkFull
  <2>7. CASE AtomicEnd
    BY <2>1, <2>7, AtomicEndFull
  <2>8. ASSUME NEW o \in Obj, sweepgcopage(o)
        PROVE  FullInv'
    BY <2>1, <2>8, SweepFull
  <2>9. CASE SweepDone
    <3>1. /\ UNCHANGED <<alloc, heap, stacks, uvthread, uvslot, schedule>> /\ alloc' = alloc
          /\ ~keepinvariant /\ ~keepinvariant' /\ unswept = {} /\ alloc \subseteq Obj
      BY <2>9 DEF SweepDone, upvals, keepinvariant, IInv, TypeOK
    <3>2. \A o \in alloc : ~isdead(o)
      BY <3>1 DEF Phases
    <3>3. Reachable \subseteq Reachable'
      BY <3>1, GraphSame
    <3> QED BY <2>1, <3>1, <3>2, <3>3 DEF FullInv
  <2> QED BY <1>3, <2>2, <2>3, <2>4, <2>5, <2>6, <2>7, <2>8, <2>9 DEF Next, gcstep
<1> QED BY <1>1, <1>2, <1>3

\* lua_c_fullgc: when it returns every object left, strings apart, is
\* reachable, whatever the cycle it interrupted had already marked.
THEOREM FullCollectsCorrect == Spec => FullCollects
<1>1. Init => FullInv
  BY DEF Init, FullInv
<1>2. SInv /\ FullInv /\ [Next]_vars =>
        [full = "mark" /\ full' = "no" => alloc \ String \subseteq Reachable]_vars
  <2> SUFFICES ASSUME SInv, FullInv, [Next]_vars, full = "mark", full' = "no"
               PROVE  alloc \ String \subseteq Reachable
    OBVIOUS
  <2>1. gcstate = "pause"
    <3>1. ~Mutator
      BY DEF Mutator
    <3> QED
      BY <3>1
      DEF Next, Program, gcstep, vars, control, NewObject, luaS_newlstr, Load, NewClosure,
          NewClosureRef, CloseUpvals, lua_v_settable, Erase, lua_setmetatable, lua_settop,
          luau_precall, SetUpval, Resume, lua_resetthread, lua_xmove, Yield, markroot,
          propagatemark, PropagateDone, PropagateAgainDone, remarkupvals, AtomicWeak,
          AtomicGrayAgain, AtomicEnd, sweepgcopage, SweepDone, FullMark, FullEnd, FullBegin
  <2>2. ~keepinvariant /\ \A o \in alloc : o \in Obj /\ ~isdead(o)
    BY <2>1 DEF keepinvariant, SInv, IInv, TypeOK, Safe, Phases, isdead
  <2> QED BY <2>2 DEF FullInv
<1>3. Spec => []FullInv
  BY <1>1, NextFull, SafeCorrect, PTL DEF Spec
<1> QED BY <1>2, <1>3, SafeCorrect, PTL DEF Spec, FullCollects
=============================================================================
