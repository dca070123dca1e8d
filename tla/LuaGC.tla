------------------------------- MODULE LuaGC -------------------------------
(***************************************************************************)
(* The incremental mark-and-sweep collector of crates/luaur-vm and the     *)
(* operations of a running program that it has to tolerate between any two *)
(* of its steps.                                                           *)
(*                                                                         *)
(* Kept: the colours, the gray/grayagain/weak lists, the five collector    *)
(* states, every write barrier, open upvalues with their markedopen bit,   *)
(* thread activity, stack slots above the top, the sweep cursor, the       *)
(* aborting full collection and the resurrection of interned strings.      *)
(* Abstracted: a table is a set of entries and a closure a set of objects, *)
(* an address always holds the same kind of object, pages hold one object. *)
(***************************************************************************)
EXTENDS Naturals, FiniteSets

CONSTANTS
  Table, Function, Thread, Upval, String,  \* addresses, by kind of object
  Main,      \* the main thread
  Globals,   \* the registry and the table of globals, a root
  WeakMeta,  \* tables whose __mode is "kv": metatables of weak tables
  NSlots,    \* slots of a thread's stack
  MaxRefs,   \* entries the program keeps in one table
  Keys,      \* objects it uses as keys
  Nil

Obj   == Table \cup Function \cup Thread \cup Upval \cup String
Holder == Table \cup Function \cup Upval
Slot  == 1..NSlots
Value == (Obj \ Upval) \cup {Nil}    \* what a TValue of the program holds

\* A node of a table; Nil stands for what is not collectable, the index of an
\* array slot too.
Entry == [key : Value, val : Value]

ASSUME KindsAssumption ==
  /\ Main \in Thread
  /\ Globals \in Table
  /\ WeakMeta \subseteq Table
  /\ Keys \subseteq Obj \ Upval
  /\ Nil \notin Obj
  /\ Table \cap (Function \cup Thread \cup Upval \cup String) = {}
  /\ Function \cap (Thread \cup Upval \cup String) = {}
  /\ Thread \cap (Upval \cup String) = {}
  /\ Upval \cap String = {}

ASSUME BoundsAssumption == NSlots \in Nat \ {0} /\ MaxRefs \in Nat

VARIABLES
  alloc,       \* addresses that hold an object
  col,         \* the mark bits of every object
  gcstate,     \* "atomic1".."atomic3" are the parts of one call of atomic()
  gray, grayagain, weak,
  unswept,     \* what sweepgcopage has still to visit
  full,        \* progress of a lua_c_fullgc call; "no" outside of it
  node,        \* entries of a table
  cells,       \* what a closure captured, value of a closed upvalue
  meta,        \* metatable
  stack, top,
  from,        \* who resumed a thread; Nil when it is not active
  run,         \* the running thread
  uvthread, uvslot, markedopen   \* open upvalues; Nil, FALSE once closed

lists    == <<gray, grayagain, weak>>
heap     == <<node, cells, meta>>
stacks   == <<stack, top>>
upvals   == <<uvthread, uvslot, markedopen>>
control  == <<gcstate, unswept, full>>
schedule == <<from, run>>
vars == <<alloc, col, lists, heap, stacks, upvals, control, schedule>>

GCStates == {"pause", "propagate", "propagateagain", "atomic",
             "atomic1", "atomic2", "atomic3", "sweep"}

(***************************************************************************)
(* Colours.  Of the two white bits one is g->currentwhite and the other is *)
(* otherwhite(g): "white" and "dead".  The flip of currentwhite turns every*)
(* object that is still white into a dead one.                             *)
(***************************************************************************)
Colour == {"white", "dead", "gray", "black"}

iswhite(o) == col[o] \in {"white", "dead"}
isdead(o)  == col[o] = "dead"

keepinvariant ==
  gcstate \in {"propagate", "propagateagain", "atomic",
               "atomic1", "atomic2", "atomic3"}

InAtomic == gcstate \in {"atomic1", "atomic2", "atomic3"}

(***************************************************************************)
(* The object graph.                                                       *)
(***************************************************************************)
Objects(N) == ({e.key : e \in N} \cup {e.val : e \in N}) \ {Nil}

\* The objects a table, a closure or a closed upvalue refers to.
refs == [x \in Holder |-> IF x \in Table THEN Objects(node[x]) ELSE cells[x]]

isactive(t) == from[t] # Nil

OpenUpvals(t) == {u \in Upval : u \in alloc /\ uvthread[u] = t}

Open == {u \in Upval : u \in alloc /\ uvthread[u] # Nil}

\* The coroutines th has resumed are arguments on its stack until they return.
Resumed(th) == {t \in Thread : from[t] = th}

LiveSlots(t) == {stack[t][i] : i \in 1..top[t]} \ {Nil}

UpvalValue(u) ==
  IF uvthread[u] # Nil THEN {stack[uvthread[u]][uvslot[u]]} \ {Nil}
                       ELSE refs[u]

isweak(h) == meta[h] \in WeakMeta

\* What traversing a gray object marks.
traversetable(h) ==
  ({meta[h]} \ {Nil}) \cup (IF isweak(h) THEN {} ELSE refs[h])

traverseclosure(cl) == {Globals} \cup refs[cl]

traversestack(th) ==
  {Globals} \cup LiveSlots(th) \cup Resumed(th) \cup OpenUpvals(th)

Children(o) ==
  IF o \in Table THEN traversetable(o)
  ELSE IF o \in Function THEN traverseclosure(o)
  ELSE traversestack(o)

(***************************************************************************)
(* reallymarkobject on the white members of S.  Marking an upvalue marks   *)
(* its value at once; the other kinds wait on the gray list, except        *)
(* strings, which have nothing to traverse.                                *)
(***************************************************************************)
Whitened(S) == {o \in S : iswhite(o)}

Marked(S) ==
  Whitened(S) \cup
    Whitened(UNION {UpvalValue(u) : u \in Whitened(S) \cap Upval})

\* Mutant: open upvalues are blackened like closed ones.
markcol_open(S) ==
  [o \in Obj |->
     IF o \notin Marked(S) THEN col[o] ELSE IF o \in Upval THEN "black" ELSE "gray"]

markcol(S) ==
  [o \in Obj |->
     IF o \notin Marked(S) THEN col[o]
     ELSE IF o \in Upval /\ uvthread[o] = Nil THEN "black" ELSE "gray"]

markgray(S) == Marked(S) \ (Upval \cup String)

(***************************************************************************)
(* Barriers: how a write of v, or of the objects S, into an object changes *)
(* col, gray and grayagain.                                                *)
(***************************************************************************)
\* luaC_barrier, luaC_objbarrier
luaC_barrierf(o, v) ==
  /\ IF col[o] = "black" /\ iswhite(v)
     THEN IF keepinvariant
          THEN col' = markcol({v}) /\ gray' = gray \cup markgray({v})
          ELSE col' = [col EXCEPT ![o] = "white"] /\ UNCHANGED gray
     ELSE UNCHANGED <<col, gray>>
  /\ UNCHANGED <<grayagain, weak>>

\* Mutant: a table that is already gray is queued again.
luaC_barriertable_any(t, S) ==
  /\ IF Whitened(S) # {} /\ ~iswhite(t)
     THEN col' = [col EXCEPT ![t] = "gray"] /\ grayagain' = grayagain \cup {t}
     ELSE UNCHANGED <<col, grayagain>>
  /\ UNCHANGED <<gray, weak>>

\* Mutant: no barrier in the second propagation.
luaC_barriertable_once(t, S) ==
  /\ IF col[t] = "black" /\ Whitened(S) # {} /\ gcstate # "propagateagain"
     THEN col' = [col EXCEPT ![t] = "gray"] /\ grayagain' = grayagain \cup {t}
     ELSE UNCHANGED <<col, grayagain>>
  /\ UNCHANGED <<gray, weak>>

\* luaC_barriert of each object of S
luaC_barriertable(t, S) ==
  /\ IF col[t] = "black" /\ Whitened(S) # {}
     THEN IF gcstate = "propagateagain"
          THEN /\ col' = markcol(S)
               /\ gray' = gray \cup markgray(S)
               /\ UNCHANGED grayagain
          ELSE /\ col' = [col EXCEPT ![t] = "gray"]
               /\ grayagain' = grayagain \cup {t}
               /\ UNCHANGED gray
     ELSE UNCHANGED <<col, gray, grayagain>>
  /\ UNCHANGED weak

\* Mutant: an inactive thread is left black when it is written to.
luaC_threadbarrier_none(t) == UNCHANGED <<col, lists>>

luaC_threadbarrier(t) ==
  /\ IF col[t] = "black"
     THEN /\ col' = [col EXCEPT ![t] = "gray"]
          /\ grayagain' = grayagain \cup {t}
     ELSE UNCHANGED <<col, grayagain>>
  /\ UNCHANGED <<gray, weak>>

(***************************************************************************)
(* The running program.  It runs only between two steps of the collector.  *)
(***************************************************************************)
Mutator == full = "no" /\ ~InAtomic

\* The objects the running thread can name.
Hand == LiveSlots(run) \cup {Globals}

\* What the program can read through an object it names.
Readable(x) ==
  IF x \in Table THEN refs[x] \cup ({meta[x]} \ {Nil})
  ELSE IF x \in Function
    THEN (refs[x] \ Upval) \cup UNION {UpvalValue(u) : u \in refs[x] \cap Upval}
  ELSE {}

\* A register of the running thread is written.
Put(i, v) ==
  /\ i <= top[run] + 1
  /\ stack' = [stack EXCEPT ![run][i] = v]
  /\ top'   = [top EXCEPT ![run] = IF i > @ THEN i ELSE @]

NewObject(o, i) ==
  /\ Mutator
  /\ o \in (Table \cup Thread \cup String) \ alloc
  /\ alloc' = alloc \cup {o}
  /\ col' = [col EXCEPT ![o] = "white"]
  /\ Put(i, o)
  /\ UNCHANGED <<lists, heap, upvals, control, schedule>>

\* Mutant: a dead string is returned as it is.
luaS_newlstr_dead(s, i) ==
  /\ Mutator
  /\ s \in String \cap alloc
  /\ Put(i, s)
  /\ UNCHANGED <<alloc, col, lists, heap, upvals, control, schedule>>

\* A string that is already in the string table is returned as it is, dead
\* or not: a dead one gets the current white.
luaS_newlstr(s, i) ==
  /\ Mutator
  /\ s \in String \cap alloc
  /\ col' = IF isdead(s) THEN [col EXCEPT ![s] = "white"] ELSE col
  /\ Put(i, s)
  /\ UNCHANGED <<alloc, lists, heap, upvals, control, schedule>>

Load(i) ==
  /\ Mutator
  /\ \E x \in Hand : \E v \in Readable(x) : Put(i, v)
  /\ UNCHANGED <<alloc, col, lists, heap, upvals, control, schedule>>

\* The entries of h after h[k] = v.
Stored(h, k, v) ==
  {e \in node[h] : k = Nil \/ e.key # k} \cup {[key |-> k, val |-> v]}

\* newkey has a barrier for the key, when it is new, and every store one for
\* the value.
Barriered(h, k, v) == (({k} \ {e.key : e \in node[h]}) \cup {v}) \ {Nil}

lua_v_settable(h, k, v) ==
  /\ Mutator
  /\ h \in Hand \cap Table
  /\ {k, v} \subseteq Hand \cup {Nil} /\ {k, v} # {Nil}
  /\ Cardinality(Stored(h, k, v)) <= MaxRefs
  /\ node' = [node EXCEPT ![h] = Stored(h, k, v)]
  /\ luaC_barriertable(h, Barriered(h, k, v))
  /\ UNCHANGED <<alloc, cells, meta, stacks, upvals, control, schedule>>

\* A nil is stored over an entry.
Erase(h) ==
  /\ Mutator
  /\ h \in Hand \cap Table
  /\ \E e \in node[h] : node' = [node EXCEPT ![h] = @ \ {e}]
  /\ UNCHANGED <<alloc, col, lists, cells, meta, stacks, upvals, control, schedule>>

lua_setmetatable(h, m) ==
  /\ Mutator
  /\ h \in Hand \cap Table
  /\ m \in (Hand \cap WeakMeta) \cup {Nil}
  /\ meta[h] # m
  /\ meta' = [meta EXCEPT ![h] = m]
  /\ IF m = Nil THEN UNCHANGED <<col, lists>> ELSE luaC_barrierf(h, m)
  /\ UNCHANGED <<alloc, node, cells, stacks, upvals, control, schedule>>

\* The slots of the running thread above its top, up to n, become nil.
Cleared(n) ==
  [i \in Slot |-> IF top[run] < i /\ i <= n THEN Nil ELSE stack[run][i]]

\* Values are popped, at a return too, which closes the captured slots first,
\* or nils are pushed.
lua_settop(n) ==
  /\ Mutator
  /\ n # top[run]
  /\ \A u \in OpenUpvals(run) : uvslot[u] <= n
  /\ top' = [top EXCEPT ![run] = n]
  /\ stack' = [stack EXCEPT ![run] = Cleared(n)]
  /\ UNCHANGED <<alloc, col, lists, heap, upvals, control, schedule>>

\* A function is entered: its parameters up to p that got no argument are nil,
\* and its other registers hold whatever was there before.  (Without any of
\* those it is like lua_settop.)
luau_precall(p, n) ==
  /\ Mutator
  /\ top[run] < n /\ p < n
  /\ top' = [top EXCEPT ![run] = n]
  /\ stack' = [stack EXCEPT ![run] = Cleared(p)]
  /\ UNCHANGED <<alloc, col, lists, heap, upvals, control, schedule>>

(***************************************************************************)
(* Closures and upvalues.                                                  *)
(***************************************************************************)
\* LOP_NEWCLOSURE with a capture by value, or of an upvalue of a function in
\* reach: both copy a reference into the new closure.
NewClosure(f, i) ==
  /\ Mutator
  /\ f \in Function \ alloc
  /\ alloc' = alloc \cup {f}
  /\ col' = [col EXCEPT ![f] = "white"]
  /\ \E v \in Hand \cup UNION {refs[g] \cap Upval : g \in Hand \cap Function} :
       cells' = [cells EXCEPT ![f] = {v}]
  /\ Put(i, f)
  /\ UNCHANGED <<lists, node, meta, upvals, control, schedule>>

\* LOP_NEWCLOSURE with a capture by reference of slot s: luaF_findupval
\* reuses the slot's open upvalue or makes one.
NewClosureRef(f, i, s, u) ==
  /\ Mutator
  /\ f \in Function \ alloc
  /\ Put(i, f)
  /\ s <= top'[run]
  /\ \/ /\ u \in OpenUpvals(run) /\ uvslot[u] = s
        /\ alloc' = alloc \cup {f}
        /\ col' = [col EXCEPT ![f] = "white"]
        /\ UNCHANGED upvals
     \/ /\ \A w \in OpenUpvals(run) : uvslot[w] # s
        /\ u \in Upval \ alloc
        /\ alloc' = alloc \cup {f, u}
        /\ col' = [col EXCEPT ![f] = "white", ![u] = "white"]
        /\ uvthread' = [uvthread EXCEPT ![u] = run]
        /\ uvslot' = [uvslot EXCEPT ![u] = s]
        /\ markedopen' = [markedopen EXCEPT ![u] = FALSE]
  /\ cells' = [cells EXCEPT ![f] = {u}]
  /\ UNCHANGED <<lists, node, meta, control, schedule>>

\* LOP_SETUPVAL.  The slot of an open upvalue may belong to any thread, and
\* that thread gets no barrier.
SetUpval(f, v) ==
  /\ Mutator
  /\ f \in Hand \cap Function
  /\ v \in Hand
  /\ \E u \in refs[f] \cap Upval :
       /\ IF uvthread[u] # Nil
          THEN /\ stack' = [stack EXCEPT ![uvthread[u]][uvslot[u]] = v]
               /\ UNCHANGED cells
          ELSE cells' = [cells EXCEPT ![u] = {v}] /\ UNCHANGED stack
       /\ luaC_barrierf(u, v)
  /\ UNCHANGED <<alloc, node, meta, top, upvals, control, schedule>>

\* Mutant: a closed upvalue turns black without a barrier for its value.
luaF_close_nobarrier(U) ==
  /\ cells' = [x \in DOMAIN cells |-> IF x \in U THEN UpvalValue(x) ELSE cells[x]]
  /\ uvthread' = [u \in Upval |-> IF u \in U THEN Nil ELSE uvthread[u]]
  /\ markedopen' = [u \in Upval |-> u \notin U /\ markedopen[u]]
  /\ col' = [o \in Obj |-> IF o \in U /\ col[o] = "gray" THEN "black" ELSE col[o]]
  /\ UNCHANGED <<uvslot, gray>>

\* luaF_close of the upvalues U: each takes the value of its slot, and
\* luaC_upvalclosed repairs the colour of the gray ones.
luaF_close(U) ==
  LET GrayU == {u \in U : col[u] = "gray"}
      V == IF keepinvariant THEN UNION {UpvalValue(u) : u \in GrayU} ELSE {}
  IN /\ cells' = [x \in DOMAIN cells |-> IF x \in U THEN UpvalValue(x) ELSE cells[x]]
     /\ uvthread' = [u \in Upval |-> IF u \in U THEN Nil ELSE uvthread[u]]
     /\ markedopen' = [u \in Upval |-> u \notin U /\ markedopen[u]]
     /\ col' = [o \in Obj |->
                  IF o \in GrayU
                  THEN IF keepinvariant THEN "black" ELSE "white"
                  ELSE markcol(V)[o]]
     /\ gray' = gray \cup markgray(V)
     /\ UNCHANGED uvslot

CloseUpvals(level) ==
  LET U == {u \in OpenUpvals(run) : uvslot[u] >= level}
  IN /\ Mutator
     /\ U # {}
     /\ luaF_close(U)
     /\ UNCHANGED <<alloc, grayagain, weak, node, meta, stacks, control, schedule>>

(***************************************************************************)
(* Threads.                                                                *)
(***************************************************************************)
\* Mutant: a thread that runs or waits for another is resumed.
Resume_any(co) ==
  /\ Mutator
  /\ co \in (Hand \cap Thread) \ {Main}
  /\ from' = [from EXCEPT ![co] = run]
  /\ run' = co
  /\ luaC_threadbarrier(co)
  /\ UNCHANGED <<alloc, heap, stacks, upvals, control>>

Resume(co) ==
  /\ Mutator
  /\ co \in (Hand \cap Thread) \ {Main, run}
  /\ ~isactive(co)
  /\ from' = [from EXCEPT ![co] = run]
  /\ run' = co
  /\ luaC_threadbarrier(co)
  /\ UNCHANGED <<alloc, heap, stacks, upvals, control>>

\* The running thread yields, finishes or fails.
Yield ==
  /\ Mutator
  /\ run # Main
  /\ run' = from[run]
  /\ from' = [from EXCEPT ![run] = Nil]
  /\ UNCHANGED <<alloc, col, lists, heap, stacks, upvals, control>>

\* Mutant: the room on the destination's stack is not checked.
lua_xmove_full(src, dst) ==
  /\ Mutator
  /\ {src, dst} \subseteq Hand \cup {run} /\ src # dst
  /\ top[src] > 0
  /\ \A u \in OpenUpvals(src) : uvslot[u] < top[src]
  /\ stack' = [stack EXCEPT ![dst][top[dst] + 1] = stack[src][top[src]]]
  /\ top' = [top EXCEPT ![dst] = @ + 1, ![src] = @ - 1]
  /\ luaC_threadbarrier(dst)
  /\ UNCHANGED <<alloc, heap, upvals, control, schedule>>

\* lua_xmove of one value, a temporary of src that no closure has captured.
lua_xmove(src, dst) ==
  /\ Mutator
  /\ {src, dst} \subseteq Hand \cup {run} /\ src # dst
  /\ top[src] > 0 /\ top[dst] < NSlots
  /\ \A u \in OpenUpvals(src) : uvslot[u] < top[src]
  /\ stack' = [stack EXCEPT ![dst][top[dst] + 1] = stack[src][top[src]]]
  /\ top' = [top EXCEPT ![dst] = @ + 1, ![src] = @ - 1]
  /\ luaC_threadbarrier(dst)
  /\ UNCHANGED <<alloc, heap, upvals, control, schedule>>

lua_resetthread(co) ==
  /\ Mutator
  /\ co \in (Hand \cap Thread) \ {Main, run}
  /\ ~isactive(co)
  /\ luaF_close(OpenUpvals(co))
  /\ stack' = [stack EXCEPT ![co] = [i \in Slot |-> Nil]]
  /\ top' = [top EXCEPT ![co] = 0]
  /\ UNCHANGED <<alloc, grayagain, weak, node, meta, control, schedule>>

(***************************************************************************)
(* The collector.                                                          *)
(***************************************************************************)
Roots == {Main, Globals}

\* The lists start empty: nothing on them survives from the sweep.
MarkRoots ==
  /\ col' = markcol(Roots)
  /\ gray' = markgray(Roots)
  /\ grayagain' = {} /\ weak' = {}
  /\ gcstate' = "propagate"

markroot ==
  /\ full = "no" /\ gcstate = "pause"
  /\ MarkRoots
  /\ UNCHANGED <<alloc, heap, stacks, upvals, unswept, full, schedule>>

\* Mutant: only suspended threads mark their upvalues as open.
MarkOpen_inactive(o) ==
  [u \in Upval |-> markedopen[u] \/
     (o \in Thread /\ ~isactive(o) /\ o # Main /\ u \in OpenUpvals(o))]

\* The upvalues of a thread that is traversed stay open.
MarkOpen(o) ==
  [u \in Upval |-> markedopen[u] \/ (o \in Thread /\ u \in OpenUpvals(o))]

propagatemark(o) ==
  LET rescan == o \in Thread /\ (isactive(o) \/ o = Main)
      clear  == o \in Thread /\ (~rescan \/ InAtomic)
      stays  == rescan \/ (o \in Table /\ isweak(o))
  IN /\ gcstate \in {"propagate", "propagateagain"} \/ InAtomic
     /\ o \in gray
     /\ col' = [markcol(Children(o)) EXCEPT ![o] = IF stays THEN "gray" ELSE "black"]
     /\ gray' = (gray \ {o}) \cup markgray(Children(o))
     /\ grayagain' = IF rescan THEN grayagain \cup {o} ELSE grayagain
     /\ weak' = IF o \in Table /\ isweak(o) THEN weak \cup {o} ELSE weak
     /\ markedopen' = MarkOpen(o)
     /\ stack' = IF ~clear THEN stack
                 ELSE [stack EXCEPT ![o] =
                         [i \in Slot |-> IF i > top[o] THEN Nil ELSE @[i]]]
     /\ UNCHANGED <<alloc, heap, top, uvthread, uvslot, control, schedule>>

PropagateDone ==
  /\ gcstate = "propagate" /\ gray = {}
  /\ gray' = grayagain /\ grayagain' = {}
  /\ gcstate' = "propagateagain"
  /\ UNCHANGED <<alloc, col, weak, heap, stacks, upvals,
                 unswept, full, schedule>>

\* Mutant: the second propagation goes on until nothing is left for later.
PropagateAgainDone_drain ==
  /\ gcstate = "propagateagain" /\ gray = {}
  /\ gray' = grayagain /\ grayagain' = {}
  /\ gcstate' = IF grayagain = {} THEN "atomic" ELSE "propagateagain"
  /\ UNCHANGED <<alloc, col, weak, heap, stacks, upvals,
                 unswept, full, schedule>>

PropagateAgainDone ==
  /\ gcstate = "propagateagain" /\ gray = {}
  /\ gcstate' = "atomic"
  /\ UNCHANGED <<alloc, col, lists, heap, stacks, upvals,
                 unswept, full, schedule>>

\* atomic() up to its first propagateall
remarkupvals ==
  LET V == UNION {UpvalValue(u) : u \in {w \in Open : col[w] = "gray"}}
  IN /\ gcstate = "atomic"
     /\ col' = markcol(V)
     /\ gray' = gray \cup markgray(V)
     /\ gcstate' = "atomic1"
     /\ UNCHANGED <<alloc, grayagain, weak, heap, stacks, upvals,
                    unswept, full, schedule>>

\* Mutant: tables that were weak once are not looked at again.
AtomicWeak_once ==
  /\ gcstate = "atomic1" /\ gray = {}
  /\ col' = markcol({run})
  /\ gray' = markgray({run})
  /\ gcstate' = "atomic2"
  /\ UNCHANGED <<alloc, grayagain, weak, heap, stacks, upvals,
                 unswept, full, schedule>>

\* the weak tables once more, and the running thread
AtomicWeak ==
  /\ gcstate = "atomic1" /\ gray = {}
  /\ col' = markcol({run})
  /\ gray' = weak \cup markgray({run})
  /\ weak' = {}
  /\ gcstate' = "atomic2"
  /\ UNCHANGED <<alloc, grayagain, heap, stacks, upvals,
                 unswept, full, schedule>>

\* what the barriers and the active threads left for the end
AtomicGrayAgain ==
  /\ gcstate = "atomic2" /\ gray = {}
  /\ gray' = grayagain /\ grayagain' = {}
  /\ gcstate' = "atomic3"
  /\ UNCHANGED <<alloc, col, weak, heap, stacks, upvals,
                 unswept, full, schedule>>

\* What is not collectable is never cleared, and strings are values.
iscleared(o) == o \notin String \cup {Nil} /\ iswhite(o)

\* Mutant: strings are taken out of a weak table like other objects.
cleartable_strings(h) == {e \in node[h] : Whitened({e.key, e.val} \ {Nil}) = {}}

\* The entries cleartable leaves in a weak table: one goes as a whole when its
\* key or its value is to be cleared.
cleartable(h) == {e \in node[h] : ~iscleared(e.key) /\ ~iscleared(e.val)}

\* The strings isobjcleared marks: it is not asked about the value when the
\* key is cleared already.
stringmark(h) == Objects({e \in node[h] : ~iscleared(e.key)}) \cap String

\* Open upvalues no live thread has: the white ones are unlinked, the others
\* are closed.
Orphans == {u \in Open : ~markedopen[u]}

\* atomic() after its last propagateall: cleartable, clearupvals, the flip of
\* the whites and the start of the sweep
AtomicEnd ==
  LET kept   == UNION {stringmark(h) : h \in weak}
      closed == {u \in Orphans : ~iswhite(u)}
      marks  == kept \cup UNION {UpvalValue(u) : u \in closed}
  IN /\ gcstate = "atomic3" /\ gray = {}
     /\ node' = [h \in Table |-> IF h \in weak THEN cleartable(h) ELSE node[h]]
     /\ cells' = [x \in DOMAIN cells |->
                    IF x \in closed THEN UpvalValue(x) ELSE cells[x]]
     /\ uvthread' = [u \in Upval |-> IF u \in Orphans THEN Nil ELSE uvthread[u]]
     /\ col' = [o \in Obj |->
                  IF o \in closed THEN "black"
                  ELSE IF o \in alloc /\ markcol(marks)[o] = "white" THEN "dead"
                  ELSE markcol(marks)[o]]
     /\ markedopen' = [u \in Upval |-> FALSE]
     /\ weak' = {}
     /\ unswept' = alloc \ {Main}
     /\ gcstate' = "sweep"
     /\ UNCHANGED <<alloc, gray, grayagain, meta, stacks, uvslot, full, schedule>>

\* freeobj for every object of D; a free address has no contents.
Free(D) ==
  /\ alloc' = alloc \ D
  /\ node' = [h \in Table |-> IF h \in D THEN {} ELSE node[h]]
  /\ cells' = [x \in DOMAIN cells |-> IF x \in D THEN {} ELSE cells[x]]
  /\ meta' = [x \in Table |-> IF x \in D THEN Nil ELSE meta[x]]
  /\ stack' = [t \in Thread |-> IF t \in D THEN [i \in Slot |-> Nil] ELSE stack[t]]
  /\ top' = [t \in Thread |-> IF t \in D THEN 0 ELSE top[t]]

\* A dead object is freed, another one gets the current white.
sweepgcopage(o) ==
  /\ gcstate = "sweep"
  /\ o \in unswept
  /\ unswept' = unswept \ {o}
  /\ Free({x \in {o} : isdead(x)})
  /\ col' = [col EXCEPT ![o] = "white"]
  /\ UNCHANGED <<lists, upvals, gcstate, full, schedule>>

\* The main thread is in no page.
SweepDone ==
  /\ gcstate = "sweep" /\ unswept = {}
  /\ col' = [col EXCEPT ![Main] = "white"]
  /\ gcstate' = "pause"
  /\ UNCHANGED <<alloc, lists, heap, stacks, upvals,
                 unswept, full, schedule>>

(***************************************************************************)
(* lua_c_fullgc: a cycle that is under way is abandoned by sweeping without*)
(* a flip of the whites, then a whole cycle runs.  The program waits.      *)
(***************************************************************************)
\* The sweep loop of lua_c_fullgc, up to "pause": what is left of a sweep that
\* is under way, or every page.
FullSweep(D) ==
  /\ Free({x \in D : isdead(x)})
  /\ col' = [x \in Obj |-> IF x \in D \cup {Main} THEN "white" ELSE col[x]]
  /\ unswept' = {}
  /\ gcstate' = "pause"
  /\ full' = "swept"
  /\ UNCHANGED <<upvals, schedule>>

\* Mutant: a cycle that is under way is taken for the full one.
FullBegin_continue ==
  /\ Mutator
  /\ IF keepinvariant
     THEN full' = "mark" /\ UNCHANGED <<alloc, col, heap, stacks, upvals, gcstate, unswept, schedule>>
     ELSE FullSweep(unswept)
  /\ UNCHANGED lists

FullBegin ==
  /\ Mutator
  /\ IF keepinvariant
     THEN /\ gray' = {} /\ grayagain' = {} /\ weak' = {}
          /\ FullSweep(alloc \ {Main})
     ELSE FullSweep(unswept) /\ UNCHANGED lists

\* Mutant: markedopen keeps the bits of the abandoned cycle.
FullMark_stale ==
  /\ full = "swept"
  /\ MarkRoots
  /\ full' = "mark"
  /\ UNCHANGED <<alloc, heap, stacks, upvals, unswept, schedule>>

FullMark ==
  /\ full = "swept"
  /\ markedopen' = [u \in Upval |-> FALSE]
  /\ MarkRoots
  /\ full' = "mark"
  /\ UNCHANGED <<alloc, heap, stacks, uvthread, uvslot,
                 unswept, schedule>>

FullEnd ==
  /\ full = "mark" /\ gcstate = "pause"
  /\ full' = "no"
  /\ UNCHANGED <<alloc, col, lists, heap, stacks, upvals,
                 gcstate, unswept, schedule>>

(***************************************************************************)
(* The specification.                                                      *)
(***************************************************************************)
Init ==
  /\ alloc = {Main, Globals}
  /\ col = [o \in Obj |-> "white"]
  /\ gcstate = "pause"
  /\ gray = {} /\ grayagain = {} /\ weak = {}
  /\ unswept = {}
  /\ full = "no"
  /\ node = [h \in Table |-> {}]
  /\ cells = [x \in Function \cup Upval |-> {}]
  /\ meta = [x \in Table |-> Nil]
  /\ stack = [t \in Thread |-> [i \in Slot |-> Nil]]
  /\ top = [t \in Thread |-> 0]
  /\ from = [t \in Thread |-> Nil]
  /\ run = Main
  /\ uvthread = [u \in Upval |-> Nil]
  /\ uvslot = [u \in Upval |-> 1]
  /\ markedopen = [u \in Upval |-> FALSE]

Program ==
  \/ \E i \in Slot :
       \/ \E o \in Obj : NewObject(o, i)
       \/ \E s \in String : luaS_newlstr(s, i)
       \/ Load(i)
       \/ \E f \in Function : NewClosure(f, i)
       \/ \E f \in Function, s \in Slot, u \in Upval : NewClosureRef(f, i, s, u)
       \/ CloseUpvals(i)
  \/ \E h \in Table :
       \/ \E k \in Keys \cup {Nil}, v \in Value : lua_v_settable(h, k, v)
       \/ Erase(h)
       \/ \E m \in WeakMeta \cup {Nil} : lua_setmetatable(h, m)
  \/ \E n \in 0..NSlots :
       lua_settop(n) \/ \E p \in 0..NSlots : luau_precall(p, n)
  \/ \E f \in Function, v \in Value \ {Nil} : SetUpval(f, v)
  \/ \E co \in Thread : Resume(co) \/ lua_resetthread(co)
  \/ \E src, dst \in Thread : lua_xmove(src, dst)
  \/ Yield

gcstep ==
  \/ markroot
  \/ \E o \in Obj : propagatemark(o)
  \/ PropagateDone
  \/ PropagateAgainDone
  \/ remarkupvals
  \/ AtomicWeak
  \/ AtomicGrayAgain
  \/ AtomicEnd
  \/ \E o \in Obj : sweepgcopage(o)
  \/ SweepDone
  \/ FullMark
  \/ FullEnd

Next == Program \/ gcstep \/ FullBegin

Spec == Init /\ [][Next]_vars

\* What runs to its end once it is begun, because the program waits for it:
\* atomic() and lua_c_fullgc.  Every other step of the collector needs a
\* program that reaches luaC_checkGC over the threshold, in an instruction that
\* allocates or at the end of a C call, and no fairness is assumed of that.
FairSpec == Spec /\ WF_vars((InAtomic \/ full # "no") /\ gcstep)

(***************************************************************************)
(* Properties.                                                             *)
(***************************************************************************)
\* The type invariant: every variable keeps its shape, only objects that can
\* be traversed wait on a gray list, and upvalue objects are held by closures
\* alone.
TypeOK ==
  /\ alloc \subseteq Obj
  /\ col \in [Obj -> Colour]
  /\ gcstate \in GCStates
  /\ gray \cup grayagain \subseteq Table \cup Function \cup Thread
  /\ weak \subseteq Table
  /\ unswept \subseteq Obj
  /\ full \in {"no", "swept", "mark"}
  /\ node \in [Table -> SUBSET Entry]
  /\ cells \in [Function \cup Upval -> SUBSET Obj]
  /\ \A u \in Upval : cells[u] \subseteq Obj \ Upval
  /\ meta \in [Table -> Table \cup {Nil}]
  /\ stack \in [Thread -> [Slot -> Value]]
  /\ top \in [Thread -> 0..NSlots]
  /\ from \in [Thread -> Thread \cup {Nil}]
  /\ run \in Thread
  /\ uvthread \in [Upval -> Thread \cup {Nil}]
  /\ uvslot \in [Upval -> Slot]
  /\ markedopen \in [Upval -> BOOLEAN]

\* resume_start and resume_finish: the threads that wait for one they resumed
\* form a chain from the main thread to the running one, which nobody below it
\* is in twice.
ResumeChain ==
  /\ run # Main => isactive(run)
  /\ ~isactive(Main)
  /\ \A t \in Thread : isactive(t) =>
       /\ from[t] # run
       /\ from[t] # Main => isactive(from[t])
       /\ \A u \in Thread : from[u] = from[t] => u = t

Alive(o) == o \in alloc /\ ~isdead(o)

\* Everything an object's memory refers to, stack slots above the top too.
Held(o) ==
  IF o \in Table THEN refs[o] \cup ({meta[o]} \ {Nil})
  ELSE IF o \in Thread
    THEN ({stack[o][i] : i \in Slot} \ {Nil}) \cup Resumed(o) \cup OpenUpvals(o)
  ELSE IF o \in Upval
    THEN IF uvthread[o] # Nil THEN {uvthread[o]} ELSE refs[o]
  ELSE IF o \in Function THEN refs[o]
  ELSE {}

\* What lua_c_validate asserts with isdead and checkliveness at every object,
\* and freeobj needs: nothing that is alive refers to an object that is dead
\* or already freed, and the roots and the threads that run are alive.
NoDanglingReference ==
  /\ \A o \in Obj : Alive(o) => \A r \in Held(o) : Alive(r)
  /\ Alive(Main) /\ Alive(Globals) /\ Alive(run)
  /\ \A t \in Thread : isactive(t) => Alive(t) /\ Alive(from[t])

\* validateobjref: while the collector marks, a black object refers to no
\* white one.  A black thread is covered except for slots that an open (gray)
\* upvalue will mark again in remarkupvals.
Strong(o) ==
  IF o \in Thread
  THEN OpenUpvals(o) \cup
       ({stack[o][i] : i \in {j \in 1..top[o] :
                                \A u \in OpenUpvals(o) : uvslot[u] # j}} \ {Nil})
  ELSE Held(o)

BlackNeverToWhite ==
  keepinvariant =>
    \A o \in alloc : col[o] = "black" => \A r \in Strong(o) : ~iswhite(r)

\* validategraylist, and its converse: while the collector marks, an object
\* is gray and waits to be traversed exactly when it is on a list, and it is
\* on one list only (all three use the same gclist field).
GrayLists ==
  keepinvariant =>
    /\ gray \cup grayagain \cup weak
         = {o \in alloc \ (Upval \cup String) : col[o] = "gray"}
    /\ gray \cap grayagain = {}
    /\ (gray \cup grayagain) \cap weak = {}

\* luaF_findupval, luaF_close and clearupvals: an open upvalue that is alive
\* is never black, its thread is alive and has at most one upvalue for a slot,
\* and the slot is below the thread's top.
OpenUpvalues ==
  \A u \in Open : Alive(u) =>
    /\ col[u] # "black"
    /\ Alive(uvthread[u])
    /\ uvslot[u] <= top[uvthread[u]]
    /\ \A w \in OpenUpvals(uvthread[u]) : uvslot[w] = uvslot[u] => w = u
=============================================================================
