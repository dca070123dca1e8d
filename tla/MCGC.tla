------------------------------- MODULE MCGC --------------------------------
(***************************************************************************)
(* LuaGC for TLC: what it checks against is the set of objects that can be *)
(* reached from the roots.                                                 *)
(***************************************************************************)
EXTENDS LuaGC

\* References that keep an object: strings in a weak table are kept too.
Keeps(o) ==
  IF o \in Table /\ isweak(o) THEN traversetable(o) \cup (refs[o] \cap String)
  ELSE IF o \in Upval THEN UpvalValue(o)
  ELSE IF o \in String THEN {}
  ELSE Children(o)

\* The least set that contains the roots and is closed under the edges
ReachableBy(Edges(_)) ==
  LET Closed(S) == {Main, Globals, run} \subseteq S /\ \A o \in S : Edges(o) \subseteq S
  IN {o \in Obj : \A S \in SUBSET Obj : Closed(S) => o \in S}

Reachable == ReachableBy(Keeps)

\* sweepgcopage frees an object only when no root leads to it.  This is what
\* a program sees of the whole collector: marking, barriers, the atomic phase
\* and the sweep, whatever the program did between their steps.
FreesOnlyGarbage == [][\A o \in alloc \ alloc' : o \notin Reachable]_vars

\* cleartable takes an entry out of a weak table only when its key or its value
\* is an object that no root leads to.  (The other half of the entry may well
\* be reachable: it leaves the table all the same.)
ClearsOnlyGarbage ==
  [][gcstate = "atomic3" =>
       \A h \in Table : \A e \in node[h] \ node'[h] :
         ~ {e.key, e.val} \subseteq Reachable \cup {Nil}]_vars

\* clearupvals closes an upvalue only when its thread cannot be resumed again.
ClosesOnlyOrphans ==
  [][gcstate = "atomic3" =>
       \A u \in Open : uvthread'[u] = Nil => uvthread[u] \notin Reachable]_vars

\* lua_c_fullgc returns with no garbage left, even when it interrupts a cycle
\* that had already marked objects that are garbage by now.  (Strings are left
\* out: the string key of an entry whose value is cleared has been marked.)
FullCollects ==
  [][full = "mark" /\ full' = "no" => alloc \ String \subseteq Reachable]_vars

\* A register above the top can come back to life when a function is entered,
\* so only what no slot at all leads to is lost for the program.
Lost(o) ==
  LET KeepsStale(x) == IF x \in Thread THEN Held(x) ELSE Keeps(x)
  IN o \in alloc /\ o \notin ReachableBy(KeepsStale)

\* As long as luaC_checkGC steps the collector again and again, gcstep frees
\* every object that the program has lost: no write or barrier of the program
\* can keep a cycle from ending, however few steps it gets.  (A string may be
\* found again in the string table, so strings are left out.)
GarbageIsFreed ==
  []<><<gcstep>>_vars =>
    \A o \in Obj \ (String \cup Roots) : Lost(o) ~> o \notin alloc
=============================================================================
