----------------------------- MODULE LuaGCApi ------------------------------
(***************************************************************************)
(* Two functions of the embedding API whose barriers are not those of the  *)
(* instructions LuaGC models.  Each is added to LuaGC by itself.           *)
(***************************************************************************)
EXTENDS MCGC

\* aux_upvalue: the value v is written to the upvalue r of the closure f, in
\* the stack slot of an open one, in a closed one, or in the closure itself.
Written(f, r, v) ==
  IF r \in Upval /\ uvthread[r] # Nil
  THEN [stk |-> [stack EXCEPT ![uvthread[r]][uvslot[r]] = v], cls |-> cells]
  ELSE [stk |-> stack,
        cls |-> IF r \in Upval
                THEN [cells EXCEPT ![r] = {v} \ {Nil}]
                ELSE [cells EXCEPT ![f] = (@ \ {r}) \cup ({v} \ {Nil})]]

\* lua_setupvalue pops v into an upvalue of the closure in slot i.  Its
\* barrier is given the address of the stack slot in place of the closure:
\* isblack then tests a bit of the closure's address, which may be clear or
\* set.  Outside of marking, makewhite writes its colour over a byte of the
\* slot, which then holds no object any more.
lua_setupvalue(i) ==
  LET f == stack[run][i]
      v == stack[run][top[run]]
  IN /\ Mutator
     /\ i <= top[run] /\ f \in Function
     /\ \A u \in OpenUpvals(run) : uvslot[u] < top[run]
     /\ top' = [top EXCEPT ![run] = @ - 1]
     /\ \E r \in refs[f] :
          LET w == Written(f, r, v)
          IN /\ cells' = w.cls
             /\ \/ stack' = w.stk /\ UNCHANGED <<col, lists>>
                \/ /\ keepinvariant /\ v # Nil /\ iswhite(v)
                   /\ stack' = w.stk
                   /\ col' = markcol({v}) /\ gray' = gray \cup markgray({v})
                   /\ UNCHANGED <<grayagain, weak>>
                \/ /\ ~keepinvariant /\ v # Nil /\ iswhite(v)
                   /\ stack' = [w.stk EXCEPT ![run][i] = Nil]
                   /\ UNCHANGED <<col, lists>>
     /\ UNCHANGED <<alloc, node, meta, upvals, control, schedule>>

SetUpvalueSpec == Init /\ [][Next \/ \E i \in Slot : lua_setupvalue(i)]_vars

\* lua_clonetable pushes a copy of h, new and white, on the stack of th,
\* which any API function may be called with, and has no thread barrier.
lua_clonetable(th, h, t) ==
  /\ Mutator
  /\ th \in (Hand \cap Thread) \cup {run}
  /\ h \in Hand \cap Table
  /\ t \in Table \ alloc
  /\ top[th] < NSlots
  /\ alloc' = alloc \cup {t}
  /\ col' = [col EXCEPT ![t] = "white"]
  /\ node' = [node EXCEPT ![t] = node[h]]
  /\ meta' = [meta EXCEPT ![t] = meta[h]]
  /\ stack' = [stack EXCEPT ![th][top[th] + 1] = t]
  /\ top' = [top EXCEPT ![th] = @ + 1]
  /\ UNCHANGED <<lists, cells, upvals, control, schedule>>

CloneTableSpec ==
  Init /\ [][Next \/ \E th \in Thread, h, t \in Table : lua_clonetable(th, h, t)]_vars
=============================================================================
