------------------------------ MODULE Registry ------------------------------
(***************************************************************************)
(* References from Rust to Lua values: lua_ref and lua_unref of the VM,    *)
(* and LuaRef and RegistryKey of crates/luaur-rt.                          *)
(*                                                                         *)
(* The registry is a Lua table.  A slot holds the value of the LuaRef that *)
(* owns it; the slots nobody owns are a list threaded through the table:   *)
(* registryfree is its head and each slot holds the number of the next.    *)
(* Values may be numbers too, so nothing but the handles tells a free slot *)
(* from one in use.                                                        *)
(***************************************************************************)
EXTENDS Naturals

CONSTANTS
  Ref,        \* LuaRefs; one is used again after it was dropped
  Value,      \* values a program stores, except nil
  NilValue,
  None,
  MaxSlots,   \* slots the allocator has memory for
  MaxClones   \* bound: clones of a key

ASSUME RegistryAssumption ==
  /\ MaxSlots \in Nat /\ MaxClones \in Nat \ {0}
  /\ NilValue \notin Value /\ None \notin Value \cup {NilValue}
  /\ None \notin 0..MaxSlots /\ NilValue \notin 0..MaxSlots

VARIABLES
  slot,         \* the array of the registry table
  size,         \* luaH_getn of it: all entries up to there are not nil
  registryfree,
  id,           \* LuaRef::id; None for a LuaRef that does not exist
  strong        \* the count of the XRc that shares a LuaRef

table == <<slot, size, registryfree>>
vars == <<table, id, strong>>

Slots == 1..MaxSlots
LUA_REFNIL == 0

\* Mutant: the value is stored before the next free slot is read.
lua_ref_late(r, v) ==
  LET i == IF registryfree # 0 THEN registryfree ELSE size + 1
  IN IF v = NilValue
     THEN /\ id' = [id EXCEPT ![r] = LUA_REFNIL]
          /\ UNCHANGED table
     ELSE /\ i \in Slots
          /\ id' = [id EXCEPT ![r] = i]
          /\ slot' = [slot EXCEPT ![i] = v]
          /\ size' = IF registryfree # 0 THEN size ELSE i
          /\ registryfree' = IF registryfree # 0 THEN slot'[i] ELSE 0

\* A LuaRef for v; without memory for one more slot luaH_setnum throws.
lua_ref(r, v) ==
  LET i == IF registryfree # 0 THEN registryfree ELSE size + 1
  IN IF v = NilValue
     THEN /\ id' = [id EXCEPT ![r] = LUA_REFNIL]
          /\ UNCHANGED table
     ELSE /\ i \in Slots
          /\ id' = [id EXCEPT ![r] = i]
          /\ slot' = [slot EXCEPT ![i] = v]
          /\ size' = IF registryfree # 0 THEN size ELSE i
          /\ registryfree' = IF registryfree # 0 THEN slot[i] ELSE 0

\* Mutant: the rest of the list is lost.
lua_unref_last(i) ==
  IF i <= LUA_REFNIL
  THEN UNCHANGED table
  ELSE /\ slot' = [slot EXCEPT ![i] = 0]
       /\ registryfree' = i
       /\ UNCHANGED size

lua_unref(i) ==
  IF i <= LUA_REFNIL
  THEN UNCHANGED table
  ELSE /\ slot' = [slot EXCEPT ![i] = registryfree]
       /\ registryfree' = i
       /\ UNCHANGED size

\* LuaRef::push, lua_rawgeti on the registry; entry 0 is never set
Pushed(r) == IF id[r] = LUA_REFNIL THEN NilValue ELSE slot[id[r]]

(***************************************************************************)
(* Handles.  Each operation on the table holds the lock of the VM.         *)
(***************************************************************************)
\* register_ref, pop_ref, create_registry_value
register_ref(r, v) ==
  /\ id[r] = None
  /\ lua_ref(r, v)
  /\ strong' = [strong EXCEPT ![r] = 1]

\* LuaRef::clone, registry_value: the value is pushed and gets its own slot.
CloneRef(r, q) ==
  /\ strong[r] > 0
  /\ id[q] = None
  /\ lua_ref(q, Pushed(r))
  /\ strong' = [strong EXCEPT ![q] = 1]

\* A RegistryKey, Table, Function ... is cloned: the slot is shared.
CloneHandle(r) ==
  /\ strong[r] > 0 /\ strong[r] < MaxClones
  /\ strong' = [strong EXCEPT ![r] = @ + 1]
  /\ UNCHANGED <<table, id>>

\* Mutant: the count is decremented again.
DropHandle_again(r) ==
  /\ id[r] # None
  /\ strong' = [strong EXCEPT ![r] = @ - 1]
  /\ UNCHANGED <<table, id>>

\* A handle is dropped, remove_registry_value; the last one drops the LuaRef,
\* which first has to wait for the lock.
DropHandle(r) ==
  /\ strong[r] > 0
  /\ strong' = [strong EXCEPT ![r] = @ - 1]
  /\ UNCHANGED <<table, id>>

\* replace_registry_value: the new value is registered, then the old handle of
\* the key is dropped.
replace_registry_value(r, q, v) ==
  /\ strong[r] > 0
  /\ id[q] = None
  /\ lua_ref(q, v)
  /\ strong' = [strong EXCEPT ![r] = @ - 1, ![q] = 1]

\* Mutant: off by one.
DropRef_first(r) ==
  /\ id[r] # None /\ strong[r] = 0
  /\ IF id[r] > 1 THEN lua_unref(id[r]) ELSE UNCHANGED table
  /\ id' = [id EXCEPT ![r] = None]
  /\ UNCHANGED strong

\* LuaRef::drop; it calls lua_unref for real slots only, as lua_unref does.
DropRef(r) ==
  /\ id[r] # None /\ strong[r] = 0
  /\ lua_unref(id[r])
  /\ id' = [id EXCEPT ![r] = None]
  /\ UNCHANGED strong

Init ==
  /\ slot = [i \in Slots |-> NilValue]
  /\ size = 0
  /\ registryfree = 0
  /\ id = [r \in Ref |-> None]
  /\ strong = [r \in Ref |-> 0]

Next ==
  \E r \in Ref :
    \/ \E v \in Value \cup {NilValue} : register_ref(r, v)
    \/ \E q \in Ref : CloneRef(r, q)
    \/ CloneHandle(r)
    \/ DropHandle(r)
    \/ \E q \in Ref, v \in Value \cup {NilValue} : replace_registry_value(r, q, v)
    \/ DropRef(r)

Spec == Init /\ [][Next]_vars

-----------------------------------------------------------------------------
Owned == {id[r] : r \in Ref} \cap Slots
Free  == (1..size) \ Owned

\* Numbers and references are in range, a LuaRef with handles exists, and the
\* entries of the table up to its size are not nil.
TypeOK ==
  /\ slot \in [Slots -> Value \cup {NilValue} \cup 0..MaxSlots]
  /\ size \in 0..MaxSlots
  /\ registryfree \in 0..MaxSlots
  /\ id \in [Ref -> 0..MaxSlots \cup {None}]
  /\ strong \in [Ref -> 0..MaxClones]
  /\ \A r \in Ref : strong[r] > 0 => id[r] # None

\* The numbers found along the list from registryfree on, the least set closed
\* under its links; 0 is the end.
Linked ==
  {i \in 0..MaxSlots : \A S \in SUBSET (0..MaxSlots) :
     registryfree \in S /\ (\A x \in S \ {0} : slot[x] \in 0..MaxSlots => slot[x] \in S)
       => i \in S}

\* The list that lua_unref threads through the table holds exactly the slots
\* nobody owns, and ends: no slot is lost, none is handed out twice.
FreeListExact == Linked = Free \cup {0}

\* The table only grows when every slot of it is in use: released slots are
\* used again.
GrowsOnlyWhenFull == [][size' > size => Free = {}]_vars

\* The registry implements References: whatever references come and go, a
\* reference yields its own value until it is dropped.
References == INSTANCE References WITH
  value <- [r \in Ref |-> IF id[r] = None THEN None ELSE Pushed(r)]
Refinement == References!ReferSpec
=============================================================================
