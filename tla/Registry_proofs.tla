--------------------------- MODULE Registry_proofs ---------------------------
(***************************************************************************)
(* Proofs about Registry, for any number of references, slots and clones:  *)
(* the type invariant, that the registry implements References, and that   *)
(* the free list holds exactly the slots nobody owns.                      *)
(***************************************************************************)
EXTENDS Registry, TLAPS

\* No two references have the same slot, and their slots are in the table and
\* hold values.
OneOwner ==
  /\ \A r, q \in Ref : r # q /\ id[r] = id[q] => id[r] \in {None, 0}
  /\ \A r \in Ref : id[r] \in Slots => id[r] <= size /\ slot[id[r]] \in Value

\* The free list, as far as lua_ref and lua_unref need to know it: links and
\* head stay among the slots nobody owns, and no slot is the target of two.
FreeList ==
  /\ registryfree \in Free \cup {0}
  /\ \A i \in Free :
       /\ slot[i] \in Free \cup {0}
       /\ slot[i] = registryfree => registryfree = 0
  /\ \A i, j \in Free : i # j /\ slot[i] = slot[j] => slot[i] = 0

TableOK ==
  /\ slot \in [Slots -> Value \cup {NilValue} \cup 0..MaxSlots]
  /\ size \in 0..MaxSlots
  /\ registryfree \in 0..MaxSlots
  /\ id \in [Ref -> 0..MaxSlots \cup {None}]

\* A type invariant does not say that the number in a free slot is that of
\* another free slot; lua_ref trusts that it is.
TInv == TableOK /\ OneOwner /\ FreeList

CountsOK ==
  /\ strong \in [Ref -> 0..MaxClones]
  /\ \A r \in Ref : strong[r] > 0 => id[r] # None

IInv == TInv /\ CountsOK

\* The value of every other reference is left alone.
OthersKept(r) ==
  \A q \in Ref \ {r} :
    id'[q] = id[q] /\ (id[q] # None => Pushed(q)' = Pushed(q))

\* A reference is None or a number, never both.
LEMMA NoneIsNoSlot == None \notin 0..MaxSlots /\ NilValue \notin 0..MaxSlots
BY RegistryAssumption

\* lua_ref with a slot of the free list
LEMMA RefReuses ==
  ASSUME TInv, NEW r \in Ref, id[r] = None, NEW v \in Value,
         lua_ref(r, v), registryfree # 0
  PROVE  TInv' /\ OthersKept(r) /\ Pushed(r)' = v /\ id'[r] # None /\ Free' = Free \ {registryfree}
<1> DEFINE i == registryfree
<1>1. /\ i \in Slots /\ i \in Free
      /\ id' = [id EXCEPT ![r] = i] /\ slot' = [slot EXCEPT ![i] = v]
      /\ size' = size /\ registryfree' = slot[i]
  BY RegistryAssumption DEF lua_ref, TInv, TableOK, FreeList, Free, Slots
<1>2. Free' = Free \ {i}
  <2>1. \A q \in Ref : id'[q] = IF q = r THEN i ELSE id[q]
    BY <1>1 DEF TInv, TableOK
  <2>2. {id'[q] : q \in Ref} \cap Slots = Owned \cup {i}
    BY <1>1, <2>1, RegistryAssumption DEF Owned, Slots
  <2> QED BY <1>1, <2>2 DEF Free, Owned
<1>3. TableOK'
  <2>1. id' \in [Ref -> 0..MaxSlots \cup {None}]
    BY <1>1 DEF TInv, TableOK, Slots
  <2>2. slot' \in [Slots -> Value \cup {NilValue} \cup 0..MaxSlots]
    BY <1>1 DEF TInv, TableOK
  <2>3. registryfree' \in 0..MaxSlots
    BY <1>1, RegistryAssumption DEF TInv, TableOK, FreeList, Free, Slots
  <2> QED BY <1>1, <2>1, <2>2, <2>3 DEF TInv, TableOK
<1>4. \A q \in Ref : id[q] # i
  BY <1>1 DEF Free, Owned
<1>5. OneOwner'
  BY <1>1, <1>4, RegistryAssumption DEF TInv, TableOK, OneOwner, Slots, Free
<1>6. FreeList'
  BY <1>1, <1>2 DEF TInv, TableOK, FreeList, Free, Slots
<1>7. OthersKept(r) /\ Pushed(r)' = v /\ id'[r] # None
  BY <1>1, <1>4, RegistryAssumption DEF OthersKept, Pushed, LUA_REFNIL, TInv, TableOK, Slots
<1> QED BY <1>2, <1>3, <1>5, <1>6, <1>7 DEF TInv

\* lua_ref at the end of the table
LEMMA RefGrows ==
  ASSUME TInv, NEW r \in Ref, id[r] = None, NEW v \in Value,
         lua_ref(r, v), registryfree = 0
  PROVE  TInv' /\ OthersKept(r) /\ Pushed(r)' = v /\ id'[r] # None /\ Free' = Free
<1> DEFINE i == size + 1
<1>1. /\ i \in Slots
      /\ id' = [id EXCEPT ![r] = i] /\ slot' = [slot EXCEPT ![i] = v]
      /\ size' = i /\ registryfree' = 0
  BY RegistryAssumption DEF lua_ref, TInv, TableOK, Slots
<1>2. \A q \in Ref : id[q] # i
  BY <1>1, RegistryAssumption DEF TInv, TableOK, OneOwner, Slots
<1>3. Free' = Free
  <2>1. \A q \in Ref : id'[q] = IF q = r THEN i ELSE id[q]
    BY <1>1 DEF TInv, TableOK
  <2>2. {id'[q] : q \in Ref} \cap Slots = Owned \cup {i}
    BY <1>1, <2>1, RegistryAssumption DEF Owned, Slots
  <2>3. 1..size' = (1..size) \cup {i}
    BY <1>1 DEF TInv, TableOK, Slots
  <2>4. i \notin 1..size
    BY DEF TInv, TableOK
  <2> QED BY <2>2, <2>3, <2>4 DEF Free, Owned
<1>4. TableOK'
  BY <1>1 DEF TInv, TableOK, Slots
<1>5. OneOwner'
  BY <1>1, <1>2, RegistryAssumption DEF TInv, TableOK, OneOwner, Slots
<1>6. FreeList'
  BY <1>1, <1>3 DEF TInv, TableOK, FreeList, Free, Slots
<1>7. OthersKept(r) /\ Pushed(r)' = v /\ id'[r] # None
  BY <1>1, <1>2, RegistryAssumption DEF OthersKept, Pushed, LUA_REFNIL, TInv, TableOK, Slots
<1> QED BY <1>3, <1>4, <1>5, <1>6, <1>7 DEF TInv

\* lua_ref of nil takes no slot.
LEMMA RefNil ==
  ASSUME TInv, NEW r \in Ref, id[r] = None, lua_ref(r, NilValue)
  PROVE  TInv' /\ OthersKept(r) /\ Pushed(r)' = NilValue /\ id'[r] # None /\ Free' = Free
<1>1. id' = [id EXCEPT ![r] = 0] /\ UNCHANGED table
  BY DEF lua_ref, LUA_REFNIL
<1>2. TableOK'
  <2>1. id' \in [Ref -> 0..MaxSlots \cup {None}]
    BY <1>1, RegistryAssumption DEF TInv, TableOK
  <2> QED BY <1>1, <2>1 DEF TInv, TableOK, table
<1>3. OneOwner'
  BY <1>1 DEF TInv, TableOK, OneOwner, table, Slots
<1>4. Free' = Free
  BY <1>1, RegistryAssumption DEF Free, Owned, table, TInv, TableOK, Slots
<1>5. FreeList'
  BY <1>1, <1>4 DEF TInv, FreeList, table
<1>6. OthersKept(r) /\ Pushed(r)' = NilValue /\ id'[r] # None
  BY <1>1, RegistryAssumption DEF OthersKept, Pushed, LUA_REFNIL, table, TInv, TableOK
<1> QED BY <1>2, <1>3, <1>4, <1>5, <1>6 DEF TInv

\* What lua_ref does to the table and to the references.
LEMMA RefStep ==
  ASSUME TInv, NEW r \in Ref, id[r] = None,
         NEW v \in Value \cup {NilValue}, lua_ref(r, v)
  PROVE  TInv' /\ OthersKept(r) /\ Pushed(r)' = v /\ id'[r] # None
<1>1. CASE v = NilValue
  BY <1>1, RefNil
<1>2. CASE v \in Value /\ registryfree = 0
  BY <1>2, RefGrows
<1>3. CASE v \in Value /\ registryfree # 0
  BY <1>3, RefReuses
<1> QED BY <1>1, <1>2, <1>3

\* LuaRef::drop gives the slot back and leaves the other references alone.
LEMMA DropStep ==
  ASSUME TInv, NEW r \in Ref, DropRef(r)
  PROVE  /\ TInv' /\ OthersKept(r) /\ id'[r] = None
         /\ id[r] = 0 => Free' = Free
         /\ id[r] # 0 => id[r] \in Slots \ Free /\ Free' = Free \cup {id[r]}
<1> DEFINE i == id[r]
<1>0. id' = [id EXCEPT ![r] = None] /\ id[r] \in 0..MaxSlots
  BY DEF DropRef, TInv, TableOK
<1>1. CASE i = 0
  <2>1. UNCHANGED table
    BY <1>1 DEF DropRef, lua_unref, LUA_REFNIL
  <2>2. Free' = Free
    BY <1>0, <1>1, <2>1, RegistryAssumption DEF Free, Owned, table, TInv, TableOK, Slots
  <2>3. TableOK' /\ OneOwner'
    BY <1>0, <2>1, RegistryAssumption DEF TInv, TableOK, OneOwner, table, Slots
  <2>4. FreeList'
    BY <2>1, <2>2 DEF TInv, FreeList, table
  <2>5. OthersKept(r) /\ id'[r] = None
    BY <1>0, <2>1 DEF OthersKept, Pushed, table, TInv, TableOK
  <2> QED BY <1>1, <2>2, <2>3, <2>4, <2>5 DEF TInv
<1>2. CASE i # 0
  <2>1. /\ i \in Slots /\ i <= size
        /\ slot' = [slot EXCEPT ![i] = registryfree]
        /\ registryfree' = i /\ size' = size
    BY <1>0, <1>2 DEF DropRef, lua_unref, LUA_REFNIL, TInv, OneOwner, Slots
  <2>2. \A q \in Ref \ {r} : id[q] # i
    BY <1>0, <1>2, RegistryAssumption DEF TInv, OneOwner
  <2>3. i \notin Free /\ Free' = Free \cup {i}
    BY <1>0, <2>1, <2>2, RegistryAssumption DEF Free, Owned, TInv, TableOK, Slots
  <2>4. TableOK'
    BY <1>0, <2>1 DEF TInv, TableOK, Slots
  <2>5. OneOwner'
    BY <1>0, <2>1, <2>2, RegistryAssumption DEF TInv, TableOK, OneOwner, Slots
  <2>6. FreeList'
    BY <2>1, <2>3 DEF TInv, TableOK, FreeList, Free, Slots
  <2>7. OthersKept(r) /\ id'[r] = None
    BY <1>0, <2>1, <2>2 DEF OthersKept, Pushed, LUA_REFNIL, TInv, TableOK, Slots
  <2> QED BY <1>2, <2>1, <2>3, <2>4, <2>5, <2>6, <2>7 DEF TInv
<1> QED BY <1>1, <1>2

\* What is pushed for a reference is nil or a value of the program.
LEMMA PushedValue ==
  ASSUME TInv, NEW r \in Ref, id[r] # None
  PROVE  Pushed(r) \in Value \cup {NilValue} /\ Pushed(r) # None
BY RegistryAssumption DEF TInv, TableOK, OneOwner, Pushed, LUA_REFNIL, Slots

\* A new VM has no references and no free slots.
LEMMA InitIInv == Init => IInv
BY RegistryAssumption
DEF Init, IInv, TInv, TableOK, OneOwner, FreeList, CountsOK, Free, Owned, Slots

\* Every operation on references preserves IInv.
LEMMA NextIInv == IInv /\ [Next]_vars => IInv'
<1> SUFFICES ASSUME IInv, [Next]_vars
             PROVE  IInv'
    OBVIOUS
<1>0. TInv /\ CountsOK
  BY DEF IInv
<1>1. ASSUME NEW r \in Ref, NEW v \in Value \cup {NilValue}, register_ref(r, v)
      PROVE  IInv'
  <2>1. TInv' /\ OthersKept(r) /\ id'[r] # None
    BY <1>0, <1>1, RefStep DEF register_ref
  <2>2. CountsOK'
    BY <1>0, <1>1, <2>1, RegistryAssumption DEF register_ref, CountsOK, OthersKept
  <2> QED BY <2>1, <2>2 DEF IInv
<1>2. ASSUME NEW r \in Ref, NEW q \in Ref, CloneRef(r, q)
      PROVE  IInv'
  <2>1. Pushed(r) \in Value \cup {NilValue}
    BY <1>0, <1>2, PushedValue DEF CloneRef, CountsOK
  <2>2. TInv' /\ OthersKept(q) /\ id'[q] # None
    BY <1>0, <1>2, <2>1, RefStep DEF CloneRef
  <2>3. CountsOK'
    BY <1>0, <1>2, <2>2, RegistryAssumption DEF CloneRef, CountsOK, OthersKept
  <2> QED BY <2>2, <2>3 DEF IInv
<1>3. ASSUME NEW r \in Ref, CloneHandle(r) \/ DropHandle(r)
      PROVE  IInv'
  <2>1. TInv'
    BY <1>0, <1>3
    DEF CloneHandle, DropHandle, TInv, TableOK, OneOwner, FreeList, Free, Owned, table
  <2>2. CountsOK'
    BY <1>0, <1>3, RegistryAssumption DEF CloneHandle, DropHandle, CountsOK
  <2> QED BY <2>1, <2>2 DEF IInv
<1>4. ASSUME NEW r \in Ref, NEW q \in Ref, NEW v \in Value \cup {NilValue},
             replace_registry_value(r, q, v)
      PROVE  IInv'
  <2>1. TInv' /\ OthersKept(q) /\ id'[q] # None
    BY <1>0, <1>4, RefStep DEF replace_registry_value
  <2>2. CountsOK'
    BY <1>0, <1>4, <2>1, RegistryAssumption
    DEF replace_registry_value, CountsOK, OthersKept
  <2> QED BY <2>1, <2>2 DEF IInv
<1>5. ASSUME NEW r \in Ref, DropRef(r)
      PROVE  IInv'
  <2>1. TInv' /\ OthersKept(r) /\ id'[r] = None
    BY <1>0, <1>5, DropStep
  <2>2. CountsOK'
    BY <1>0, <1>5, <2>1 DEF DropRef, CountsOK, OthersKept
  <2> QED BY <2>1, <2>2 DEF IInv
<1>6. CASE UNCHANGED vars
  BY <1>0, <1>6
  DEF vars, table, IInv, CountsOK, TInv, TableOK, OneOwner, FreeList, Free, Owned
<1> QED BY <1>1, <1>2, <1>3, <1>4, <1>5, <1>6 DEF Next

\* The strengthening holds in every state.
THEOREM Inductive == Spec => []IInv
BY InitIInv, NextIInv, PTL DEF Spec

\* References and table entries have their types, and a LuaRef that is shared
\* exists, for any number of references.
THEOREM TypeCorrect == Spec => []TypeOK
<1>1. IInv => TypeOK
  BY DEF IInv, TInv, TableOK, CountsOK, TypeOK
<1> QED BY <1>1, Inductive, PTL

\* No slot of the registry has two owners: what one reference stores or
\* releases is never read through another.
THEOREM SlotsNotShared == Spec => []OneOwner
<1>1. IInv => OneOwner
  BY DEF IInv, TInv
<1> QED BY <1>1, Inductive, PTL

\* The value the refinement mapping gives to a reference
RefValue == [r \in Ref |-> IF id[r] = None THEN None ELSE Pushed(r)]

\* Every operation is a step of References, or leaves all values alone.
LEMMA StepRefines == IInv /\ [Next]_vars => [References!ReferNext]_RefValue
<1> SUFFICES ASSUME IInv, [Next]_vars
             PROVE  References!ReferNext \/ RefValue' = RefValue
    OBVIOUS
<1> USE DEF RefValue
<1>0. TInv /\ CountsOK
  BY DEF IInv
<1>a. ASSUME NEW r \in Ref, OthersKept(r)
      PROVE  \A q \in Ref \ {r} : RefValue'[q] = RefValue[q]
  BY <1>a DEF OthersKept
<1>1. ASSUME NEW r \in Ref, NEW v \in Value \cup {NilValue}, register_ref(r, v)
      PROVE  References!Refer(r, v)
  <2>1. OthersKept(r) /\ Pushed(r)' = v /\ id'[r] # None /\ id[r] = None
    BY <1>0, <1>1, RefStep DEF register_ref
  <2>2. RefValue' = [RefValue EXCEPT ![r] = v] /\ RefValue[r] = None
    BY <2>1, <1>a
  <2> QED BY <2>2 DEF References!Refer
<1>2. ASSUME NEW r \in Ref, NEW q \in Ref, CloneRef(r, q)
      PROVE  References!Copy(r, q)
  <2>1. Pushed(r) \in Value \cup {NilValue} /\ Pushed(r) # None /\ id[r] # None
    BY <1>0, <1>2, PushedValue DEF CloneRef, CountsOK
  <2>2. OthersKept(q) /\ Pushed(q)' = Pushed(r) /\ id'[q] # None /\ id[q] = None
    BY <1>0, <1>2, <2>1, RefStep DEF CloneRef
  <2>3. /\ RefValue' = [RefValue EXCEPT ![q] = RefValue[r]]
        /\ RefValue[r] # None /\ RefValue[q] = None
    BY <2>1, <2>2, <1>a
  <2> QED BY <2>3 DEF References!Copy
<1>3. ASSUME NEW r \in Ref, CloneHandle(r) \/ DropHandle(r)
      PROVE  RefValue' = RefValue
  BY <1>3 DEF CloneHandle, DropHandle, Pushed, table
<1>4. ASSUME NEW r \in Ref, NEW q \in Ref, NEW v \in Value \cup {NilValue},
             replace_registry_value(r, q, v)
      PROVE  References!Refer(q, v)
  <2>1. OthersKept(q) /\ Pushed(q)' = v /\ id'[q] # None /\ id[q] = None
    BY <1>0, <1>4, RefStep DEF replace_registry_value
  <2>2. RefValue' = [RefValue EXCEPT ![q] = v] /\ RefValue[q] = None
    BY <2>1, <1>a
  <2> QED BY <2>2 DEF References!Refer
<1>5. ASSUME NEW r \in Ref, DropRef(r)
      PROVE  References!Release(r)
  <2>1. OthersKept(r) /\ id'[r] = None /\ id[r] # None
    BY <1>0, <1>5, DropStep DEF DropRef
  <2>2. RefValue' = [RefValue EXCEPT ![r] = None] /\ RefValue[r] # None
    BY <1>0, <2>1, <1>a, PushedValue
  <2> QED BY <2>2 DEF References!Release
<1>6. CASE UNCHANGED vars
  BY <1>6 DEF vars, table, Pushed
<1> QED BY <1>1, <1>2, <1>3, <1>4, <1>5, <1>6 DEF Next, References!ReferNext

\* The registry implements References: through all sequences of lua_ref and
\* lua_unref every reference keeps its value.
THEOREM Implements == Spec => Refinement
<1>1. Init => References!ReferInit
  BY DEF Init, References!ReferInit
<1>2. IInv /\ [Next]_vars => [References!ReferNext]_RefValue
  BY StepRefines
<1> QED BY <1>1, <1>2, Inductive, PTL
  DEF Spec, Refinement, References!ReferSpec, RefValue

-----------------------------------------------------------------------------
(***************************************************************************)
(* The free list is complete.                                              *)
(***************************************************************************)
Numbers == 0..MaxSlots

\* A set of numbers that the links of the list do not leave
Closed(S) == \A x \in S \ {0} : slot[x] \in Numbers => slot[x] \in S

LEMMA ZeroIsNumber == 0 \in Numbers
BY RegistryAssumption DEF Numbers

\* The list is the least closed set with the head.
LEMMA LinkedIn ==
  ASSUME NEW S \in SUBSET Numbers, registryfree \in S, Closed(S)
  PROVE  Linked \subseteq S
BY DEF Linked, Closed, Numbers

\* It is one.
LEMMA LinkedClosed ==
  ASSUME registryfree \in Numbers
  PROVE  Linked \subseteq Numbers /\ registryfree \in Linked /\ Closed(Linked)
BY DEF Linked, Closed, Numbers

\* What is in every closed set with the new head is in the list after a step.
LEMMA LinkedNext ==
  ASSUME NEW T \in SUBSET Numbers,
         \A S \in SUBSET Numbers :
           registryfree' \in S /\ (\A x \in S \ {0} : slot'[x] \in Numbers => slot'[x] \in S)
             => T \subseteq S
  PROVE  T \subseteq Linked'
BY DEF Linked, Numbers

\* lua_ref takes the head of the list off, or finds the list empty and grows the
\* table.
LEMMA RefLinks ==
  ASSUME TInv, FreeListExact, NEW r \in Ref, id[r] = None,
         NEW v \in Value \cup {NilValue}, lua_ref(r, v)
  PROVE  FreeListExact' /\ (size' > size => Free = {})
<1>1. CASE v = NilValue
  <2>1. Free' = Free /\ UNCHANGED table
    BY <1>1, RefNil DEF lua_ref
  <2> QED BY <2>1 DEF FreeListExact, Linked, table, TInv, TableOK
<1>2. CASE v \in Value /\ registryfree = 0
  <2>1. Free' = Free /\ registryfree' = 0
    BY <1>2, RefGrows, RegistryAssumption DEF lua_ref
  <2>2. Free = {}
    <3>1. {0} \in SUBSET Numbers /\ Closed({0})
      BY RegistryAssumption DEF Numbers, Closed
    <3>2. Linked \subseteq {0}
      BY <1>2, <3>1, LinkedIn
    <3> QED BY <3>2 DEF FreeListExact, Free, TInv, TableOK
  <2>3. Linked' = {0}
    <3>1. Linked' \subseteq {0}
      <4>1. 0 \in {0} /\ {0} \in SUBSET (0..MaxSlots) /\ {0} \ {0} = {}
        BY RegistryAssumption
      <4> QED BY <2>1, <4>1 DEF Linked
    <3>2. {0} \subseteq Linked'
      <4>1. {0} \in SUBSET Numbers
        BY ZeroIsNumber
      <4>2. ASSUME NEW S \in SUBSET Numbers, registryfree' \in S
            PROVE  {0} \subseteq S
        BY <2>1, <4>2
      <4> QED BY <4>1, <4>2, LinkedNext
    <3> QED BY <3>1, <3>2
  <2> QED BY <2>1, <2>2, <2>3 DEF FreeListExact
<1>3. CASE v \in Value /\ registryfree # 0
  <2> DEFINE i == registryfree
  <2>1. /\ Free' = Free \ {i} /\ i \in Free /\ i \in Slots
        /\ registryfree' = slot[i] /\ slot' = [slot EXCEPT ![i] = v] /\ size' = size
    BY <1>3, RefReuses, RegistryAssumption DEF lua_ref, TInv, TableOK, FreeList, Free, Slots
  <2>2. /\ \A x \in Numbers \ {0, i} : slot'[x] = slot[x]
        /\ Free \subseteq Numbers \ {0} /\ i \in Numbers
    BY <2>1, RegistryAssumption DEF TInv, TableOK, Numbers, Slots, Free
  <2>3. slot[i] \in Numbers /\ slot[i] # i /\ (\A x \in Free : slot[x] \in Numbers /\ slot[x] # i)
    <3>1. /\ \A x \in Free : slot[x] \in Free \cup {0} /\ (slot[x] = i => i = 0)
          /\ i # 0 /\ i \in Free
      BY <1>3, <2>1 DEF TInv, FreeList
    <3>2. Free \cup {0} \subseteq Numbers
      BY <2>2, ZeroIsNumber
    <3> HIDE DEF i
    <3> QED BY <3>1, <3>2
  <2>4. Linked = Free \cup {0} /\ Closed(Linked)
    BY <2>2, LinkedClosed DEF FreeListExact
  <2> DEFINE T == (Free \ {i}) \cup {0}
  <2>5. Linked' \subseteq T
    <3>1. T \in SUBSET (0..MaxSlots) /\ registryfree' \in T
      BY <2>1, <2>2, <2>3, <2>4, RegistryAssumption DEF Closed, Numbers
    <3>2. \A x \in T \ {0} : slot'[x] \in 0..MaxSlots => slot'[x] \in T
      BY <2>2, <2>3, <2>4 DEF Closed, Numbers
    <3> HIDE DEF T
    <3> QED BY <3>1, <3>2 DEF Linked
  <2>6. T \subseteq Linked'
    <3>1. T \in SUBSET Numbers
      BY <2>2, ZeroIsNumber
    <3>2. ASSUME NEW S \in SUBSET Numbers, registryfree' \in S,
                 \A x \in S \ {0} : slot'[x] \in Numbers => slot'[x] \in S
          PROVE  T \subseteq S
      <4>1. S \cup {i} \in SUBSET Numbers /\ registryfree \in S \cup {i}
        BY <2>2
      <4>2. Closed(S \cup {i})
        BY <2>1, <2>2, <3>2 DEF Closed
      <4>3. Linked \subseteq S \cup {i}
        BY <4>1, <4>2, LinkedIn
      <4> QED BY <1>3, <2>4, <4>3
    <3> HIDE DEF T
    <3> QED BY <3>1, <3>2, LinkedNext
  <2>7. FreeListExact'
    BY <2>1, <2>5, <2>6 DEF FreeListExact
  <2> QED BY <2>1, <2>7 DEF TInv, TableOK
<1> QED BY <1>1, <1>2, <1>3

\* LuaRef::drop puts the slot on the list.
LEMMA DropLinks ==
  ASSUME TInv, FreeListExact, NEW r \in Ref, DropRef(r)
  PROVE  FreeListExact' /\ size' = size
<1> DEFINE i == id[r]
<1>1. CASE i = 0
  <2>1. Free' = Free
    BY <1>1, DropStep
  <2>2. UNCHANGED table
    BY <1>1 DEF DropRef, lua_unref, LUA_REFNIL
  <2> QED BY <2>1, <2>2 DEF FreeListExact, Linked, table
<1>2. CASE i # 0
  <2>1. /\ i \in Slots \ Free /\ Free' = Free \cup {i}
        /\ registryfree' = i /\ slot' = [slot EXCEPT ![i] = registryfree] /\ size' = size
    <3>1. i \in Slots \ Free /\ Free' = Free \cup {i}
      BY <1>2, DropStep
    <3> QED BY <1>2, <3>1, RegistryAssumption DEF DropRef, lua_unref, LUA_REFNIL, Slots
  <2>2. /\ \A x \in Numbers \ {0, i} : slot'[x] = slot[x]
        /\ slot'[i] = registryfree /\ registryfree \in Free \cup {0}
        /\ Free \subseteq Numbers \ {0} /\ i \in Numbers \ {0}
    BY <2>1, RegistryAssumption DEF TInv, TableOK, FreeList, Numbers, Slots, Free
  <2>3. Linked = Free \cup {0} /\ Closed(Linked) /\ \A x \in Free : slot[x] \in Free \cup {0}
    BY <2>2, LinkedClosed, RegistryAssumption DEF FreeListExact, TInv, FreeList, TableOK, Numbers
  <2> DEFINE T == Free \cup {i, 0}
  <2>4. Linked' \subseteq T
    <3>1. T \in SUBSET (0..MaxSlots) /\ registryfree' \in T
      <4>1. T \in SUBSET Numbers
        BY <2>2, ZeroIsNumber
      <4> QED BY <2>1, <4>1 DEF Numbers
    <3>2. \A x \in T \ {0} : slot'[x] \in 0..MaxSlots => slot'[x] \in T
      BY <2>1, <2>2, <2>3 DEF Numbers
    <3> HIDE DEF T
    <3> QED BY <3>1, <3>2 DEF Linked
  <2>5. T \subseteq Linked'
    <3>1. T \in SUBSET Numbers
      BY <2>2, ZeroIsNumber
    <3>2. ASSUME NEW S \in SUBSET Numbers, registryfree' \in S,
                 \A x \in S \ {0} : slot'[x] \in Numbers => slot'[x] \in S
          PROVE  T \subseteq S
      <4> DEFINE U == S \cap (Free \cup {0})
      <4>1. i \in S /\ registryfree \in S
        <5>1. registryfree \in Numbers
          BY <2>2, ZeroIsNumber
        <5> QED BY <2>1, <2>2, <3>2, <5>1
      <4>2. U \in SUBSET Numbers /\ registryfree \in U
        BY <2>2, <4>1
      <4>3. Closed(U)
        BY <2>1, <2>2, <2>3, <3>2 DEF Closed
      <4>4. Linked \subseteq U
        BY <4>2, <4>3, LinkedIn
      <4> QED BY <2>3, <4>1, <4>4
    <3> HIDE DEF T
    <3> QED BY <3>1, <3>2, LinkedNext
  <2>6. FreeListExact'
    BY <2>1, <2>4, <2>5 DEF FreeListExact
  <2> QED BY <2>1, <2>6
<1> QED BY <1>1, <1>2

\* Every operation keeps the list complete, and grows the table only when the
\* list is empty.
LEMMA NextLinks ==
  ASSUME IInv, FreeListExact, [Next]_vars
  PROVE  FreeListExact' /\ (size' > size => Free = {})
<1>0. TInv /\ CountsOK
  BY DEF IInv
<1>1. ASSUME NEW r \in Ref, NEW v \in Value \cup {NilValue}, register_ref(r, v)
      PROVE  FreeListExact' /\ (size' > size => Free = {})
  BY <1>0, <1>1, RefLinks DEF register_ref
<1>2. ASSUME NEW r \in Ref, NEW q \in Ref, CloneRef(r, q)
      PROVE  FreeListExact' /\ (size' > size => Free = {})
  <2>1. Pushed(r) \in Value \cup {NilValue}
    BY <1>0, <1>2, PushedValue DEF CloneRef, CountsOK
  <2> QED BY <1>0, <1>2, <2>1, RefLinks DEF CloneRef
<1>3. ASSUME UNCHANGED <<table, id>>
      PROVE  FreeListExact' /\ (size' > size => Free = {})
  BY <1>0, <1>3 DEF FreeListExact, Linked, Free, Owned, table, TInv, TableOK
<1>4. ASSUME NEW r \in Ref, NEW q \in Ref, NEW v \in Value \cup {NilValue},
             replace_registry_value(r, q, v)
      PROVE  FreeListExact' /\ (size' > size => Free = {})
  BY <1>0, <1>4, RefLinks DEF replace_registry_value
<1>5. ASSUME NEW r \in Ref, DropRef(r)
      PROVE  FreeListExact' /\ (size' > size => Free = {})
  BY <1>0, <1>5, DropLinks DEF TInv, TableOK
<1> QED BY <1>1, <1>2, <1>3, <1>4, <1>5 DEF Next, CloneHandle, DropHandle, vars

\* A new VM has an empty list.
LEMMA InitLinks == Init => FreeListExact
<1> SUFFICES ASSUME Init PROVE FreeListExact
  OBVIOUS
<1>1. Free = {} /\ registryfree = 0
  BY DEF Init, Free
<1>2. {0} \in SUBSET Numbers /\ Closed({0}) /\ registryfree \in Numbers
  BY <1>1, RegistryAssumption DEF Numbers, Closed
<1> QED BY <1>1, <1>2, LinkedIn, LinkedClosed DEF FreeListExact

\* The list that lua_unref threads through the table holds exactly the slots that
\* nobody owns, and ends.
THEOREM FreeListCorrect == Spec => []FreeListExact
<1>1. IInv /\ FreeListExact /\ [Next]_vars => FreeListExact'
  BY NextLinks
<1> QED BY <1>1, InitLinks, Inductive, PTL DEF Spec

\* lua_ref uses released slots again before it makes the table larger.
THEOREM GrowsOnlyWhenFullCorrect == Spec => GrowsOnlyWhenFull
<1>1. IInv /\ FreeListExact /\ [Next]_vars => [size' > size => Free = {}]_vars
  BY NextLinks
<1> QED BY <1>1, FreeListCorrect, Inductive, PTL DEF Spec, GrowsOnlyWhenFull
=============================================================================
