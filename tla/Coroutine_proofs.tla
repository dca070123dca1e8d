-------------------------- MODULE Coroutine_proofs --------------------------
(***************************************************************************)
(* Proofs about Coroutine, for any number of coroutines, any limit of the  *)
(* C calls, any program and any room for CallInfos, when handles are used  *)
(* by the thread that runs (OwnHandles).                                   *)
(***************************************************************************)
EXTENDS Coroutine, WellFoundedInduction, TLAPS

OwnHandles == Via = {}

\* The reserve is LUAI_MAXCCALLS >> 3, 25 as built.
HasReserve == Reserve > 0

-----------------------------------------------------------------------------
(***************************************************************************)
(* The inductive invariant.                                                *)
(***************************************************************************)
Resumes(A) == A.fn = "lua_resume"

\* The counter nCcalls after the call that A stands for
Level(A) == A.n + (IF Resumes(A) THEN 0 ELSE 1)

\* What A adds to the difference of nCcalls and baseCcalls
Blocks(A) == IF A.y THEN 0 ELSE 1

\* native[i] is the innermost activation of its thread.
Innermost(i) == i = Len(native) \/ Resumes(native[i + 1])

Acts == 1..Len(native)

\* A thread's activations are consecutive, those of a coroutine begin with its
\* lua_resume, those of the main thread are outermost and begin with a
\* protected call of the host; their CallInfos are in the same order.
Segments ==
  /\ \A i, j, k \in Acts :
       Resumes(native[i]) /\ j < i /\ i <= k => native[j].L # native[k].L
  /\ \A i \in Acts : Resumes(native[i]) =>
       /\ native[i].L \in Coroutines /\ native[i].at = 0 /\ native[i].y
       /\ \A j \in i..Len(native) : native[j].L # Main
  /\ \A i, j \in Acts :
       i <= j /\ (\A k \in i+1..j : ~Resumes(native[k])) => native[j].L = native[i].L
  /\ \A i, j \in Acts :
       i < j /\ native[i].L = native[j].L => native[i].at < native[j].at
  /\ native # <<>> /\ ~Resumes(native[1]) =>
       /\ native[1].fn = "luaD_pcall" /\ native[1].L = Main
       /\ native[1].at = 0 /\ ~native[1].y

\* The counters that an activation saved: nCcalls counts at least the
\* activations below, and the two are equal when all those of the thread can
\* be dropped.
Saved ==
  /\ \A i \in Acts :
       /\ native[i].b <= native[i].n
       /\ i <= Level(native[i])
       /\ native[i].n < MAXCCALLS + Reserve
       /\ Resumes(native[i]) => native[i].n = native[i].b
       /\ native[i].L = Main => native[i].n = i - 1
       /\ native[i].n = native[i].b
            <=> \A j \in 1..i-1 : native[j].L = native[i].L => native[j].y
  /\ \A i \in Acts : i > 1 /\ ~Resumes(native[i]) =>
       LET A == native[i - 1]
       IN /\ native[i].n >= Level(A)
          /\ native[i].n + A.b = native[i].b + A.n + Blocks(A)

\* The counters of the threads.  luaD_performcally may leave both too high, but
\* by the same amount.
Counters ==
  /\ \A i \in Acts : Innermost(i) =>
       LET A == native[i]
       IN /\ nCcalls[A.L] >= Level(A)
          /\ A.L = Main => nCcalls[A.L] = i
          /\ \/ nCcalls[A.L] + A.b = baseCcalls[A.L] + A.n + Blocks(A)
             \/ control = "cstack" /\ i = Len(native)
  /\ \A L \in Threads :
       nCcalls[L] < MAXCCALLS + Reserve \/ (control = "cstack" /\ L = Running)
  /\ ~Active(Main) => nCcalls[Main] = 0 /\ baseCcalls[Main] = 0

\* An activation A lies below its thread's CallInfos, is droppable when it
\* incremented both counters, and the function it called returns to it.
ActOK(i) ==
  LET A == native[i]
      l == Len(ci[A.L])
  IN /\ A.y <=> \/ A.fn \in {"lua_resume", "luaD_performcally"}
                \/ A.fn = "luaD_pcall" /\ A.at > 0 /\ ci[A.L][A.at].kind = "pcall"
     /\ A.at <= l
     /\ Innermost(i) /\ (i = Len(native) => control \notin Errors \cup {"returned", "continue"})
          => A.at < l
     /\ i = Len(native) /\ control = "returned" => A.at = l
     /\ A.at < l /\ ci[A.L][A.at + 1].kind = "lua" => ci[A.L][A.at + 1].ret

\* A thread that is on the Rust stack and one that is not
StatusOK(L) ==
  /\ Active(L) /\ ~(L = Running /\ control \in {"yielded", "continue"}) => status[L] = "ok"
  /\ ~Active(L) => (status[L] \in {"yield", "break", "error"} \/ (status[L] = "ok" /\ ci[L] = <<>>))
  /\ ~Active(L) /\ status[L] \in {"yield", "break"} =>
       /\ ci[L] # <<>>
       /\ \A k \in 1..Len(ci[L]) :
            ci[L][k].kind = "c" => k = Len(ci[L]) /\ status[L] = "yield"

\* Flags of single CallInfos
FlagsOK(L) ==
  \A k \in 1..Len(ci[L]) :
    /\ ci[L][k].handle => ci[L][k].kind = "pcall"
    /\ ci[L][k].kind \in {"resume", "wrap"} => ci[L][k].co \in Coroutines
    /\ k = 1 /\ ci[L][k].kind = "lua" => ci[L][k].ret

\* All calls of L on the Rust stack were made after a yield dropped those of
\* the first k frames.
After(L, k) == \A j \in Acts : native[j].L = L /\ ~Resumes(native[j]) => native[j].at > k

\* A frame that returns to a Rust frame is just above it, or that was dropped.
ReturnsOK(L) ==
  \A k \in 1..Len(ci[L]) :
    ci[L][k].ret /\ ~(L = Running /\ control = "yielded") =>
      \/ \E j \in Acts : native[j].L = L /\ native[j].at = k - 1
      \/ After(L, k - 1)

\* Who called what is above: a C function without continuation has a Rust
\* frame; a protected call has one or was dropped, is marked as handler and not
\* done yet.
CallersOK(L) ==
  status[L] # "error" =>
    \A k \in 1..Len(ci[L]) :
      /\ ci[L][k].kind = "c" /\ k < Len(ci[L]) =>
           \E j \in Acts : native[j].L = L /\ native[j].at = k /\ ~native[j].y
      /\ ci[L][k].kind = "pcall" /\ ~(L = Running /\ k = Len(ci[L]) /\ control = "frame") =>
           /\ ci[L][k].handle /\ ~ci[L][k].done
           /\ \/ \E j \in Acts : native[j].L = L /\ native[j].at = k
                                   /\ native[j].fn = "luaD_pcall"
              \/ After(L, k)
              \/ L = Running /\ control = "yielded"

ThreadOK(L) == StatusOK(L) /\ FlagsOK(L) /\ ReturnsOK(L) /\ CallersOK(L)

\* What the innermost Rust frame is about to do fits it.
ControlOK ==
  /\ status[Main] = "ok"
  /\ control \in Errors \cup {"returned", "yielded", "continue"} => native # <<>>
  /\ control = "returned" => ~Resumes(Last(native))
  /\ control = "continue" =>
       /\ Resumes(Last(native))
       /\ status[Running] = "ok" \/ (status[Running] = "reentry" /\ ci[Running] # <<>>)
  /\ control = "yielded" =>
       /\ status[Running] \in {"yield", "break", "reentry"}
       /\ \A i \in Acts : native[i].L = Running => native[i].y
       /\ Last(ci[Running]).kind = "c" => status[Running] = "yield"

LuaInv == /\ \A L \in Threads : ThreadOK(L)
          /\ \A i \in Acts : ActOK(i)
          /\ ControlOK

StackInv == Segments /\ Saved /\ Counters

IInv == TypeOK /\ StackInv /\ LuaInv

-----------------------------------------------------------------------------
(***************************************************************************)
(* Sequences.                                                              *)
(***************************************************************************)
LEMMA AppendFacts ==
  ASSUME NEW S, NEW s \in Seq(S), NEW e \in S
  PROVE  /\ Append(s, e) \in Seq(S) /\ Len(Append(s, e)) = Len(s) + 1
         /\ Append(s, e)[Len(s) + 1] = e
         /\ \A i \in 1..Len(s) : Append(s, e)[i] = s[i]
OBVIOUS

LEMMA PrefixFacts ==
  ASSUME NEW S, NEW s \in Seq(S), NEW m \in 0..Len(s)
  PROVE  /\ SubSeq(s, 1, m) \in Seq(S) /\ Len(SubSeq(s, 1, m)) = m
         /\ \A i \in 1..m : SubSeq(s, 1, m)[i] = s[i]
OBVIOUS

LEMMA LastFacts ==
  ASSUME NEW S, NEW s \in Seq(S), s # <<>>
  PROVE  /\ Len(s) \in Nat \ {0} /\ Last(s) = s[Len(s)] /\ Last(s) \in S
         /\ Front(s) \in Seq(S) /\ Len(Front(s)) = Len(s) - 1
         /\ \A i \in 1..Len(s) - 1 : Front(s)[i] = s[i]
<1>1. Len(s) \in Nat \ {0} /\ Last(s) = s[Len(s)]
  BY DEF Last
<1>2. s[Len(s)] \in S
  BY <1>1
<1>3. Front(s) = SubSeq(s, 1, Len(s) - 1) /\ Len(s) - 1 \in 0..Len(s)
  BY <1>1 DEF Front
<1>4. /\ Len(SubSeq(s, 1, Len(s) - 1)) = Len(s) - 1
      /\ SubSeq(s, 1, Len(s) - 1) \in Seq(S)
      /\ \A i \in 1..Len(s) - 1 : SubSeq(s, 1, Len(s) - 1)[i] = s[i]
  BY <1>3, PrefixFacts
<1> QED BY <1>1, <1>2, <1>3, <1>4

\* The last element is replaced.
LEMMA EditFacts ==
  ASSUME NEW S, NEW s \in Seq(S), s # <<>>, NEW e \in S
  PROVE  /\ Append(Front(s), e) \in Seq(S) /\ Len(Append(Front(s), e)) = Len(s)
         /\ Append(Front(s), e)[Len(s)] = e
         /\ \A i \in 1..Len(s) - 1 : Append(Front(s), e)[i] = s[i]
<1>1. /\ Len(s) \in Nat \ {0} /\ Front(s) \in Seq(S) /\ Len(Front(s)) = Len(s) - 1
      /\ \A i \in 1..Len(s) - 1 : Front(s)[i] = s[i]
  BY LastFacts
<1>2. /\ Append(Front(s), e) \in Seq(S)
      /\ Len(Append(Front(s), e)) = Len(Front(s)) + 1
      /\ Append(Front(s), e)[Len(Front(s)) + 1] = e
      /\ \A i \in 1..Len(Front(s)) : Append(Front(s), e)[i] = Front(s)[i]
  BY <1>1, AppendFacts
<1> QED BY <1>1, <1>2

\* A set of indices has a greatest one.
LEMMA Greatest ==
  ASSUME NEW n \in Nat, NEW S \in SUBSET (1..n), S # {}
  PROVE  \E m \in S : \A j \in S : j <= m
<1> DEFINE T == {n - i : i \in S}
           R == OpToRel(<, Nat)
<1>1. T \subseteq Nat /\ T # {}
  <2>1. \A i \in S : i \in 1..n /\ n - i \in Nat
    OBVIOUS
  <2>2. PICK i \in S : TRUE
    OBVIOUS
  <2>3. n - i \in T
    BY <2>2
  <2> QED BY <2>1, <2>3
<1>2. IsWellFoundedOn(R, Nat)
  BY NatLessThanWellFounded
<1> HIDE DEF T, R
<1>3. PICK x \in T : \A y \in T : ~(<<y, x>> \in R)
  BY <1>1, <1>2, WFMin
<1>4. PICK i \in S : x = n - i
  BY DEF T
<1>5. ASSUME NEW j \in S PROVE j <= i
  <2>1. n - j \in T /\ n - j \in Nat /\ x \in Nat
    BY <1>1 DEF T
  <2>2. ~(n - j < x)
    BY <1>3, <2>1 DEF R, OpToRel
  <2>3. j \in 1..n /\ i \in 1..n
    OBVIOUS
  <2> QED BY <1>4, <2>1, <2>2, <2>3
<1> QED BY <1>5

-----------------------------------------------------------------------------
(***************************************************************************)
(* The state in terms of its parts.                                        *)
(***************************************************************************)
LEMMA Fields ==
  ASSUME TypeOK
  PROVE  /\ Len(native) \in Nat /\ native \in Seq(Activations)
         /\ \A i \in Acts :
              /\ native[i] \in Activations
              /\ native[i].fn \in NativeFns /\ native[i].L \in Threads
              /\ native[i].at \in Nat /\ native[i].n \in Nat /\ native[i].b \in Nat
              /\ native[i].y \in BOOLEAN
         /\ native = <<>> <=> Len(native) = 0
         /\ native # <<>> => /\ Len(native) \in Acts
                             /\ Last(native) = native[Len(native)]
                             /\ Running = native[Len(native)].L
                             /\ Active(Running)
         /\ native = <<>> => Running = Main
         /\ Running \in Threads
         /\ \A L \in Threads : nCcalls[L] \in Nat /\ baseCcalls[L] \in Nat
<1>1. /\ Len(native) \in Nat /\ native \in Seq(Activations)
      /\ native = <<>> <=> Len(native) = 0
      /\ \A i \in Acts : native[i] \in Activations
  BY DEF TypeOK, Acts
<1>2. \A A \in Activations :
        /\ A.fn \in NativeFns /\ A.L \in Threads
        /\ A.at \in Nat /\ A.n \in Nat /\ A.b \in Nat /\ A.y \in BOOLEAN
  BY DEF Activations
<1>3. native # <<>> => /\ Len(native) \in Acts
                       /\ Last(native) = native[Len(native)]
                       /\ Running = native[Len(native)].L
  <2>1. native # <<>> => Len(native) \in Nat \ {0} /\ Last(native) = native[Len(native)]
    BY <1>1, LastFacts
  <2> QED BY <2>1 DEF Acts, Running
<1>4. native # <<>> => Active(Running)
  BY <1>3 DEF Active, Acts
<1>5. native = <<>> => Running = Main
  BY DEF Running
<1>6. Running \in Threads
  BY <1>1, <1>2, <1>3, <1>5 DEF Threads
<1>7. \A L \in Threads : nCcalls[L] \in Nat /\ baseCcalls[L] \in Nat
  BY DEF TypeOK
<1> QED BY <1>1, <1>2, <1>3, <1>4, <1>5, <1>6, <1>7

\* What the threads below the running one saved is not disturbed by it.
LEMMA OtherThread ==
  ASSUME TypeOK, Segments, NEW i \in Acts, Innermost(i), i # Len(native)
  PROVE  native[i].L # Running
<1>1. i + 1 \in Acts /\ Len(native) \in Acts /\ i + 1 <= Len(native)
  BY Fields DEF Acts
<1>2. Resumes(native[i + 1])
  BY DEF Innermost
<1>3. native[i].L # native[Len(native)].L
  BY <1>1, <1>2 DEF Segments, Acts
<1>4. native # <<>>
  BY <1>1, Fields DEF Acts
<1>5. Running = native[Len(native)].L
  BY <1>4, Fields
<1> QED BY <1>3, <1>5

-----------------------------------------------------------------------------
(***************************************************************************)
(* The Rust stack and the counters.                                        *)
(***************************************************************************)
LEMMA NativeKept ==
  ASSUME Segments, Saved, UNCHANGED native
  PROVE  Segments' /\ Saved'
<1>1. Segments'
  <2>1. native' = native /\ Acts' = Acts /\ Len(native') = Len(native)
    BY DEF Acts
  <2>2. \A i : native'[i] = native[i]
    BY <2>1
  <2>3. /\ \A i, j, k \in Acts :
             Resumes(native[i])' /\ j < i /\ i <= k => native'[j].L # native'[k].L
        /\ \A i, j \in Acts :
             i < j /\ native'[i].L = native'[j].L => native'[i].at < native'[j].at
    BY <2>2 DEF Segments, Resumes
  <2>4. \A i \in Acts : Resumes(native[i])' =>
          /\ native'[i].L \in Coroutines /\ native'[i].at = 0 /\ native'[i].y
          /\ \A j \in i..Len(native) : native'[j].L # Main
    BY <2>2 DEF Segments, Resumes
  <2>5. \A i, j \in Acts :
          i <= j /\ (\A k \in i+1..j : ~Resumes(native[k])') => native'[j].L = native'[i].L
    BY <2>2 DEF Segments, Resumes
  <2>6. native' # <<>> /\ ~Resumes(native[1])' =>
          /\ native'[1].fn = "luaD_pcall" /\ native'[1].L = Main
          /\ native'[1].at = 0 /\ ~native'[1].y
    BY <2>1, <2>2 DEF Segments, Resumes
  <2> QED BY <2>1, <2>3, <2>4, <2>5, <2>6 DEF Segments, Resumes
<1>2. Saved'
  BY Zenon DEF Saved, Acts, Resumes, Level, Blocks
<1> QED BY <1>1, <1>2

LEMMA StackKept ==
  ASSUME TypeOK, StackInv, UNCHANGED <<native, ccalls>>, control # "cstack"
  PROVE  StackInv'
<1>1. Segments' /\ Saved'
  BY NativeKept DEF StackInv
<1>2. Counters'
  BY DEF StackInv, Counters, Innermost, Acts, Running, Active, ccalls, Resumes, Level, Blocks
<1> QED BY <1>1, <1>2 DEF StackInv

\* Activations are dropped: those that stay are well formed.
LEMMA StackCut ==
  ASSUME TypeOK, Segments, Saved, NEW m \in 0..Len(native),
         native' = SubSeq(native, 1, m)
  PROVE  Segments' /\ Saved' /\ Len(native') = m /\ \A i \in 1..m : native'[i] = native[i]
<1>1. Len(native') = m /\ \A i \in 1..m : native'[i] = native[i]
  BY PrefixFacts, Fields
<1>2. 1..m \subseteq Acts /\ m \in Nat /\ Len(native) \in Nat
  BY Fields DEF Acts
<1>3. Acts' = 1..m
  BY <1>1 DEF Acts
<1>4. native' # <<>> => m >= 1 /\ native # <<>> /\ native'[1] = native[1]
  BY <1>1, <1>2, Fields
<1>5. Segments'
  BY <1>1, <1>2, <1>3, <1>4 DEF Segments, Acts, Resumes
<1>6. Saved'
  <2>1. ASSUME NEW i \in 1..m
        PROVE  /\ native[i].b <= native[i].n /\ i <= Level(native[i])
               /\ native[i].n < MAXCCALLS + Reserve
               /\ Resumes(native[i]) => native[i].n = native[i].b
               /\ native[i].L = Main => native[i].n = i - 1
               /\ native[i].n = native[i].b
                    <=> \A j \in 1..i-1 : native[j].L = native[i].L => native[j].y
               /\ i > 1 /\ ~Resumes(native[i]) =>
                    /\ native[i].n >= Level(native[i - 1])
                    /\ native[i].n + native[i - 1].b
                         = native[i].b + native[i - 1].n + Blocks(native[i - 1])
    BY <1>2 DEF Saved
  <2>2. \A i \in 1..m : native'[i] = native[i] /\ (i > 1 => native'[i - 1] = native[i - 1])
                        /\ \A j \in 1..i-1 : native'[j] = native[j]
    BY <1>1, <1>2
  <2> QED BY <1>3, <2>1, <2>2 DEF Saved, Resumes, Level, Blocks
<1> QED BY <1>1, <1>5, <1>6

\* What an activation A finds when it is pushed by the running thread
LEMMA TopCounters ==
  ASSUME TypeOK, StackInv, control # "cstack", native # <<>>
  PROVE  LET B == native[Len(native)]
         IN /\ nCcalls[Running] >= Level(B) /\ Len(native) <= nCcalls[Running]
            /\ Running = Main => nCcalls[Running] = Len(native)
            /\ nCcalls[Running] + B.b = baseCcalls[Running] + B.n + Blocks(B)
            /\ baseCcalls[Running] <= nCcalls[Running]
            /\ nCcalls[Running] = baseCcalls[Running]
                 <=> \A j \in Acts : native[j].L = Running => native[j].y
<1> DEFINE l == Len(native)
           B == native[l]
<1>1. l \in Acts /\ Running = B.L /\ l \in Nat \ {0}
  BY Fields DEF Acts
<1>2. Innermost(l)
  BY DEF Innermost
<1>3. /\ nCcalls[Running] >= Level(B)
      /\ Running = Main => nCcalls[Running] = l
      /\ nCcalls[Running] + B.b = baseCcalls[Running] + B.n + Blocks(B)
  BY <1>1, <1>2 DEF StackInv, Counters
<1>4. /\ B.b <= B.n /\ l <= Level(B)
      /\ B.n = B.b <=> \A j \in 1..l-1 : native[j].L = Running => native[j].y
  BY <1>1 DEF StackInv, Saved
<1>5. /\ B.b \in Nat /\ B.n \in Nat /\ B.y \in BOOLEAN
      /\ nCcalls[Running] \in Nat /\ baseCcalls[Running] \in Nat
  BY <1>1, Fields
<1>6. Level(B) \in Nat /\ Level(B) >= B.n /\ Blocks(B) \in {0, 1} /\ (Blocks(B) = 0 <=> B.y)
  BY <1>5 DEF Level, Blocks
<1>7. (\A j \in Acts : native[j].L = Running => native[j].y)
        <=> B.y /\ \A j \in 1..l-1 : native[j].L = Running => native[j].y
  BY <1>1 DEF Acts
<1> HIDE DEF B, l
<1>8. nCcalls[Running] = baseCcalls[Running] <=> B.n = B.b /\ Blocks(B) = 0
  BY <1>3, <1>4, <1>5, <1>6
<1>9. l <= nCcalls[Running] /\ baseCcalls[Running] <= nCcalls[Running]
  BY <1>1, <1>3, <1>4, <1>5, <1>6
<1> QED BY <1>3, <1>4, <1>6, <1>7, <1>8, <1>9 DEF B, l

\* A Rust frame calls a function of the running thread: NativeCall, luaB_pcally.
Pushes(fn, y) ==
  /\ native' = Append(native, Activation(fn, Running, y))
  /\ nCcalls' = [nCcalls EXCEPT ![Running] = @ + 1]
  /\ \/ control' = "cstack" /\ UNCHANGED baseCcalls
     \/ /\ control' # "cstack" /\ ~Overflow(nCcalls[Running] + 1)
        /\ baseCcalls' = [baseCcalls EXCEPT ![Running] = IF y THEN @ + 1 ELSE @]

\* Where it is in the Lua stack
Sits(fn, y) ==
  IF native = <<>> THEN fn = "luaD_pcall" /\ ~y /\ ci[Main] = <<>>
                   ELSE Len(ci[Running]) > Last(native).at

LEMMA PushFields ==
  ASSUME TypeOK, NEW fn \in NativeFns, NEW y \in BOOLEAN, Pushes(fn, y), Len(ci[Running]) \in Nat
  PROVE  LET A == native'[Len(native) + 1]
         IN /\ Len(native') = Len(native) + 1 /\ native' \in Seq(Activations)
            /\ \A i \in Acts : native'[i] = native[i]
            /\ A.fn = fn /\ A.L = Running /\ A.at = Len(ci[Running]) /\ A.y = y
            /\ A.n = nCcalls[Running] /\ A.b = baseCcalls[Running]
            /\ Acts' = 1..Len(native) + 1 /\ Len(native) \in Nat
            /\ Running' = Running /\ native' # <<>>
<1> DEFINE A == Activation(fn, Running, y)
<1>1. /\ A \in Activations
      /\ A.fn = fn /\ A.L = Running /\ A.at = Len(ci[Running]) /\ A.y = y
      /\ A.n = nCcalls[Running] /\ A.b = baseCcalls[Running]
  BY Fields DEF Activation, Activations
<1> HIDE DEF A
<1>2. /\ native' = Append(native, A) /\ native \in Seq(Activations) /\ Len(native) \in Nat
  BY Fields DEF Pushes, A
<1>3. /\ native' \in Seq(Activations) /\ Len(native') = Len(native) + 1
      /\ native'[Len(native) + 1] = A
      /\ \A i \in 1..Len(native) : native'[i] = native[i]
  BY <1>1, <1>2, AppendFacts
<1>4. native' # <<>> /\ Last(native') = A
  <2>1. native' # <<>>
    BY <1>2, <1>3
  <2>2. Last(native') = native'[Len(native')]
    BY <1>3, <2>1, LastFacts
  <2> QED BY <1>2, <1>3, <2>1, <2>2
<1>5. Running' = Running
  BY <1>1, <1>4 DEF Running
<1> QED BY <1>1, <1>2, <1>3, <1>4, <1>5 DEF Acts

LEMMA PushSegments ==
  ASSUME TypeOK, Segments, NEW fn \in NativeFns, fn # "lua_resume", NEW y \in BOOLEAN,
         Pushes(fn, y), Sits(fn, y), Len(ci[Running]) \in Nat
  PROVE  Segments'
<1> DEFINE l == Len(native)
           A == native'[l + 1]
<1>1. /\ l \in Nat /\ Acts = 1..l /\ Acts' = 1..l + 1 /\ Len(native') = l + 1
      /\ \A i \in 1..l : native'[i] = native[i]
      /\ A.fn = fn /\ A.L = Running /\ A.at = Len(ci[Running]) /\ A.y = y
  BY PushFields DEF Acts
<1>2. l > 0 => l \in 1..l /\ Running = native[l].L /\ A.at > native[l].at
  BY <1>1, Fields DEF Sits
<1>3. l = 0 => A.fn = "luaD_pcall" /\ ~A.y /\ A.L = Main /\ A.at = 0
  BY <1>1, Fields DEF Sits
<1>4. \A i \in 1..l : native[i].at \in Nat /\ native[l].at \in Nat /\ A.at \in Nat
  BY <1>1, Fields DEF Acts
<1>5. ~Resumes(A)
  BY <1>1 DEF Resumes
<1> HIDE DEF A, l
<1>6. \A i, j, k \in 1..l + 1 :
        Resumes(native'[i]) /\ j < i /\ i <= k => native'[j].L # native'[k].L
  <2> SUFFICES ASSUME NEW i \in 1..l + 1, NEW j \in 1..l + 1, NEW k \in 1..l + 1,
                      Resumes(native'[i]), j < i, i <= k
               PROVE  native'[j].L # native'[k].L
    OBVIOUS
  <2>1. i \in 1..l /\ j \in 1..l
    BY <1>1, <1>5 DEF A
  <2>2. CASE k = l + 1
    <3>1. native[j].L # native[l].L
      <4>1. Resumes(native[i]) /\ l \in 1..l /\ i <= l
        BY <1>1, <2>1
      <4> QED BY <1>1, <2>1, <4>1 DEF Segments
    <3> QED BY <1>1, <1>2, <2>1, <2>2, <3>1 DEF A
  <2>3. CASE k # l + 1
    <3>1. /\ Resumes(native[i]) /\ k \in 1..l
          /\ native'[j] = native[j] /\ native'[k] = native[k]
      BY <1>1, <2>1, <2>3
    <3> QED BY <1>1, <2>1, <3>1 DEF Segments
  <2> QED BY <2>2, <2>3
<1>7. \A i \in 1..l + 1 : Resumes(native'[i]) =>
        /\ native'[i].L \in Coroutines /\ native'[i].at = 0 /\ native'[i].y
        /\ \A j \in i..l + 1 : native'[j].L # Main
  <2> SUFFICES ASSUME NEW i \in 1..l + 1, Resumes(native'[i])
               PROVE  /\ native'[i].L \in Coroutines /\ native'[i].at = 0 /\ native'[i].y
                      /\ \A j \in i..l + 1 : native'[j].L # Main
    OBVIOUS
  <2>1. i \in 1..l
    BY <1>1, <1>5 DEF A
  <2>2. /\ native[i].L \in Coroutines /\ native[i].at = 0 /\ native[i].y
        /\ \A j \in i..l : native[j].L # Main
    BY <1>1, <2>1 DEF Segments, l
  <2>3. A.L # Main
    BY <1>1, <1>2, <2>1, <2>2
  <2> QED BY <1>1, <2>1, <2>2, <2>3 DEF A
<1>8. \A i, j \in 1..l + 1 :
        i <= j /\ (\A k \in i+1..j : ~Resumes(native'[k])) => native'[j].L = native'[i].L
  <2> SUFFICES ASSUME NEW i \in 1..l + 1, NEW j \in 1..l + 1, i <= j,
                      \A k \in i+1..j : ~Resumes(native'[k])
               PROVE  native'[j].L = native'[i].L
    OBVIOUS
  <2>1. CASE i = l + 1
    BY <1>1, <2>1
  <2>2. CASE i # l + 1 /\ j = l + 1
    <3>1. \A k \in i+1..l : ~Resumes(native[k])
      BY <1>1, <2>2
    <3>2. native[l].L = native[i].L
      BY <1>1, <2>2, <3>1 DEF Segments
    <3> QED BY <1>1, <1>2, <2>2, <3>2 DEF A
  <2>3. CASE i # l + 1 /\ j # l + 1
    <3>1. \A k \in i+1..j : ~Resumes(native[k])
      BY <1>1, <2>3
    <3> QED BY <1>1, <2>3, <3>1 DEF Segments
  <2> QED BY <2>1, <2>2, <2>3
<1>9. \A i, j \in 1..l + 1 :
        i < j /\ native'[i].L = native'[j].L => native'[i].at < native'[j].at
  <2> SUFFICES ASSUME NEW i \in 1..l + 1, NEW j \in 1..l + 1, i < j, native'[i].L = native'[j].L
               PROVE  native'[i].at < native'[j].at
    OBVIOUS
  <2>1. i \in 1..l /\ native'[i] = native[i]
    BY <1>1
  <2>2. CASE j = l + 1
    <3>1. native[i].at <= native[l].at
      <4>1. l \in 1..l /\ native[i].L = native[l].L /\ native[i].at \in Nat
        BY <1>1, <1>2, <1>4, <2>1, <2>2 DEF A
      <4>2. i < l => native[i].at < native[l].at
        BY <1>1, <2>1, <4>1 DEF Segments
      <4> QED BY <1>1, <1>4, <2>1, <4>1, <4>2
    <3>2. native[l].at < A.at /\ native[l].at \in Nat /\ native[i].at \in Nat /\ A.at \in Nat
      BY <1>1, <1>2, <1>4, <2>1
    <3> QED BY <2>1, <2>2, <3>1, <3>2 DEF A
  <2>3. CASE j # l + 1
    BY <1>1, <2>1, <2>3 DEF Segments
  <2> QED BY <2>2, <2>3
<1>10. ~Resumes(native'[1]) =>
         /\ native'[1].fn = "luaD_pcall" /\ native'[1].L = Main
         /\ native'[1].at = 0 /\ ~native'[1].y
  BY <1>1, <1>3, Fields DEF Segments, A, l
<1> QED BY <1>1, <1>6, <1>7, <1>8, <1>9, <1>10 DEF Segments

LEMMA PushSaved ==
  ASSUME TypeOK, StackInv, control # "cstack",
         NEW fn \in NativeFns, fn # "lua_resume", NEW y \in BOOLEAN,
         Pushes(fn, y), Sits(fn, y), Len(ci[Running]) \in Nat
  PROVE  Saved'
<1> DEFINE l == Len(native)
           A == native'[l + 1]
           B == native[l]
<1>1. /\ l \in Nat /\ Acts = 1..l /\ Acts' = 1..l + 1
      /\ \A i \in 1..l : native'[i] = native[i]
      /\ A.fn = fn /\ A.L = Running /\ A.y = y
      /\ A.n = nCcalls[Running] /\ A.b = baseCcalls[Running]
      /\ nCcalls[Running] \in Nat /\ baseCcalls[Running] \in Nat
  BY PushFields, Fields DEF Acts
<1>2. ~Resumes(A) /\ Level(A) = A.n + 1
  BY <1>1 DEF Resumes, Level
<1>3. nCcalls[Running] < MAXCCALLS + Reserve
  BY Fields DEF StackInv, Counters
<1>4. l > 0 => /\ Running = B.L /\ A.n >= Level(B) /\ l <= A.n /\ A.b <= A.n
               /\ Running = Main => A.n = l
               /\ A.n + B.b = A.b + B.n + Blocks(B)
               /\ A.n = A.b <=> \A j \in 1..l : native[j].L = Running => native[j].y
  BY <1>1, TopCounters, Fields DEF Acts
<1>5. l = 0 => A.n = 0 /\ A.b = 0 /\ A.L = Main
  BY <1>1, Fields DEF StackInv, Counters, Active
<1>6. \A i \in 1..l :
        /\ native[i].b <= native[i].n
        /\ i <= Level(native[i])
        /\ native[i].n < MAXCCALLS + Reserve
        /\ Resumes(native[i]) => native[i].n = native[i].b
        /\ native[i].L = Main => native[i].n = i - 1
        /\ native[i].n = native[i].b
             <=> \A j \in 1..i-1 : native[j].L = native[i].L => native[j].y
  BY <1>1 DEF StackInv, Saved, l
<1>7. \A i \in 1..l : i > 1 /\ ~Resumes(native[i]) =>
        /\ native[i].n >= Level(native[i - 1])
        /\ native[i].n + native[i - 1].b
             = native[i].b + native[i - 1].n + Blocks(native[i - 1])
  BY <1>1 DEF StackInv, Saved, l
<1> HIDE DEF A, B, l
<1>8. \A i \in 1..l + 1 :
        /\ native'[i].b <= native'[i].n
        /\ i <= Level(native'[i])
        /\ native'[i].n < MAXCCALLS + Reserve
        /\ Resumes(native'[i]) => native'[i].n = native'[i].b
        /\ native'[i].L = Main => native'[i].n = i - 1
        /\ native'[i].n = native'[i].b
             <=> \A j \in 1..i-1 : native'[j].L = native'[i].L => native'[j].y
  <2>1. CASE l > 0
    <3> SUFFICES ASSUME NEW i \in 1..l + 1
                 PROVE  /\ native'[i].b <= native'[i].n
                        /\ i <= Level(native'[i])
                        /\ native'[i].n < MAXCCALLS + Reserve
                        /\ Resumes(native'[i]) => native'[i].n = native'[i].b
                        /\ native'[i].L = Main => native'[i].n = i - 1
                        /\ native'[i].n = native'[i].b
                             <=> \A j \in 1..i-1 : native'[j].L = native'[i].L => native'[j].y
      OBVIOUS
    <3>1. CASE i \in 1..l
      BY <1>1, <1>6, <3>1
    <3>2. CASE i = l + 1
      BY <1>1, <1>2, <1>3, <1>4, <2>1, <3>2 DEF A
    <3> QED BY <1>1, <3>1, <3>2
  <2>2. CASE l = 0
    BY <1>1, <1>2, <1>3, <1>5, <2>2 DEF A
  <2> QED BY <1>1, <2>1, <2>2
<1>9. \A i \in 1..l + 1 : i > 1 /\ ~Resumes(native'[i]) =>
        /\ native'[i].n >= Level(native'[i - 1])
        /\ native'[i].n + native'[i - 1].b
             = native'[i].b + native'[i - 1].n + Blocks(native'[i - 1])
  <2> SUFFICES ASSUME NEW i \in 1..l + 1, i > 1, ~Resumes(native'[i])
               PROVE  /\ native'[i].n >= Level(native'[i - 1])
                      /\ native'[i].n + native'[i - 1].b
                           = native'[i].b + native'[i - 1].n + Blocks(native'[i - 1])
    OBVIOUS
  <2>1. i - 1 \in 1..l /\ native'[i - 1] = native[i - 1]
    BY <1>1
  <2>2. CASE i \in 1..l
    BY <1>1, <1>7, <2>1, <2>2
  <2>3. CASE i = l + 1
    BY <1>1, <1>4, <2>1, <2>3 DEF A, B
  <2> QED BY <1>1, <2>2, <2>3
<1> QED BY <1>1, <1>8, <1>9 DEF Saved

LEMMA PushStack ==
  ASSUME TypeOK, StackInv, control # "cstack", CoroutineAssumption,
         NEW fn \in NativeFns, fn # "lua_resume", NEW y \in BOOLEAN,
         Pushes(fn, y), Sits(fn, y), Len(ci[Running]) \in Nat
  PROVE  StackInv'
<1> DEFINE l == Len(native)
           A == native'[l + 1]
<1>1. Segments' /\ Saved'
  BY PushSegments, PushSaved DEF StackInv
<1>2. /\ l \in Nat /\ Acts = 1..l /\ Acts' = 1..l + 1 /\ Len(native') = l + 1
      /\ \A i \in 1..l : native'[i] = native[i]
      /\ A.fn = fn /\ A.L = Running /\ A.y = y
      /\ A.n = nCcalls[Running] /\ A.b = baseCcalls[Running]
      /\ Running' = Running /\ native' # <<>>
      /\ Running \in Threads /\ nCcalls[Running] \in Nat /\ baseCcalls[Running] \in Nat
  BY PushFields, Fields DEF Acts
<1>3. /\ nCcalls'[Running] = nCcalls[Running] + 1
      /\ \A L \in Threads \ {Running} :
           nCcalls'[L] = nCcalls[L] /\ baseCcalls'[L] = baseCcalls[L]
      /\ \/ control' = "cstack"
         \/ /\ control' # "cstack" /\ nCcalls[Running] + 1 < MAXCCALLS + Reserve
            /\ baseCcalls'[Running] = IF y THEN baseCcalls[Running] + 1 ELSE baseCcalls[Running]
  BY <1>2, CoroutineAssumption DEF Pushes, TypeOK, Overflow
<1>4. ~Resumes(A) /\ Level(A) = A.n + 1 /\ Blocks(A) = IF y THEN 0 ELSE 1
  BY <1>2 DEF Resumes, Level, Blocks
<1>5. Running = Main => nCcalls[Main] = l
  <2>1. CASE l = 0
    <3>1. ~Active(Main)
      BY <2>1 DEF Active
    <3> QED BY <2>1, <3>1 DEF StackInv, Counters
  <2>2. CASE l # 0
    BY <2>2, TopCounters, Fields
  <2> QED BY <2>1, <2>2
<1> HIDE DEF l, A
<1>6. \A i \in 1..l : Innermost(i) /\ i # l =>
        /\ native[i].L \in Threads \ {Running}
        /\ nCcalls[native[i].L] >= Level(native[i])
        /\ native[i].L = Main => nCcalls[native[i].L] = i
        /\ nCcalls[native[i].L] + native[i].b
             = baseCcalls[native[i].L] + native[i].n + Blocks(native[i])
  BY <1>2, OtherThread, Fields DEF StackInv, Counters, l
<1>7. ASSUME NEW i \in 1..l + 1, Innermost(i)'
      PROVE  /\ nCcalls'[native'[i].L] >= Level(native'[i])
             /\ native'[i].L = Main => nCcalls'[native'[i].L] = i
             /\ \/ nCcalls'[native'[i].L] + native'[i].b
                     = baseCcalls'[native'[i].L] + native'[i].n + Blocks(native'[i])
                \/ control' = "cstack" /\ i = l + 1
  <2>1. CASE i = l + 1
    <3>1. /\ native'[i] = A /\ A.L = Running /\ A.y = y
          /\ A.n = nCcalls[Running] /\ A.b = baseCcalls[Running]
          /\ nCcalls[Running] \in Nat /\ baseCcalls[Running] \in Nat /\ l \in Nat
      BY <1>2, <2>1 DEF A
    <3>2. nCcalls'[Running] >= Level(A) /\ (Running = Main => nCcalls'[Running] = i)
      BY <1>3, <1>4, <1>5, <2>1, <3>1
    <3>3. \/ nCcalls'[Running] + A.b = baseCcalls'[Running] + A.n + Blocks(A)
          \/ control' = "cstack"
      BY <1>3, <1>4, <3>1
    <3> QED BY <2>1, <3>1, <3>2, <3>3
  <2>2. CASE i # l + 1
    <3>1. i \in 1..l /\ native'[i] = native[i]
      BY <1>2, <2>2
    <3>2. Resumes(native'[i + 1])
      BY <1>2, <1>7, <2>2 DEF Innermost, Resumes
    <3>3. i + 1 \in 1..l
      BY <1>2, <1>4, <3>1, <3>2 DEF A
    <3>4. Innermost(i) /\ i # l
      BY <1>2, <3>2, <3>3 DEF Innermost, Resumes
    <3> QED BY <1>3, <1>6, <3>1, <3>4
  <2> QED BY <2>1, <2>2
<1>8. \A L \in Threads :
        nCcalls'[L] < MAXCCALLS + Reserve \/ (control' = "cstack" /\ L = Running')
  BY <1>2, <1>3 DEF StackInv, Counters
<1>9. ~Active(Main)' => nCcalls'[Main] = 0 /\ baseCcalls'[Main] = 0
  <2> SUFFICES ASSUME ~Active(Main)'
               PROVE  nCcalls'[Main] = 0 /\ baseCcalls'[Main] = 0
    OBVIOUS
  <2>1. Running # Main
    BY <1>2 DEF Active, A
  <2>2. ~Active(Main)
    BY <1>2 DEF Active, l
  <2> QED BY <1>3, <2>1, <2>2 DEF StackInv, Counters, Threads
<1> QED BY <1>1, <1>2, <1>7, <1>8, <1>9 DEF StackInv, Counters

\* lua_resume or lua_resumeerror enters a coroutine that is not active.
Enters(co) ==
  LET n == nCcalls[Running] + 1
  IN /\ ~Active(co)
     /\ nCcalls[Running] < MAXCCALLS
     /\ nCcalls' = [nCcalls EXCEPT ![co] = n]
     /\ baseCcalls' = [baseCcalls EXCEPT ![co] = n]
     /\ native' = Append(native, [fn |-> "lua_resume", L |-> co, at |-> 0,
                                  n |-> n, b |-> n, y |-> TRUE])
     /\ control' # "cstack"

LEMMA EnterFields ==
  ASSUME TypeOK, NEW co \in Coroutines, Enters(co)
  PROVE  LET A == native'[Len(native) + 1]
         IN /\ Len(native') = Len(native) + 1 /\ native' \in Seq(Activations)
            /\ \A i \in Acts : native'[i] = native[i]
            /\ A.fn = "lua_resume" /\ A.L = co /\ A.at = 0 /\ A.y
            /\ A.n = nCcalls[Running] + 1 /\ A.b = nCcalls[Running] + 1
            /\ Acts' = 1..Len(native) + 1 /\ Len(native) \in Nat
            /\ Running' = co /\ native' # <<>> /\ Last(native') = A
            /\ \A i \in Acts : native[i].L # co
            /\ co # Running
<1> DEFINE n == nCcalls[Running] + 1
           A == [fn |-> "lua_resume", L |-> co, at |-> 0, n |-> n, b |-> n, y |-> TRUE]
<1>1. /\ A \in Activations
      /\ A.fn = "lua_resume" /\ A.L = co /\ A.at = 0 /\ A.y /\ A.n = n /\ A.b = n
  BY Fields DEF Activations, NativeFns, Threads
<1>2. /\ native' = Append(native, A) /\ native \in Seq(Activations) /\ Len(native) \in Nat
  BY Fields DEF Enters
<1> HIDE DEF A
<1>3. /\ native' \in Seq(Activations) /\ Len(native') = Len(native) + 1
      /\ native'[Len(native) + 1] = A
      /\ \A i \in 1..Len(native) : native'[i] = native[i]
  BY <1>1, <1>2, AppendFacts
<1>4. native' # <<>> /\ Last(native') = A
  <2>1. native' # <<>>
    BY <1>2, <1>3
  <2>2. Last(native') = native'[Len(native')]
    BY <1>3, <2>1, LastFacts
  <2> QED BY <1>2, <1>3, <2>1, <2>2
<1>5. Running' = co
  BY <1>1, <1>4 DEF Running
<1>6. \A i \in Acts : native[i].L # co
  BY DEF Enters, Active, Acts
<1>7. co # Running
  BY <1>6, Fields, CoroutineAssumption
<1> QED BY <1>1, <1>2, <1>3, <1>4, <1>5, <1>6, <1>7 DEF Acts

LEMMA EnterSegments ==
  ASSUME TypeOK, Segments, NEW co \in Coroutines, Enters(co)
  PROVE  Segments'
<1> DEFINE l == Len(native)
           A == native'[l + 1]
<1>1. /\ l \in Nat /\ Acts = 1..l /\ Acts' = 1..l + 1 /\ Len(native') = l + 1
      /\ \A i \in 1..l : native'[i] = native[i] /\ native[i].L # co
      /\ A.L = co /\ A.at = 0 /\ A.y /\ Resumes(A) /\ co # Main
  BY EnterFields, CoroutineAssumption DEF Acts, Resumes
<1> HIDE DEF A, l
<1>2. \A i, j, k \in 1..l + 1 :
        Resumes(native'[i]) /\ j < i /\ i <= k => native'[j].L # native'[k].L
  <2> SUFFICES ASSUME NEW i \in 1..l + 1, NEW j \in 1..l + 1, NEW k \in 1..l + 1,
                      Resumes(native'[i]), j < i, i <= k
               PROVE  native'[j].L # native'[k].L
    OBVIOUS
  <2>1. j \in 1..l /\ native'[j] = native[j] /\ native[j].L # co
    BY <1>1
  <2>2. CASE k = l + 1
    BY <1>1, <2>1, <2>2 DEF A
  <2>3. CASE k # l + 1
    <3>1. /\ Resumes(native[i]) /\ i \in 1..l /\ k \in 1..l /\ native'[k] = native[k]
      BY <1>1, <2>3
    <3> QED BY <1>1, <2>1, <3>1 DEF Segments
  <2> QED BY <2>2, <2>3
<1>3. \A i \in 1..l + 1 : Resumes(native'[i]) =>
        /\ native'[i].L \in Coroutines /\ native'[i].at = 0 /\ native'[i].y
        /\ \A j \in i..l + 1 : native'[j].L # Main
  <2> SUFFICES ASSUME NEW i \in 1..l + 1, Resumes(native'[i])
               PROVE  /\ native'[i].L \in Coroutines /\ native'[i].at = 0 /\ native'[i].y
                      /\ \A j \in i..l + 1 : native'[j].L # Main
    OBVIOUS
  <2>1. CASE i = l + 1
    BY <1>1, <2>1 DEF A
  <2>2. CASE i # l + 1
    <3>1. i \in 1..l /\ native'[i] = native[i] /\ Resumes(native[i])
      BY <1>1, <2>2
    <3>2. /\ native[i].L \in Coroutines /\ native[i].at = 0 /\ native[i].y
          /\ \A j \in i..l : native[j].L # Main
      BY <1>1, <3>1 DEF Segments, l
    <3> QED BY <1>1, <3>1, <3>2 DEF A
  <2> QED BY <2>1, <2>2
<1>4. \A i, j \in 1..l + 1 :
        i <= j /\ (\A k \in i+1..j : ~Resumes(native'[k])) => native'[j].L = native'[i].L
  <2> SUFFICES ASSUME NEW i \in 1..l + 1, NEW j \in 1..l + 1, i <= j,
                      \A k \in i+1..j : ~Resumes(native'[k])
               PROVE  native'[j].L = native'[i].L
    OBVIOUS
  <2>1. CASE j = l + 1
    <3>1. i = l + 1
      BY <1>1, <2>1 DEF A
    <3> QED BY <2>1, <3>1
  <2>2. CASE j # l + 1
    <3>1. i \in 1..l /\ j \in 1..l /\ \A k \in i+1..j : ~Resumes(native[k])
      BY <1>1, <2>2
    <3> QED BY <1>1, <3>1 DEF Segments
  <2> QED BY <2>1, <2>2
<1>5. \A i, j \in 1..l + 1 :
        i < j /\ native'[i].L = native'[j].L => native'[i].at < native'[j].at
  <2> SUFFICES ASSUME NEW i \in 1..l + 1, NEW j \in 1..l + 1, i < j, native'[i].L = native'[j].L
               PROVE  native'[i].at < native'[j].at
    OBVIOUS
  <2>1. i \in 1..l /\ native'[i] = native[i] /\ native[i].L # co
    BY <1>1
  <2>2. j # l + 1
    BY <1>1, <2>1 DEF A
  <2>3. j \in 1..l /\ native'[j] = native[j]
    BY <1>1, <2>2
  <2> QED BY <1>1, <2>1, <2>3 DEF Segments
<1>6. ~Resumes(native'[1]) =>
         /\ native'[1].fn = "luaD_pcall" /\ native'[1].L = Main
         /\ native'[1].at = 0 /\ ~native'[1].y
  <2>1. CASE l = 0
    BY <1>1, <2>1 DEF A
  <2>2. CASE l # 0
    <3>1. native'[1] = native[1] /\ native # <<>>
      BY <1>1, <2>2, Fields DEF l
    <3> QED BY <3>1 DEF Segments
  <2> QED BY <2>1, <2>2
<1> QED BY <1>1, <1>2, <1>3, <1>4, <1>5, <1>6 DEF Segments

LEMMA EnterStack ==
  ASSUME TypeOK, StackInv, control # "cstack", HasReserve, NEW co \in Coroutines, Enters(co)
  PROVE  StackInv'
<1> DEFINE l == Len(native)
           A == native'[l + 1]
           n == nCcalls[Running] + 1
<1>1. Segments'
  BY EnterSegments DEF StackInv
<1>2. /\ l \in Nat /\ Acts = 1..l /\ Acts' = 1..l + 1 /\ Len(native') = l + 1
      /\ \A i \in 1..l : native'[i] = native[i] /\ native[i].L # co /\ native[i].L \in Threads
      /\ A.L = co /\ A.y /\ A.n = n /\ A.b = n /\ Resumes(A)
      /\ Running' = co /\ native' # <<>> /\ co # Main /\ co \in Threads /\ n \in Nat \ {0}
  BY EnterFields, Fields, CoroutineAssumption DEF Acts, Resumes, Threads
<1>3. /\ nCcalls'[co] = n /\ baseCcalls'[co] = n
      /\ \A L \in Threads \ {co} : nCcalls'[L] = nCcalls[L] /\ baseCcalls'[L] = baseCcalls[L]
      /\ n < MAXCCALLS + Reserve /\ control' # "cstack"
  BY <1>2, Fields, CoroutineAssumption DEF Enters, TypeOK, HasReserve
<1>4. Level(A) = n /\ Blocks(A) = 0
  BY <1>2 DEF Resumes, Level, Blocks
<1>5. l + 1 <= n
  <2>1. l > 0 => l <= nCcalls[Running]
    BY <1>2, TopCounters, Fields
  <2> QED BY <1>2, <2>1, Fields
<1> HIDE DEF n
<1>6. \A i \in 1..l :
        /\ native[i].b <= native[i].n
        /\ i <= Level(native[i])
        /\ native[i].n < MAXCCALLS + Reserve
        /\ Resumes(native[i]) => native[i].n = native[i].b
        /\ native[i].L = Main => native[i].n = i - 1
        /\ native[i].n = native[i].b
             <=> \A j \in 1..i-1 : native[j].L = native[i].L => native[j].y
        /\ i > 1 /\ ~Resumes(native[i]) =>
             /\ native[i].n >= Level(native[i - 1])
             /\ native[i].n + native[i - 1].b
                  = native[i].b + native[i - 1].n + Blocks(native[i - 1])
  BY <1>2 DEF StackInv, Saved
<1>7. \A i \in 1..l : Innermost(i) =>
        /\ nCcalls[native[i].L] >= Level(native[i])
        /\ native[i].L = Main => nCcalls[native[i].L] = i
        /\ nCcalls[native[i].L] + native[i].b
             = baseCcalls[native[i].L] + native[i].n + Blocks(native[i])
  BY <1>2 DEF StackInv, Counters
<1> HIDE DEF l, A
<1>8. Saved'
  <2>1. ASSUME NEW i \in 1..l + 1
        PROVE  /\ native'[i].b <= native'[i].n
               /\ i <= Level(native'[i])
               /\ native'[i].n < MAXCCALLS + Reserve
               /\ Resumes(native'[i]) => native'[i].n = native'[i].b
               /\ native'[i].L = Main => native'[i].n = i - 1
               /\ native'[i].n = native'[i].b
                    <=> \A j \in 1..i-1 : native'[j].L = native'[i].L => native'[j].y
    <3>1. CASE i \in 1..l
      <4>1. native'[i] = native[i] /\ \A j \in 1..i-1 : native'[j] = native[j]
        BY <1>2, <3>1
      <4>2. /\ native[i].b <= native[i].n
            /\ i <= Level(native[i])
            /\ native[i].n < MAXCCALLS + Reserve
            /\ Resumes(native[i]) => native[i].n = native[i].b
            /\ native[i].L = Main => native[i].n = i - 1
            /\ native[i].n = native[i].b
                 <=> \A j \in 1..i-1 : native[j].L = native[i].L => native[j].y
        BY <1>6, <3>1
      <4> QED BY ONLY <4>1, <4>2
    <3>2. CASE i = l + 1
      BY <1>2, <1>3, <1>4, <1>5, <3>2 DEF A
    <3> QED BY <1>2, <3>1, <3>2
  <2>2. ASSUME NEW i \in 1..l + 1, i > 1, ~Resumes(native'[i])
        PROVE  /\ native'[i].n >= Level(native'[i - 1])
               /\ native'[i].n + native'[i - 1].b
                    = native'[i].b + native'[i - 1].n + Blocks(native'[i - 1])
    <3>1. i # l + 1
      BY <1>2, <2>2 DEF A
    <3>2. i \in 1..l /\ i - 1 \in 1..l
      BY <1>2, <2>2, <3>1
    <3> QED BY <1>2, <1>6, <2>2, <3>2
  <2> QED BY <1>2, <2>1, <2>2 DEF Saved
<1>9. ASSUME NEW i \in 1..l + 1, Innermost(i)'
      PROVE  /\ nCcalls'[native'[i].L] >= Level(native'[i])
             /\ native'[i].L = Main => nCcalls'[native'[i].L] = i
             /\ nCcalls'[native'[i].L] + native'[i].b
                  = baseCcalls'[native'[i].L] + native'[i].n + Blocks(native'[i])
  <2>1. CASE i = l + 1
    <3>1. native'[i] = A
      BY <2>1 DEF A
    <3> QED BY <1>2, <1>3, <1>4, <3>1
  <2>2. CASE i # l + 1
    <3>1. i \in 1..l /\ native'[i] = native[i] /\ native[i].L \in Threads \ {co}
      BY <1>2, <2>2
    <3>2. i = l \/ (i + 1 \in 1..l /\ native'[i + 1] = native[i + 1])
      BY <1>2, <3>1
    <3>3. Innermost(i)
      BY <1>2, <1>9, <2>2, <3>2 DEF Innermost, Resumes, l
    <3> QED BY <1>3, <1>7, <3>1, <3>3
  <2> QED BY <2>1, <2>2
<1>10. \A L \in Threads : nCcalls'[L] < MAXCCALLS + Reserve
  BY <1>2, <1>3 DEF StackInv, Counters
<1>11. ~Active(Main)' => nCcalls'[Main] = 0 /\ baseCcalls'[Main] = 0
  <2> SUFFICES ASSUME ~Active(Main)'
               PROVE  nCcalls'[Main] = 0 /\ baseCcalls'[Main] = 0
    OBVIOUS
  <2>1. ~Active(Main)
    BY <1>2 DEF Active, l
  <2> QED BY <1>2, <1>3, <2>1 DEF StackInv, Counters, Threads
<1> QED BY <1>1, <1>2, <1>8, <1>9, <1>10, <1>11 DEF StackInv, Counters

\* A Rust frame is left: its callee returned, or yielded.
Leaves ==
  LET A == Last(native)
  IN /\ native # <<>> /\ ~Resumes(A)
     /\ native' = Front(native)
     /\ \/ /\ nCcalls' = [nCcalls EXCEPT ![A.L] = @ - 1]
           /\ baseCcalls' = [baseCcalls EXCEPT ![A.L] = IF A.y THEN @ - 1 ELSE @]
        \/ A.y /\ A.L # Main /\ UNCHANGED ccalls

LEMMA LeaveFields ==
  ASSUME TypeOK, StackInv, Leaves, control # "cstack"
  PROVE  LET l == Len(native)
             A == native[l]
         IN /\ l \in Nat \ {0} /\ A = Last(native) /\ A.L = Running /\ ~Resumes(A)
            /\ native' = SubSeq(native, 1, l - 1) /\ native' \in Seq(Activations)
            /\ Len(native') = l - 1
            /\ \A i \in 1..l - 1 : native'[i] = native[i]
            /\ l > 1 => native[l - 1].L = Running
            /\ Running' = Running
            /\ nCcalls[Running] \in Nat \ {0} /\ baseCcalls[Running] \in Nat
            /\ A.y => baseCcalls[Running] > 0
<1> DEFINE l == Len(native)
           A == native[l]
<1>1. /\ l \in Nat \ {0} /\ l \in Acts /\ A = Last(native) /\ A.L = Running /\ ~Resumes(A)
      /\ A.n \in Nat /\ A.b \in Nat /\ A.y \in BOOLEAN
      /\ nCcalls[Running] \in Nat /\ baseCcalls[Running] \in Nat
  BY Fields DEF Leaves, Acts
<1>2. native' = SubSeq(native, 1, l - 1) /\ l - 1 \in 0..l
  BY <1>1 DEF Leaves, Front
<1>3. /\ native' \in Seq(Activations) /\ Len(native') = l - 1
      /\ \A i \in 1..l - 1 : native'[i] = native[i]
  BY <1>2, PrefixFacts, Fields
<1>4. ASSUME l > 1 PROVE native[l - 1].L = Running
  <2>1. l - 1 \in Acts /\ l \in Acts /\ l - 1 <= l /\ \A k \in (l - 1) + 1..l : ~Resumes(native[k])
    BY <1>1, <1>4 DEF Acts
  <2> HIDE DEF l
  <2>2. native[l].L = native[l - 1].L
    BY <2>1 DEF StackInv, Segments
  <2> QED BY <1>1, <2>2
<1>5. Running' = Running
  <2>1. CASE l = 1
    <3>1. native' = <<>>
      BY <1>3, <2>1
    <3>2. native[1].L = Main
      <4>1. native # <<>> /\ ~Resumes(native[1])
        BY <1>1, <2>1, Fields
      <4> QED BY <4>1 DEF StackInv, Segments
    <3>3. Running' = Main
      BY <3>1 DEF Running
    <3> QED BY <1>1, <2>1, <3>2, <3>3
  <2>2. CASE l > 1
    <3>1. native' # <<>> /\ Len(native') = l - 1 /\ native'[l - 1] = native[l - 1]
      BY <1>1, <1>3, <2>2
    <3>2. Last(native') = native[l - 1]
      BY <1>3, <3>1, LastFacts
    <3>3. Running' = Last(native').L
      BY <3>1 DEF Running
    <3>4. native[l - 1].L = Running
      BY <1>4, <2>2
    <3> HIDE DEF l
    <3> QED BY <3>2, <3>3, <3>4
  <2>3. l \in Nat \ {0}
    BY <1>1
  <2> HIDE DEF l, A
  <2>4. l = 1 \/ l > 1
    BY <2>3
  <2> QED BY <2>1, <2>2, <2>4
<1>6. /\ nCcalls[Running] >= Level(A)
      /\ nCcalls[Running] + A.b = baseCcalls[Running] + A.n + Blocks(A)
  BY <1>1, TopCounters
<1>7. Level(A) = A.n + 1 /\ (A.y => Blocks(A) = 0)
  BY <1>1 DEF Level, Blocks
<1>8. nCcalls[Running] > 0 /\ (A.y => baseCcalls[Running] > 0)
  BY <1>1, <1>6, <1>7
<1> QED BY <1>1, <1>2, <1>3, <1>4, <1>5, <1>8

LEMMA LeaveStack ==
  ASSUME TypeOK, StackInv, control # "cstack", control' # "cstack", Leaves
  PROVE  StackInv'
<1> DEFINE l == Len(native)
           A == native[l]
           B == native[l - 1]
<1>1. /\ l \in Nat \ {0} /\ l \in Acts /\ Acts = 1..l
      /\ A = Last(native) /\ A.L = Running /\ ~Resumes(A)
      /\ native' = SubSeq(native, 1, l - 1) /\ Len(native') = l - 1
      /\ \A i \in 1..l - 1 : native'[i] = native[i]
      /\ l > 1 => B.L = Running
      /\ Running' = Running
      /\ nCcalls[Running] \in Nat \ {0} /\ baseCcalls[Running] \in Nat
      /\ A.y => baseCcalls[Running] > 0
      /\ A.n \in Nat /\ A.b \in Nat /\ A.y \in BOOLEAN /\ Running \in Threads
      /\ l - 1 \in 0..l /\ Acts' = 1..l - 1
  BY LeaveFields, Fields DEF Acts
<1>2. Segments' /\ Saved'
  BY <1>1, StackCut DEF StackInv
<1>3. /\ \A L \in Threads \ {Running} : nCcalls'[L] = nCcalls[L] /\ baseCcalls'[L] = baseCcalls[L]
      /\ \/ /\ nCcalls'[Running] = nCcalls[Running] - 1
            /\ baseCcalls'[Running] = IF A.y THEN baseCcalls[Running] - 1 ELSE baseCcalls[Running]
         \/ /\ A.y /\ Running # Main
            /\ nCcalls'[Running] = nCcalls[Running] /\ baseCcalls'[Running] = baseCcalls[Running]
  BY <1>1 DEF Leaves, ccalls, TypeOK
<1>4. /\ nCcalls[Running] >= A.n + 1
      /\ Running = Main => nCcalls[Running] = l
      /\ nCcalls[Running] + A.b = baseCcalls[Running] + A.n + (IF A.y THEN 0 ELSE 1)
  BY <1>1, TopCounters DEF Level, Blocks
<1>5. /\ A.b <= A.n /\ (A.L = Main => A.n = l - 1)
      /\ l > 1 => /\ A.n >= Level(B)
                  /\ A.n + B.b = A.b + B.n + Blocks(B)
  BY <1>1 DEF StackInv, Saved
<1>6. l > 1 => /\ Level(B) \in Nat /\ Blocks(B) \in Nat /\ B.n \in Nat /\ B.b \in Nat
  BY <1>1, Fields DEF Level, Blocks, Acts
<1>7. /\ nCcalls'[Running] \in Nat /\ baseCcalls'[Running] \in Nat
      /\ nCcalls'[Running] >= A.n /\ nCcalls'[Running] <= nCcalls[Running]
      /\ Running = Main => nCcalls'[Running] = l - 1
      /\ nCcalls'[Running] + A.b = baseCcalls'[Running] + A.n
  <2> DEFINE x == nCcalls[Running]
             z == baseCcalls[Running]
  <2>1. /\ x \in Nat \ {0} /\ z \in Nat /\ l \in Nat /\ (A.y => z > 0)
        /\ A.n \in Nat /\ A.b \in Nat /\ A.y \in BOOLEAN
        /\ x >= A.n + 1 /\ x + A.b = z + A.n + (IF A.y THEN 0 ELSE 1)
        /\ Running = Main => x = l
    BY <1>1, <1>4
  <2>2. \/ nCcalls'[Running] = x - 1 /\ baseCcalls'[Running] = IF A.y THEN z - 1 ELSE z
        \/ A.y /\ Running # Main /\ nCcalls'[Running] = x /\ baseCcalls'[Running] = z
    BY <1>3
  <2> HIDE DEF x, z, A, l
  <2>3. /\ nCcalls'[Running] \in Nat /\ baseCcalls'[Running] \in Nat
        /\ nCcalls'[Running] >= A.n /\ nCcalls'[Running] <= x
        /\ Running = Main => nCcalls'[Running] = l - 1
    BY <2>1, <2>2
  <2>4. nCcalls'[Running] + A.b = baseCcalls'[Running] + A.n
    <3>1. CASE A.y
      BY <2>1, <2>2, <3>1
    <3>2. CASE ~A.y
      BY <2>1, <2>2, <3>2
    <3> QED BY <3>1, <3>2
  <2> QED BY <2>3, <2>4 DEF x, l
<1> HIDE DEF A, B, l
<1>8. ASSUME NEW i \in 1..l - 1, Innermost(i)'
      PROVE  /\ nCcalls'[native'[i].L] >= Level(native'[i])
             /\ native'[i].L = Main => nCcalls'[native'[i].L] = i
             /\ nCcalls'[native'[i].L] + native'[i].b
                  = baseCcalls'[native'[i].L] + native'[i].n + Blocks(native'[i])
  <2>1. CASE i = l - 1
    <3>1. native'[i] = B /\ B.L = Running /\ l > 1
      BY <1>1, <2>1 DEF B
    <3>2. A.n \in Nat /\ A.b \in Nat
      BY <1>1
    <3>3. nCcalls'[Running] >= Level(B)
      BY <1>5, <1>6, <1>7, <3>1, <3>2
    <3>4. nCcalls'[Running] + B.b = baseCcalls'[Running] + B.n + Blocks(B)
      BY <1>5, <1>6, <1>7, <3>1, <3>2
    <3> QED BY <1>7, <2>1, <3>1, <3>3, <3>4
  <2>2. CASE i # l - 1
    <3>1. /\ i \in 1..l /\ native'[i] = native[i] /\ i # l
      BY <1>1, <2>2
    <3>2. Innermost(i)
      <4>1. i + 1 \in 1..l - 1 /\ native'[i + 1] = native[i + 1] /\ i # Len(native')
        BY <1>1, <2>2
      <4>2. Resumes(native'[i + 1])
        BY <1>8, <4>1 DEF Innermost, Resumes
      <4> QED BY <4>1, <4>2 DEF Innermost, Resumes
    <3>3. native[i].L \in Threads \ {Running}
      <4>1. native[i].L # Running
        BY <1>1, <3>1, <3>2, OtherThread DEF l, StackInv
      <4>2. native[i].L \in Threads
        BY <1>1, <3>1, Fields
      <4> QED BY <4>1, <4>2
    <3>4. /\ nCcalls[native[i].L] >= Level(native[i])
          /\ native[i].L = Main => nCcalls[native[i].L] = i
          /\ nCcalls[native[i].L] + native[i].b
               = baseCcalls[native[i].L] + native[i].n + Blocks(native[i])
      BY <1>1, <3>1, <3>2 DEF StackInv, Counters
    <3> QED BY <1>3, <3>1, <3>3, <3>4
  <2> QED BY <2>1, <2>2
<1>9. \A L \in Threads : nCcalls'[L] < MAXCCALLS + Reserve
  <2>1. \A L \in Threads : nCcalls[L] < MAXCCALLS + Reserve
    BY DEF StackInv, Counters
  <2> QED BY <1>1, <1>3, <1>7, <2>1, CoroutineAssumption
<1>10. ~Active(Main)' => nCcalls'[Main] = 0 /\ baseCcalls'[Main] = 0
  <2> SUFFICES ASSUME ~Active(Main)'
               PROVE  nCcalls'[Main] = 0 /\ baseCcalls'[Main] = 0
    OBVIOUS
  <2>1. CASE Running = Main
    <3>1. l = 1
      <4>1. ~(l > 1)
        BY <1>1, <2>1 DEF Active, B
      <4> QED BY <1>1, <4>1
    <3> QED BY <1>1, <1>5, <1>7, <2>1, <3>1
  <2>2. CASE Running # Main
    <3>1. ~Active(Main)
      BY <1>1, <2>2 DEF Active, A, l
    <3> QED BY <1>3, <2>2, <3>1 DEF StackInv, Counters, Threads
  <2> QED BY <2>1, <2>2
<1> QED BY <1>1, <1>2, <1>8, <1>9, <1>10 DEF StackInv, Counters

\* The innermost Rust frame that catches belongs to the running thread.
LEMMA CatcherFacts ==
  ASSUME TypeOK, Segments, native # <<>>
  PROVE  /\ Catcher \in Acts /\ Catches(native[Catcher])
         /\ \A j \in Catcher+1..Len(native) :
              ~Catches(native[j]) /\ ~Resumes(native[j]) /\ native[j].L = Running
         /\ native[Catcher].L = Running
<1> DEFINE l == Len(native)
           S == {i \in 1..l : Catches(native[i])}
<1>1. l \in Nat \ {0} /\ l \in Acts /\ Acts = 1..l /\ Running = native[l].L
  BY Fields DEF Acts
<1>2. 1 \in S
  <2>1. 1 \in 1..l
    BY <1>1
  <2>2. Catches(native[1])
    BY DEF Segments, Catches, Resumes
  <2> QED BY <2>1, <2>2
<1>3. S \in SUBSET (1..l) /\ S # {} /\ l \in Nat
  BY <1>1, <1>2
<1> HIDE DEF S
<1>4. PICK m \in S : \A j \in S : j <= m
  BY <1>3, Greatest
<1>5. m \in 1..l /\ Catches(native[m]) /\ \A j \in m+1..l : ~Catches(native[j])
  <2>1. m \in 1..l /\ Catches(native[m])
    BY <1>4 DEF S
  <2>2. ASSUME NEW j \in m+1..l, Catches(native[j]) PROVE FALSE
    <3>1. j \in 1..l /\ j > m
      BY <1>1, <2>1
    <3>2. j \in S
      BY <2>2, <3>1 DEF S
    <3> QED BY <1>4, <2>1, <3>1, <3>2
  <2> QED BY <2>1, <2>2
<1>6. /\ Catcher \in 1..l /\ Catches(native[Catcher])
      /\ \A j \in Catcher+1..l : ~Catches(native[j])
  BY <1>5 DEF Catcher
<1>7. \A j \in Catcher+1..l : ~Resumes(native[j])
  BY <1>6 DEF Catches, Resumes
<1>8. native[l].L = native[Catcher].L
  BY <1>1, <1>6, <1>7 DEF Segments
<1>9. ASSUME NEW j \in Catcher+1..l PROVE native[j].L = Running
  <2>1. j \in Acts /\ Catcher <= j /\ \A k \in Catcher+1..j : ~Resumes(native[k])
    BY <1>1, <1>6, <1>7
  <2> QED BY <1>1, <1>6, <1>8, <2>1 DEF Segments
<1> QED BY <1>1, <1>6, <1>7, <1>8, <1>9

\* The running thread drops activations; its counters are set.
LEMMA CutStack ==
  ASSUME TypeOK, StackInv, control' # "cstack", NEW m \in 0..Len(native), NEW x \in Nat, NEW z \in Nat,
         native' = SubSeq(native, 1, m),
         nCcalls' = [nCcalls EXCEPT ![Running] = x],
         baseCcalls' = [baseCcalls EXCEPT ![Running] = z],
         x < MAXCCALLS + Reserve,
         \A j \in m+1..Len(native) : native[j].L = Running,
         m > 0 /\ native[m].L # Running => m < Len(native) /\ Resumes(native[m + 1]),
         m > 0 /\ native[m].L = Running =>
           /\ x >= Level(native[m])
           /\ x + native[m].b = z + native[m].n + Blocks(native[m])
           /\ Running = Main => x = m,
         m = 0 /\ Running = Main => x = 0 /\ z = 0
  PROVE  StackInv'
<1> DEFINE l == Len(native)
<1>1. Segments' /\ Saved' /\ Len(native') = m /\ \A i \in 1..m : native'[i] = native[i]
  BY StackCut DEF StackInv
<1>2. /\ l \in Nat /\ m \in 0..l /\ Acts = 1..l /\ Acts' = 1..m
      /\ Running \in Threads
      /\ \A i \in 1..l : native[i].L \in Threads
  BY <1>1, Fields DEF Acts
<1>3. /\ nCcalls'[Running] = x /\ baseCcalls'[Running] = z
      /\ \A L \in Threads \ {Running} : nCcalls'[L] = nCcalls[L] /\ baseCcalls'[L] = baseCcalls[L]
  BY <1>2 DEF TypeOK
<1> HIDE DEF l
<1>4. ASSUME NEW i \in 1..m, Innermost(i)'
      PROVE  /\ nCcalls'[native'[i].L] >= Level(native'[i])
             /\ native'[i].L = Main => nCcalls'[native'[i].L] = i
             /\ nCcalls'[native'[i].L] + native'[i].b
                  = baseCcalls'[native'[i].L] + native'[i].n + Blocks(native'[i])
  <2>1. CASE i = m /\ native[m].L = Running
    BY <1>1, <1>2, <1>3, <2>1
  <2>2. CASE i # m \/ native[m].L # Running
    <3>1. i \in 1..l /\ native'[i] = native[i] /\ i < l /\ Resumes(native[i + 1])
      <4>1. CASE i # m
        <5>1. i \in 1..l /\ i < l /\ i + 1 \in 1..m /\ i # Len(native')
              /\ native'[i] = native[i] /\ native'[i + 1] = native[i + 1]
          BY <1>1, <1>2, <4>1
        <5>2. Resumes(native'[i + 1])
          BY <1>4, <5>1 DEF Innermost, Resumes
        <5> QED BY <5>1, <5>2
      <4>2. CASE i = m
        BY <1>1, <1>2, <2>2, <4>2 DEF l
      <4> QED BY <4>1, <4>2
    <3>2. Innermost(i) /\ i # l
      BY <1>2, <3>1 DEF Innermost
    <3>3. native[i].L \in Threads \ {Running}
      <4>1. native[i].L # Running
        BY <1>2, <3>1, <3>2, OtherThread DEF l, StackInv
      <4> QED BY <1>2, <3>1, <4>1
    <3>4. /\ nCcalls[native[i].L] >= Level(native[i])
          /\ native[i].L = Main => nCcalls[native[i].L] = i
          /\ nCcalls[native[i].L] + native[i].b
               = baseCcalls[native[i].L] + native[i].n + Blocks(native[i])
      BY <1>2, <3>1, <3>2 DEF StackInv, Counters, l
    <3> QED BY <1>3, <3>1, <3>3, <3>4
  <2> QED BY <2>1, <2>2
<1>5. \A L \in Threads : nCcalls'[L] < MAXCCALLS + Reserve
  BY <1>3 DEF StackInv, Counters
<1>6. ~Active(Main)' => nCcalls'[Main] = 0 /\ baseCcalls'[Main] = 0
  <2> SUFFICES ASSUME ~Active(Main)'
               PROVE  nCcalls'[Main] = 0 /\ baseCcalls'[Main] = 0
    OBVIOUS
  <2>1. \A i \in 1..m : native[i].L # Main
    BY <1>1 DEF Active
  <2>2. CASE Running = Main
    <3>1. m = 0
      <4> SUFFICES ASSUME m > 0 PROVE FALSE
        BY <1>2
      <4>1. m < l /\ Resumes(native[m + 1])
        BY <1>2, <2>1, <2>2 DEF l
      <4>2. m + 1 \in Acts /\ l \in m+1..l
        BY <1>2, <4>1
      <4>3. native[l].L # Main
        BY <4>1, <4>2 DEF StackInv, Segments, l
      <4>4. native[l].L = Running
        BY <4>1, <4>2 DEF l
      <4> QED BY <2>2, <4>3, <4>4
    <3> QED BY <1>3, <2>2, <3>1
  <2>3. CASE Running # Main
    <3>1. ~Active(Main)
      <4>1. \A i \in 1..l : native[i].L # Main
        BY <1>2, <2>1, <2>3 DEF l
      <4> QED BY <4>1 DEF Active, l
    <3> QED BY <1>3, <2>3, <3>1 DEF StackInv, Counters, Threads
  <2> QED BY <2>2, <2>3
<1> QED BY <1>1, <1>2, <1>4, <1>5, <1>6 DEF StackInv, Counters

\* Only the counters of a coroutine that is not active change.
LEMMA IdleStack ==
  ASSUME TypeOK, StackInv, control # "cstack", NEW co \in Coroutines, ~Active(co),
         NEW x \in Nat, NEW z \in Nat, x < MAXCCALLS + Reserve,
         UNCHANGED native,
         nCcalls' = [nCcalls EXCEPT ![co] = x],
         baseCcalls' = [baseCcalls EXCEPT ![co] = z]
  PROVE  StackInv'
<1>1. /\ co \in Threads /\ co # Main
      /\ \A L \in Threads \ {co} : nCcalls'[L] = nCcalls[L] /\ baseCcalls'[L] = baseCcalls[L]
      /\ nCcalls'[co] = x
  BY CoroutineAssumption DEF Threads, TypeOK
<1>2. \A i \in Acts : native[i].L \in Threads \ {co}
  BY Fields DEF Active, Acts
<1>3. Segments' /\ Saved'
  BY NativeKept DEF StackInv
<1>4. \A i \in Acts : Innermost(i)' => Innermost(i)
  BY DEF Innermost, Resumes
<1>5. ASSUME NEW i \in Acts, Innermost(i)'
      PROVE  /\ nCcalls'[native[i].L] >= Level(native[i])
             /\ native[i].L = Main => nCcalls'[native[i].L] = i
             /\ nCcalls'[native[i].L] + native[i].b
                  = baseCcalls'[native[i].L] + native[i].n + Blocks(native[i])
  BY <1>1, <1>2, <1>4, <1>5 DEF StackInv, Counters
<1>6. \A L \in Threads : nCcalls'[L] < MAXCCALLS + Reserve
  BY <1>1 DEF StackInv, Counters
<1>7. ~Active(Main)' => nCcalls'[Main] = 0 /\ baseCcalls'[Main] = 0
  BY <1>1 DEF StackInv, Counters, Active, Threads
<1>8. Acts' = Acts
  BY DEF Acts
<1> QED BY <1>3, <1>5, <1>6, <1>7, <1>8 DEF StackInv, Counters, Level, Blocks

-----------------------------------------------------------------------------
(***************************************************************************)
(* The Lua stacks.                                                         *)
(***************************************************************************)
LEMMA Stacks ==
  ASSUME TypeOK, NEW L \in Threads
  PROVE  /\ ci[L] \in Seq(Frames) /\ Len(ci[L]) \in Nat /\ status[L] \in Statuses
         /\ \A k \in 1..Len(ci[L]) :
              /\ ci[L][k] \in Frames /\ ci[L][k].kind \in AllKinds
              /\ ci[L][k].co \in Coroutines \cup {Nil}
              /\ ci[L][k].ret \in BOOLEAN /\ ci[L][k].handle \in BOOLEAN
              /\ ci[L][k].opyield \in BOOLEAN /\ ci[L][k].done \in BOOLEAN
         /\ ci[L] = <<>> <=> Len(ci[L]) = 0
         /\ ci[L] # <<>> => /\ Last(ci[L]) = ci[L][Len(ci[L])]
                            /\ Len(ci[L]) \in 1..Len(ci[L])
                            /\ Front(ci[L]) \in Seq(Frames)
                            /\ Len(Front(ci[L])) = Len(ci[L]) - 1
                            /\ \A k \in 1..Len(ci[L]) - 1 : Front(ci[L])[k] = ci[L][k]
<1>1. /\ ci[L] \in Seq(Frames) /\ Len(ci[L]) \in Nat /\ status[L] \in Statuses
      /\ ci[L] = <<>> <=> Len(ci[L]) = 0
      /\ \A k \in 1..Len(ci[L]) : ci[L][k] \in Frames
  BY DEF TypeOK
<1>2. \A f \in Frames :
        /\ f.kind \in AllKinds /\ f.co \in Coroutines \cup {Nil}
        /\ f.ret \in BOOLEAN /\ f.handle \in BOOLEAN
        /\ f.opyield \in BOOLEAN /\ f.done \in BOOLEAN
  BY DEF Frames
<1>3. ASSUME ci[L] # <<>>
      PROVE  /\ Last(ci[L]) = ci[L][Len(ci[L])]
             /\ Len(ci[L]) \in 1..Len(ci[L])
             /\ Front(ci[L]) \in Seq(Frames)
             /\ Len(Front(ci[L])) = Len(ci[L]) - 1
             /\ \A k \in 1..Len(ci[L]) - 1 : Front(ci[L])[k] = ci[L][k]
  <2>1. /\ Len(ci[L]) \in Nat \ {0} /\ Last(ci[L]) = ci[L][Len(ci[L])]
        /\ Front(ci[L]) \in Seq(Frames) /\ Len(Front(ci[L])) = Len(ci[L]) - 1
        /\ \A k \in 1..Len(ci[L]) - 1 : Front(ci[L])[k] = ci[L][k]
    BY <1>1, <1>3, LastFacts
  <2> QED BY <2>1
<1> QED BY <1>1, <1>2, <1>3

\* A step that leaves a thread alone: its CallInfos, its status and its
\* activations are the same.
Untouched(L) ==
  /\ ci'[L] = ci[L] /\ status'[L] = status[L]
  /\ \A j \in Acts : native[j].L = L => j \in Acts' /\ native'[j] = native[j]
  /\ \A j \in Acts' : native'[j].L = L => j \in Acts /\ native[j] = native'[j]

\* The frame on top of L, if any, has not begun a protected call.
TopSettled(L) == ci[L] = <<>> \/ Last(ci[L]).kind # "pcall"

LEMMA ThreadKept ==
  ASSUME TypeOK, NEW L \in Threads, ThreadOK(L), Untouched(L),
         L = Running => /\ control \notin {"yielded", "continue"}
                        /\ control = "frame" => TopSettled(L)
  PROVE  ThreadOK(L)'
<1>1. Active(L)' <=> Active(L)
  BY DEF Active, Untouched, Acts
<1>2. StatusOK(L)'
  BY <1>1 DEF ThreadOK, StatusOK, Untouched
<1>3. FlagsOK(L)'
  BY DEF ThreadOK, FlagsOK, Untouched
<1>4. \A k \in Nat : After(L, k) => After(L, k)'
  BY DEF After, Untouched, Resumes
<1>5. ReturnsOK(L)'
  <2> SUFFICES ASSUME NEW k \in 1..Len(ci[L]), ci[L][k].ret
               PROVE  \/ \E j \in Acts' : native'[j].L = L /\ native'[j].at = k - 1
                      \/ After(L, k - 1)'
    BY DEF ReturnsOK, Untouched
  <2>1. \/ \E j \in Acts : native[j].L = L /\ native[j].at = k - 1
        \/ After(L, k - 1)
    BY DEF ThreadOK, ReturnsOK
  <2>2. k - 1 \in Nat
    BY Stacks
  <2> QED BY <1>4, <2>1, <2>2 DEF Untouched
<1>6. CallersOK(L)'
  <2> SUFFICES ASSUME status[L] # "error", NEW k \in 1..Len(ci[L])
               PROVE  /\ ci[L][k].kind = "c" /\ k < Len(ci[L]) =>
                           \E j \in Acts' : native'[j].L = L /\ native'[j].at = k /\ ~native'[j].y
                      /\ ci[L][k].kind = "pcall" =>
                           /\ ci[L][k].handle /\ ~ci[L][k].done
                           /\ \/ \E j \in Acts' : native'[j].L = L /\ native'[j].at = k
                                                    /\ native'[j].fn = "luaD_pcall"
                              \/ After(L, k)'
    BY DEF CallersOK, Untouched
  <2>1. ci[L][k].kind = "c" /\ k < Len(ci[L]) =>
          \E j \in Acts : native[j].L = L /\ native[j].at = k /\ ~native[j].y
    BY DEF ThreadOK, CallersOK
  <2>2. ASSUME ci[L][k].kind = "pcall"
        PROVE  /\ ci[L][k].handle /\ ~ci[L][k].done
               /\ \/ \E j \in Acts : native[j].L = L /\ native[j].at = k
                                       /\ native[j].fn = "luaD_pcall"
                  \/ After(L, k)
    <3>1. ~(L = Running /\ k = Len(ci[L]) /\ control = "frame")
      BY <2>2, Stacks DEF TopSettled
    <3>2. ~(L = Running /\ control = "yielded")
      OBVIOUS
    <3> QED BY <2>2, <3>1, <3>2 DEF ThreadOK, CallersOK
  <2>3. k \in Nat
    BY Stacks
  <2> QED BY <1>4, <2>1, <2>2, <2>3 DEF Untouched
<1> QED BY <1>2, <1>3, <1>5, <1>6 DEF ThreadOK

LEMMA ActKept ==
  ASSUME TypeOK, NEW i \in Acts, ActOK(i), i \in Acts', native'[i] = native[i],
         ci'[native[i].L] = ci[native[i].L],
         Innermost(i)' => Innermost(i),
         i = Len(native) => control \notin Errors \cup {"returned", "continue"},
         i = Len(native') => control' # "returned"
  PROVE  ActOK(i)'
BY DEF ActOK

\* The activations of a thread lie above its lua_resume, and deeper CallInfos
\* belong to later ones.
LEMMA Order ==
  ASSUME TypeOK, Segments
  PROVE  /\ \A i, j \in Acts : Resumes(native[i]) /\ native[j].L = native[i].L => i <= j
         /\ \A i, j \in Acts : native[i].L = native[j].L /\ native[j].at <= native[i].at => j <= i
         /\ \A i, j \in Acts : native[i].L = native[j].L /\ native[j].at < native[i].at => j < i
<1>1. Len(native) \in Nat /\ Acts = 1..Len(native) /\ \A i \in Acts : native[i].at \in Nat
  BY Fields DEF Acts
<1>2. ASSUME NEW i \in Acts, NEW j \in Acts, Resumes(native[i]), native[j].L = native[i].L
      PROVE  i <= j
  <2>1. ~(j < i)
    BY <1>1, <1>2 DEF Segments
  <2> QED BY <1>1, <2>1
<1>3. ASSUME NEW i \in Acts, NEW j \in Acts, native[i].L = native[j].L, native[j].at <= native[i].at
      PROVE  j <= i
  <2>1. ~(i < j)
    BY <1>1, <1>3 DEF Segments
  <2> QED BY <1>1, <2>1
<1>4. ASSUME NEW i \in Acts, NEW j \in Acts, native[i].L = native[j].L, native[j].at < native[i].at
      PROVE  j < i
  <2>1. j <= i
    BY <1>1, <1>3, <1>4
  <2>2. i # j
    BY <1>1, <1>4
  <2> QED BY <1>1, <2>1, <2>2
<1> QED BY <1>2, <1>3, <1>4

\* Nothing of a coroutine is above its lua_resume.
LEMMA ResumeAlone ==
  ASSUME TypeOK, Segments, native # <<>>, Resumes(Last(native)), NEW k
  PROVE  After(Running, k)
<1>1. /\ Len(native) \in Acts /\ Running = native[Len(native)].L
      /\ Last(native) = native[Len(native)]
  BY Fields
<1>2. \A j \in Acts : native[j].L = Running => j = Len(native)
  BY <1>1, Order, Fields DEF Acts
<1> QED BY <1>1, <1>2 DEF After

\* The main thread cannot yield: the host's call is on the Rust stack.
LEMMA Unyieldable ==
  ASSUME TypeOK, Segments, native # <<>>, Running = Main
  PROVE  \E i \in Acts : native[i].L = Running /\ ~native[i].y
<1>1. 1 \in Acts /\ Len(native) \in Acts /\ Running = native[Len(native)].L /\ Len(native) \in Nat
  BY Fields DEF Acts
<1>2. ~Resumes(native[1])
  BY <1>1 DEF Segments, Acts
<1> QED BY <1>1, <1>2 DEF Segments

LEMMA RunningStatus ==
  ASSUME TypeOK, LuaInv, native # <<>>
  PROVE  /\ status[Running] # "error"
         /\ control \notin {"yielded", "continue"} => status[Running] = "ok"
<1>1. Running \in Threads /\ Active(Running)
  BY Fields
<1>2. control \notin {"yielded", "continue"} => status[Running] = "ok"
  BY <1>1 DEF LuaInv, ThreadOK, StatusOK
<1>3. control \in {"yielded", "continue"} => status[Running] # "error"
  BY DEF LuaInv, ControlOK
<1> QED BY <1>2, <1>3

\* A thread that is on the Rust stack and does not run has CallInfos.
LEMMA ActiveHasFrames ==
  ASSUME TypeOK, StackInv, LuaInv, NEW L \in Threads, Active(L), L # Running
  PROVE  ci[L] # <<>> /\ status[L] = "ok"
<1> DEFINE S == {i \in 1..Len(native) : native[i].L = L}
<1>1. Len(native) \in Nat /\ Acts = 1..Len(native)
  BY Fields DEF Acts
<1>2. S \in SUBSET (1..Len(native)) /\ S # {}
  BY DEF Active
<1>3. PICK m \in S : \A j \in S : j <= m
  BY <1>1, <1>2, Greatest
<1>4. m \in Acts /\ native[m].L = L /\ m # Len(native)
  <2>1. m \in Acts /\ native[m].L = L
    BY <1>1, <1>3
  <2>2. native # <<>>
    BY <1>1, <2>1, Fields
  <2> QED BY <2>1, <2>2, Fields
<1>5. m + 1 \in Acts /\ native[m + 1].L # L
  <2>1. m + 1 \in Acts /\ ~(m + 1 <= m)
    BY <1>1, <1>4
  <2> QED BY <1>1, <1>3, <2>1
<1>6. Resumes(native[m + 1])
  <2>1. m <= m + 1 /\ m + 1..m + 1 = {m + 1}
    BY <1>1, <1>4
  <2> QED BY <1>4, <1>5, <2>1 DEF StackInv, Segments
<1>7. Innermost(m)
  BY <1>6 DEF Innermost
<1>8. native[m].at < Len(ci[L])
  BY <1>4, <1>7 DEF LuaInv, ActOK
<1>9. native[m].at \in Nat
  BY <1>4, Fields
<1>10. ci[L] # <<>>
  BY <1>8, <1>9, Stacks
<1> QED BY <1>10 DEF LuaInv, ThreadOK, StatusOK

\* What is below the running thread's CallInfos
LEMMA RunningActs ==
  ASSUME TypeOK, StackInv, LuaInv, native # <<>>
  PROVE  LET l == Len(native)
         IN /\ \A i \in Acts : native[i].L = Running =>
                 native[i].at <= native[l].at /\ (i # l => native[i].at < native[l].at)
            /\ native[l].at <= Len(ci[Running])
            /\ control \notin Errors \cup {"returned", "continue"} => native[l].at < Len(ci[Running])
            /\ control = "returned" => native[l].at = Len(ci[Running])
<1>1. /\ Len(native) \in Acts /\ Len(native) \in Nat /\ Acts = 1..Len(native)
      /\ Running = native[Len(native)].L
      /\ \A i \in Acts : native[i].at \in Nat
  BY Fields DEF Acts
<1>2. Innermost(Len(native)) /\ ActOK(Len(native))
  BY <1>1 DEF Innermost, LuaInv
<1>3. ASSUME NEW i \in Acts, native[i].L = Running
      PROVE  native[i].at <= native[Len(native)].at
             /\ (i # Len(native) => native[i].at < native[Len(native)].at)
  <2>1. i < Len(native) => native[i].at < native[Len(native)].at
    BY <1>1, <1>3 DEF StackInv, Segments
  <2> QED BY <1>1, <2>1
<1> QED BY <1>1, <1>2, <1>3 DEF ActOK

\* Frame k of the running thread is the same, but for its opyield and, unless
\* it is a protected call, its done flag.
Kept(k) ==
  LET f == ci[Running][k]
      g == ci'[Running][k]
  IN /\ g.kind = f.kind /\ g.ret = f.ret /\ g.co = f.co /\ g.handle = f.handle
     /\ f.kind = "pcall" => g.done = f.done

\* A frame that a Lua function called
Called(g) == /\ ~g.ret /\ ~g.handle
             /\ g.kind \in {"resume", "wrap"} => g.co \in Coroutines

\* Only the running thread is touched, and only its CallInfos and status.
Local == /\ UNCHANGED native
         /\ \A L \in Threads \ {Running} : ci'[L] = ci[L] /\ status'[L] = status[L]

\* The frame on top of the running thread moves on, is left or calls another.
TopMoves(m) ==
  LET n == Len(ci[Running])
  IN /\ Len(ci'[Running]) = m
     /\ \A k \in 1..m :
          \/ k <= n /\ Kept(k)
          \/ /\ k = n + 1 /\ m = n + 1 /\ Called(ci'[Running][k])
             /\ control = "frame" /\ control' = "frame" /\ ci[Running][n].kind = "lua"
     /\ control = "frame" /\ m >= n => ci[Running][n].kind # "pcall"

\* What the innermost activation is about to do then
TopGoesOn(m) ==
  LET B == Last(native)
  IN /\ control = "yielded" => Resumes(B)
     /\ B.at <= m
     /\ control' \notin Errors \cup {"returned", "continue"} => B.at < m
     /\ control' = "returned" => B.at = m /\ ~Resumes(B)
     /\ control' \notin {"yielded", "continue"} => status'[Running] = "ok"
     /\ control' = "continue" =>
          /\ Resumes(B)
          /\ status'[Running] = "ok" \/ (status'[Running] = "reentry" /\ m > 0)
     /\ control' = "yielded" =>
          /\ status'[Running] \in {"yield", "break", "reentry"}
          /\ \A i \in Acts : native[i].L = Running => native[i].y
          /\ ci'[Running][m].kind = "c" => status'[Running] = "yield"

LEMMA TopThread ==
  ASSUME TypeOK, StackInv, LuaInv, native # <<>>, Local, NEW m \in Nat, TopMoves(m), TopGoesOn(m),
         NEW L \in Threads, L = Running
  PROVE  ThreadOK(L)'
<1> DEFINE n == Len(ci[L])
<1>1. /\ L \in Threads /\ n \in Nat /\ Running' = Running /\ Acts' = Acts /\ native' = native
      /\ Active(L)' /\ Len(ci'[L]) = m
  <2>1. Active(L)
    BY Fields
  <2> QED BY <2>1, Fields, Stacks DEF Local, Running, Acts, Active, TopMoves
<1>2. n > 0 \/ m <= n
  <2>1. m > n => control = "frame"
    BY <1>1 DEF TopMoves
  <2>2. control = "frame" => native[Len(native)].at < n
    BY RunningActs DEF Errors
  <2>3. native[Len(native)].at \in Nat
    BY Fields
  <2> QED BY <1>1, <2>1, <2>2, <2>3
<1>3. \A k \in 1..m :
        \/ k \in 1..n /\ Kept(k)
        \/ /\ k = n + 1 /\ m = n + 1 /\ Called(ci'[L][k])
           /\ control = "frame" /\ control' = "frame" /\ ci[L][n].kind = "lua"
  BY <1>1 DEF TopMoves
<1>4. Resumes(Last(native)) => \A k : After(L, k)
  BY ResumeAlone DEF StackInv
<1>5. \A k : After(L, k)' <=> After(L, k)
  BY <1>1 DEF After
<1>6. status[L] # "error"
  BY RunningStatus
<1>7. ThreadOK(L)
  BY <1>1 DEF LuaInv
<1> HIDE DEF n
<1>8. StatusOK(L)'
  BY <1>1 DEF StatusOK, TopGoesOn
<1>9. FlagsOK(L)'
  <2> SUFFICES ASSUME NEW k \in 1..m
               PROVE  /\ ci'[L][k].handle => ci'[L][k].kind = "pcall"
                      /\ ci'[L][k].kind \in {"resume", "wrap"} => ci'[L][k].co \in Coroutines
                      /\ k = 1 /\ ci'[L][k].kind = "lua" => ci'[L][k].ret
    BY <1>1 DEF FlagsOK
  <2>1. CASE k \in 1..n /\ Kept(k)
    BY <1>7, <2>1 DEF ThreadOK, FlagsOK, Kept, n
  <2>2. CASE k = n + 1 /\ m = n + 1 /\ Called(ci'[L][k])
    BY <1>1, <1>2, <2>2 DEF Called
  <2> QED BY <1>3, <2>1, <2>2
<1>10. ReturnsOK(L)'
  <2> SUFFICES ASSUME NEW k \in 1..m, ci'[L][k].ret
               PROVE  \/ \E j \in Acts : native[j].L = L /\ native[j].at = k - 1
                      \/ After(L, k - 1)
    BY <1>1, <1>5 DEF ReturnsOK
  <2>1. k \in 1..n /\ ci[L][k].ret
    BY <1>3 DEF Kept, Called
  <2>2. CASE control = "yielded"
    BY <1>4, <2>2 DEF TopGoesOn
  <2>3. CASE control # "yielded"
    BY <1>7, <2>1, <2>3 DEF ThreadOK, ReturnsOK, n
  <2> QED BY <2>2, <2>3
<1>11. CallersOK(L)'
  <2>1. ASSUME NEW k \in 1..m, ci'[L][k].kind = "c", k < m
        PROVE  \E j \in Acts : native[j].L = L /\ native[j].at = k /\ ~native[j].y
    <3>1. k \in 1..n /\ ci[L][k].kind = "c"
      BY <1>1, <1>3, <2>1 DEF Kept
    <3>2. k < n
      <4>1. CASE m <= n
        BY <1>1, <2>1, <3>1, <4>1
      <4>2. CASE m > n
        <5>1. m \in 1..m /\ m \notin 1..n
          BY <1>1, <4>2
        <5>2. ci[L][n].kind = "lua"
          BY <1>3, <5>1
        <5> QED BY <1>1, <3>1, <5>2
      <4> QED BY <1>1, <4>1, <4>2
    <3> QED BY <1>6, <1>7, <3>1, <3>2 DEF ThreadOK, CallersOK, n
  <2>2. ASSUME NEW k \in 1..m, ci'[L][k].kind = "pcall", ~(k = m /\ control' = "frame")
        PROVE  /\ ci'[L][k].handle /\ ~ci'[L][k].done
               /\ \/ \E j \in Acts : native[j].L = L /\ native[j].at = k
                                       /\ native[j].fn = "luaD_pcall"
                  \/ After(L, k)
    <3>1. /\ k \in 1..n /\ Kept(k) /\ ci[L][k].kind = "pcall"
      BY <1>1, <1>3, <2>2 DEF Kept
    <3>2. ~(k = n /\ control = "frame")
      BY <1>1, <3>1 DEF TopMoves, n
    <3>3. /\ ci[L][k].handle /\ ~ci[L][k].done
          /\ \/ \E j \in Acts : native[j].L = L /\ native[j].at = k
                                  /\ native[j].fn = "luaD_pcall"
             \/ After(L, k)
             \/ control = "yielded"
      BY <1>6, <1>7, <3>1, <3>2 DEF ThreadOK, CallersOK, n
    <3>4. control = "yielded" => After(L, k)
      BY <1>4 DEF TopGoesOn
    <3> QED BY <3>1, <3>3, <3>4 DEF Kept
  <2> QED BY <1>1, <1>5, <2>1, <2>2 DEF CallersOK
<1> QED BY <1>8, <1>9, <1>10, <1>11 DEF ThreadOK

LEMMA TopStep ==
  ASSUME TypeOK, StackInv, LuaInv, native # <<>>, Local, NEW m \in Nat, TopMoves(m), TopGoesOn(m)
  PROVE  LuaInv'
<1> DEFINE l == Len(native)
           n == Len(ci[Running])
<1>1. /\ Running \in Threads /\ n \in Nat /\ l \in Acts /\ l \in Nat /\ Acts = 1..l
      /\ Running' = Running /\ Acts' = Acts /\ native' = native
      /\ Running = native[l].L /\ Last(native) = native[l] /\ Len(ci'[Running]) = m
      /\ \A i \in Acts : native[i].at \in Nat /\ native[i].L \in Threads
  BY Fields, Stacks DEF Local, Running, Acts, TopMoves
<1>2. ASSUME NEW L \in Threads PROVE ThreadOK(L)'
  <2>1. CASE L = Running
    BY <2>1, TopThread
  <2>2. CASE L # Running
    <3>1. Untouched(L)
      BY <1>1, <2>2 DEF Untouched, Local
    <3> QED BY <2>2, <3>1, ThreadKept DEF LuaInv
  <2> QED BY <2>1, <2>2
<1>3. ASSUME NEW i \in Acts, native[i].L # Running PROVE ActOK(i)'
  <2>1. /\ ActOK(i) /\ i \in Acts' /\ native'[i] = native[i] /\ i # Len(native) /\ i # Len(native')
        /\ ci'[native[i].L] = ci[native[i].L]
    BY <1>1, <1>3 DEF LuaInv, Local
  <2>2. Innermost(i)' => Innermost(i)
    BY <1>1 DEF Innermost, Resumes
  <2> QED BY <2>1, <2>2, ActKept
<1>4. ASSUME NEW i \in Acts, native[i].L = Running PROVE ActOK(i)'
  <2> DEFINE a == native[i].at
  <2>1. a \in Nat /\ a <= native[l].at /\ (i # l => a < native[l].at) /\ native[l].at <= n
        /\ (control = "frame" => native[l].at < n) /\ native[l].at \in Nat
    BY <1>1, <1>4, RunningActs DEF Errors
  <2>2. a <= m /\ a <= n /\ (control = "frame" => a < n)
    BY <1>1, <2>1 DEF TopGoesOn
  <2>3. /\ native[i].y <=> \/ native[i].fn \in {"lua_resume", "luaD_performcally"}
                           \/ native[i].fn = "luaD_pcall" /\ a > 0 /\ ci[Running][a].kind = "pcall"
        /\ a < n /\ ci[Running][a + 1].kind = "lua" => ci[Running][a + 1].ret
    BY <1>4 DEF LuaInv, ActOK
  <2>4. a > 0 => ci'[Running][a].kind = ci[Running][a].kind
    <3> SUFFICES ASSUME a > 0 PROVE ci'[Running][a].kind = ci[Running][a].kind
      OBVIOUS
    <3>1. a \in 1..m /\ a # n + 1
      BY <1>1, <2>1, <2>2
    <3> QED BY <3>1 DEF TopMoves, Kept
  <2>5. a < m /\ ci'[Running][a + 1].kind = "lua" => ci'[Running][a + 1].ret
    <3> SUFFICES ASSUME a < m, ci'[Running][a + 1].kind = "lua" PROVE ci'[Running][a + 1].ret
      OBVIOUS
    <3>1. a + 1 \in 1..m
      BY <2>1
    <3>2. ~(a + 1 = n + 1 /\ control = "frame")
      BY <1>1, <2>1, <2>2
    <3>3. a + 1 <= n /\ Kept(a + 1)
      BY <3>1, <3>2 DEF TopMoves
    <3> QED BY <1>1, <2>1, <2>3, <3>3 DEF Kept
  <2>6. Innermost(i)' => i = l
    <3>1. Innermost(i)' => Innermost(i)
      BY <1>1 DEF Innermost, Resumes
    <3> QED BY <1>4, <3>1, OtherThread DEF StackInv
  <2>7. i = l /\ control' \notin Errors \cup {"returned", "continue"} => a < m
    BY <1>1 DEF TopGoesOn
  <2>8. i = l /\ control' = "returned" => a = m
    BY <1>1 DEF TopGoesOn
  <2> HIDE DEF a
  <2>9. native'[i] = native[i] /\ native[i].L = Running /\ native[i].at = a /\ Len(native') = l
    BY <1>1, <1>4 DEF a
  <2> QED BY <1>1, <2>2, <2>3, <2>4, <2>5, <2>6, <2>7, <2>8, <2>9 DEF ActOK
<1>5. ControlOK'
  <2>1. status'[Main] = "ok"
    <3>1. CASE Running = Main
      <4>1. control' # "yielded"
        BY <3>1, Unyieldable DEF TopGoesOn, StackInv
      <4>2. control' # "continue"
        <5>1. Resumes(native[l]) => native[l].L \in Coroutines
          BY <1>1 DEF StackInv, Segments
        <5> QED BY <1>1, <3>1, <5>1, CoroutineAssumption DEF TopGoesOn
      <4> QED BY <3>1, <4>1, <4>2 DEF TopGoesOn
    <3>2. CASE Running # Main
      BY <3>2 DEF Local, LuaInv, ControlOK, Threads
    <3> QED BY <3>1, <3>2
  <2>2. control' = "yielded" => Last(ci'[Running]) = ci'[Running][m]
    BY <1>1 DEF Last
  <2>3. m > 0 => ci'[Running] # <<>>
    BY <1>1
  <2> QED BY <1>1, <2>1, <2>2, <2>3 DEF ControlOK, TopGoesOn
<1> QED BY <1>1, <1>2, <1>3, <1>4, <1>5 DEF LuaInv

\* A Rust frame of the running thread calls a function, on top of its CallInfos.
Calls(fn, y, m) ==
  LET L == Running
      n == Len(ci[L])
  IN /\ \A T \in Threads \ {L} : ci'[T] = ci[T] /\ status'[T] = status[T]
     /\ Len(ci'[L]) = m
     /\ (m = n /\ control' \in Errors) \/ (m = n + 1 /\ control' \in {"frame", "yielded"})
     /\ \A k \in 1..n :
          LET f == ci[L][k]
              g == ci'[L][k]
          IN /\ g.kind = f.kind /\ g.ret = f.ret /\ g.co = f.co
             /\ k < n => g.handle = f.handle /\ g.done = f.done
             /\ k = n => /\ g.handle => g.kind = "pcall"
                         /\ g.kind = "pcall" => g.handle /\ ~g.done /\ fn = "luaD_pcall"
                         /\ g.kind = "c" => ~y
     /\ y <=> \/ fn = "luaD_performcally"
              \/ fn = "luaD_pcall" /\ n > 0 /\ ci[L][n].kind = "pcall"
     /\ m > n => LET g == ci'[L][m]
                 IN /\ ~g.handle
                    /\ g.kind \in {"resume", "wrap"} => g.co \in Coroutines
                    /\ g.kind = "lua" => g.ret
     /\ control' # "yielded" => status'[L] = "ok"
     /\ control' = "yielded" =>
          /\ status'[L] = "reentry" /\ ci'[L][m].kind = "lua" /\ y
          /\ \A i \in Acts : native[i].L = L => native[i].y

LEMMA PushBasics ==
  ASSUME TypeOK, StackInv, LuaInv, control = "frame", NEW fn \in NativeFns, NEW y \in BOOLEAN,
         Pushes(fn, y), NEW L \in Threads, L = Running
  PROVE  LET l == Len(native)
             n == Len(ci[L])
             A == native'[l + 1]
         IN /\ l \in Nat /\ n \in Nat /\ Acts = 1..l /\ Acts' = 1..l + 1 /\ Len(native') = l + 1
            /\ \A i \in 1..l : native'[i] = native[i] /\ native[i].at \in Nat /\ native[i].L \in Threads
            /\ A.fn = fn /\ A.L = L /\ A.at = n /\ A.y = y
            /\ Running' = L /\ native' # <<>> /\ Active(L)'
            /\ \A i \in 1..l : native[i].L = L => native[i].at < n
            /\ status[L] = "ok" /\ ThreadOK(L) /\ (native = <<>> => L = Main)
<1> DEFINE l == Len(native)
           n == Len(ci[L])
           A == native'[l + 1]
<1>1. /\ l \in Nat /\ n \in Nat /\ Acts = 1..l
      /\ \A i \in 1..l : native[i].at \in Nat /\ native[i].L \in Threads
      /\ (native = <<>> => L = Main) /\ ThreadOK(L)
  BY Fields, Stacks DEF Acts, LuaInv
<1>2. /\ Acts' = 1..l + 1 /\ Len(native') = l + 1
      /\ \A i \in 1..l : native'[i] = native[i]
      /\ A.fn = fn /\ A.L = L /\ A.at = n /\ A.y = y
      /\ Running' = L /\ native' # <<>>
  BY <1>1, PushFields DEF Acts
<1>3. Active(L)'
  BY <1>1, <1>2 DEF Active
<1>4. ASSUME NEW i \in 1..l, native[i].L = L PROVE native[i].at < n
  <2>1. native # <<>>
    BY <1>1, Fields
  <2>2. native[l].at < n /\ native[i].at <= native[l].at /\ l \in 1..l
    BY <1>1, <1>4, <2>1, RunningActs DEF Errors
  <2> QED BY <1>1, <2>2
<1>5. status[L] = "ok"
  <2>1. native # <<>> => status[L] = "ok"
    BY RunningStatus
  <2>2. native = <<>> => status[L] = "ok"
    BY <1>1 DEF LuaInv, ControlOK
  <2> QED BY <2>1, <2>2
<1> QED BY <1>1, <1>2, <1>3, <1>4, <1>5

LEMMA PushThread ==
  ASSUME TypeOK, StackInv, LuaInv, control = "frame", NEW fn \in NativeFns, NEW y \in BOOLEAN,
         Pushes(fn, y), NEW m \in Nat, Calls(fn, y, m), NEW L \in Threads, L = Running
  PROVE  ThreadOK(L)'
<1> DEFINE l == Len(native)
           n == Len(ci[L])
           A == native'[l + 1]
<1>1. /\ l \in Nat /\ n \in Nat /\ Acts = 1..l /\ Acts' = 1..l + 1 /\ Len(native') = l + 1
      /\ \A i \in 1..l : native'[i] = native[i] /\ native[i].at \in Nat
      /\ A.fn = fn /\ A.L = L /\ A.at = n /\ A.y = y
      /\ Running' = L /\ Active(L)'
      /\ \A i \in 1..l : native[i].L = L => native[i].at < n
      /\ status[L] = "ok" /\ ThreadOK(L)
  BY PushBasics
<1>2. /\ Len(ci'[L]) = m /\ (m = n \/ m = n + 1)
      /\ (m = n /\ control' \in Errors) \/ (m = n + 1 /\ control' \in {"frame", "yielded"})
      /\ \A k \in 1..n :
           /\ ci'[L][k].kind = ci[L][k].kind /\ ci'[L][k].ret = ci[L][k].ret
           /\ ci'[L][k].co = ci[L][k].co
           /\ k < n => ci'[L][k].handle = ci[L][k].handle /\ ci'[L][k].done = ci[L][k].done
           /\ k = n => /\ ci'[L][k].handle => ci'[L][k].kind = "pcall"
                       /\ ci'[L][k].kind = "pcall" =>
                            ci'[L][k].handle /\ ~ci'[L][k].done /\ fn = "luaD_pcall"
                       /\ ci'[L][k].kind = "c" => ~y
      /\ m > n => /\ ~ci'[L][m].handle
                  /\ ci'[L][m].kind \in {"resume", "wrap"} => ci'[L][m].co \in Coroutines
                  /\ ci'[L][m].kind = "lua" => ci'[L][m].ret
      /\ control' # "yielded" => status'[L] = "ok"
      /\ control' = "yielded" => status'[L] = "reentry" /\ ci'[L][m].kind = "lua"
  BY DEF Calls
<1> HIDE DEF n, l
<1>3. StatusOK(L)'
  BY <1>1, <1>2 DEF StatusOK
<1>4. FlagsOK(L)'
  <2> SUFFICES ASSUME NEW k \in 1..m
               PROVE  /\ ci'[L][k].handle => ci'[L][k].kind = "pcall"
                      /\ ci'[L][k].kind \in {"resume", "wrap"} => ci'[L][k].co \in Coroutines
                      /\ k = 1 /\ ci'[L][k].kind = "lua" => ci'[L][k].ret
    BY <1>2 DEF FlagsOK
  <2>1. CASE k \in 1..n
    <3>1. /\ ci[L][k].handle => ci[L][k].kind = "pcall"
          /\ ci[L][k].kind \in {"resume", "wrap"} => ci[L][k].co \in Coroutines
          /\ k = 1 /\ ci[L][k].kind = "lua" => ci[L][k].ret
      BY <1>1, <2>1 DEF ThreadOK, FlagsOK, n
    <3>2. k < n \/ k = n
      BY <1>1, <2>1
    <3> QED BY <1>2, <2>1, <3>1, <3>2
  <2>2. CASE k \notin 1..n
    <3>1. k = m /\ m > n
      BY <1>1, <1>2, <2>2
    <3> QED BY <1>2, <3>1
  <2> QED BY <2>1, <2>2
<1>5. ASSUME NEW k \in Nat, k < n, After(L, k) PROVE After(L, k)'
  BY <1>1, <1>5 DEF After, Resumes, A
<1>6. ReturnsOK(L)'
  <2> SUFFICES ASSUME NEW k \in 1..m, ci'[L][k].ret
               PROVE  \/ \E j \in 1..l + 1 : native'[j].L = L /\ native'[j].at = k - 1
                      \/ After(L, k - 1)'
    BY <1>1, <1>2 DEF ReturnsOK
  <2>1. CASE k \in 1..n
    <3>1. \/ \E j \in 1..l : native[j].L = L /\ native[j].at = k - 1
          \/ After(L, k - 1)
      BY <1>1, <1>2, <2>1 DEF ThreadOK, ReturnsOK, n
    <3>2. k - 1 \in Nat /\ k - 1 < n
      BY <1>1, <2>1
    <3> QED BY <1>1, <1>5, <3>1, <3>2
  <2>2. CASE k \notin 1..n
    <3>1. k - 1 = n /\ l + 1 \in 1..l + 1
      BY <1>1, <1>2, <2>2
    <3> QED BY <1>1, <3>1 DEF A
  <2> QED BY <2>1, <2>2
<1>7. ASSUME NEW k \in 1..m, ci'[L][k].kind = "c", k < m
      PROVE  \E j \in 1..l + 1 : native'[j].L = L /\ native'[j].at = k /\ ~native'[j].y
  <2>1. k \in 1..n /\ ci[L][k].kind = "c"
    BY <1>1, <1>2, <1>7
  <2>2. CASE k < n
    <3>1. \E j \in 1..l : native[j].L = L /\ native[j].at = k /\ ~native[j].y
      BY <1>1, <2>1, <2>2 DEF ThreadOK, CallersOK, n
    <3> QED BY <1>1, <3>1
  <2>3. CASE k = n
    <3>1. l + 1 \in 1..l + 1 /\ ~y
      BY <1>1, <1>2, <1>7, <2>1, <2>3
    <3> QED BY <1>1, <2>3, <3>1 DEF A
  <2> QED BY <1>1, <2>1, <2>2, <2>3
<1>8. ASSUME NEW k \in 1..m, ci'[L][k].kind = "pcall", ~(k = m /\ control' = "frame")
      PROVE  /\ ci'[L][k].handle /\ ~ci'[L][k].done
             /\ \/ \E j \in 1..l + 1 : native'[j].L = L /\ native'[j].at = k
                                          /\ native'[j].fn = "luaD_pcall"
                \/ After(L, k)'
  <2>1. k \in 1..n /\ ci[L][k].kind = "pcall"
    BY <1>1, <1>2, <1>8 DEF Errors
  <2>2. CASE k < n
    <3>1. /\ ci[L][k].handle /\ ~ci[L][k].done
          /\ \/ \E j \in 1..l : native[j].L = L /\ native[j].at = k
                                  /\ native[j].fn = "luaD_pcall"
             \/ After(L, k)
      BY <1>1, <2>1, <2>2 DEF ThreadOK, CallersOK, n
    <3>2. /\ ci'[L][k].handle /\ ~ci'[L][k].done
      BY <1>2, <2>1, <2>2, <3>1
    <3>3. k \in Nat
      BY <1>1, <2>1
    <3> QED BY <1>1, <1>5, <2>2, <3>1, <3>2, <3>3
  <2>3. CASE k = n
    <3>1. l + 1 \in 1..l + 1 /\ ci'[L][k].handle /\ ~ci'[L][k].done /\ fn = "luaD_pcall"
      BY <1>1, <1>2, <1>8, <2>1, <2>3
    <3> QED BY <1>1, <2>3, <3>1 DEF A
  <2> QED BY <1>1, <2>1, <2>2, <2>3
<1>9. CallersOK(L)'
  BY <1>1, <1>2, <1>7, <1>8 DEF CallersOK
<1> QED BY <1>3, <1>4, <1>6, <1>9 DEF ThreadOK

LEMMA PushStep ==
  ASSUME TypeOK, StackInv, LuaInv, control = "frame",
         NEW fn \in NativeFns, fn # "lua_resume", NEW y \in BOOLEAN,
         Pushes(fn, y), Sits(fn, y), NEW m \in Nat, Calls(fn, y, m)
  PROVE  LuaInv'
<1> SUFFICES ASSUME NEW L \in Threads, L = Running PROVE LuaInv'
  BY Fields
<1> DEFINE l == Len(native)
           n == Len(ci[L])
           A == native'[l + 1]
<1>1. /\ l \in Nat /\ n \in Nat /\ Acts = 1..l /\ Acts' = 1..l + 1 /\ Len(native') = l + 1
      /\ \A i \in 1..l : native'[i] = native[i] /\ native[i].at \in Nat /\ native[i].L \in Threads
      /\ A.fn = fn /\ A.L = L /\ A.at = n /\ A.y = y
      /\ Running' = L /\ native' # <<>> /\ Active(L)'
      /\ \A i \in 1..l : native[i].L = L => native[i].at < n
      /\ (native = <<>> => L = Main)
  BY PushBasics
<1>2. /\ \A T \in Threads \ {L} : ci'[T] = ci[T] /\ status'[T] = status[T]
      /\ Len(ci'[L]) = m /\ (m = n \/ m = n + 1)
      /\ (m = n /\ control' \in Errors) \/ (m = n + 1 /\ control' \in {"frame", "yielded"})
      /\ \A k \in 1..n : ci'[L][k].kind = ci[L][k].kind /\ ci'[L][k].ret = ci[L][k].ret
      /\ m > n => (ci'[L][m].kind = "lua" => ci'[L][m].ret)
      /\ y <=> \/ fn = "luaD_performcally"
               \/ fn = "luaD_pcall" /\ n > 0 /\ ci[L][n].kind = "pcall"
      /\ control' # "yielded" => status'[L] = "ok"
      /\ control' = "yielded" =>
           /\ status'[L] = "reentry" /\ ci'[L][m].kind = "lua" /\ y
           /\ \A i \in Acts : native[i].L = L => native[i].y
  BY DEF Calls
<1>3. ASSUME NEW T \in Threads PROVE ThreadOK(T)'
  <2>1. CASE T = L
    BY <2>1, PushThread
  <2>2. CASE T # L
    <3>1. \A j \in Acts : native[j].L = T => j \in Acts' /\ native'[j] = native[j]
      BY <1>1
    <3>2. \A j \in Acts' : native'[j].L = T => j \in Acts /\ native[j] = native'[j]
      <4> SUFFICES ASSUME NEW j \in 1..l + 1, native'[j].L = T
                   PROVE  j \in 1..l /\ native[j] = native'[j]
        BY <1>1
      <4>1. j # l + 1
        BY <1>1, <2>2
      <4> QED BY <1>1, <4>1
    <3>3. Untouched(T)
      BY <1>2, <2>2, <3>1, <3>2 DEF Untouched
    <3> QED BY <2>2, <3>3, ThreadKept DEF LuaInv
  <2> QED BY <2>1, <2>2
<1> HIDE DEF n, l
<1>4. ASSUME NEW i \in 1..l, Innermost(i)' PROVE Innermost(i) /\ i # l
  <2>1. i + 1 \in 1..l + 1 /\ i # l + 1 /\ Resumes(native'[i + 1])
    BY <1>1, <1>4 DEF Innermost, Resumes
  <2>2. i + 1 # l + 1
    BY <1>1, <2>1 DEF Resumes, A
  <2>3. i + 1 \in 1..l /\ native'[i + 1] = native[i + 1] /\ i # l
    BY <1>1, <2>1, <2>2
  <2> QED BY <2>1, <2>3 DEF Innermost
<1>5. ASSUME NEW i \in 1..l, native[i].L # L PROVE ActOK(i)'
  <2>1. /\ i \in Acts /\ ActOK(i) /\ i \in Acts' /\ native'[i] = native[i] /\ i # Len(native')
        /\ ci'[native[i].L] = ci[native[i].L]
    BY <1>1, <1>2, <1>5 DEF LuaInv
  <2> QED BY <1>4, <2>1, ActKept DEF Errors
<1>6. ASSUME NEW i \in 1..l, native[i].L = L PROVE ActOK(i)'
  <2> DEFINE a == native[i].at
  <2>1. a \in Nat /\ a < n /\ ~Innermost(i)' /\ i # l + 1 /\ i \in Acts /\ native # <<>>
    <3>1. native # <<>>
      BY <1>1, Fields DEF l
    <3>2. ~(Innermost(i) /\ i # l)
      BY <1>1, <1>6, <3>1, OtherThread DEF StackInv, l
    <3> QED BY <1>1, <1>4, <1>6, <3>1, <3>2
  <2>2. /\ native[i].y <=> \/ native[i].fn \in {"lua_resume", "luaD_performcally"}
                           \/ native[i].fn = "luaD_pcall" /\ a > 0 /\ ci[L][a].kind = "pcall"
        /\ a < n /\ ci[L][a + 1].kind = "lua" => ci[L][a + 1].ret
    BY <1>6, <2>1 DEF LuaInv, ActOK, n
  <2>3. a > 0 => ci'[L][a].kind = ci[L][a].kind
    <3>1. a > 0 => a \in 1..n
      BY <1>1, <2>1
    <3> HIDE DEF a
    <3> QED BY <1>2, <3>1
  <2>4. a + 1 \in 1..n /\ ci'[L][a + 1].kind = ci[L][a + 1].kind
        /\ ci'[L][a + 1].ret = ci[L][a + 1].ret
    <3>1. a + 1 \in 1..n
      BY <1>1, <2>1
    <3> HIDE DEF a
    <3> QED BY <1>2, <3>1
  <2>5. a <= m /\ a < m
    BY <1>1, <1>2, <2>1
  <2> HIDE DEF a
  <2>6. native'[i] = native[i] /\ native[i].L = L /\ native[i].at = a
    BY <1>1, <1>6 DEF a
  <2>7. Len(ci'[L]) = m /\ Len(native') = l + 1
    BY <1>1, <1>2
  <2> QED BY ONLY <2>1, <2>2, <2>3, <2>4, <2>5, <2>6, <2>7 DEF ActOK
<1>7. ASSUME NEW i \in Acts', i = l + 1 PROVE ActOK(i)'
  <2>1. n > 0 => ci'[L][n].kind = ci[L][n].kind
    BY <1>1, <1>2
  <2>2. n < m => m = n + 1
    BY <1>1, <1>2
  <2>3. n <= m /\ (control' \notin Errors => n < m) /\ control' # "returned"
    BY <1>1, <1>2 DEF Errors
  <2> HIDE DEF A
  <2>4. native'[i] = A /\ i = Len(native')
    BY <1>1, <1>7 DEF A
  <2>5. A.at < m /\ ci'[L][A.at + 1].kind = "lua" => ci'[L][A.at + 1].ret
    BY <1>1, <1>2, <2>2, <2>3
  <2>6. A.y <=> \/ A.fn \in {"lua_resume", "luaD_performcally"}
                \/ A.fn = "luaD_pcall" /\ A.at > 0 /\ ci'[L][A.at].kind = "pcall"
    BY <1>1, <1>2, <2>1
  <2>7. Len(ci'[L]) = m /\ A.L = L /\ A.at = n
    BY <1>1, <1>2
  <2> QED BY ONLY <2>3, <2>4, <2>5, <2>6, <2>7 DEF ActOK
<1>8. \A i \in Acts' : ActOK(i)'
  <2>1. \A i \in 1..l + 1 : i \in 1..l \/ i = l + 1
    BY <1>1
  <2>2. ASSUME NEW i \in Acts' PROVE ActOK(i)'
    <3>1. CASE i \in 1..l
      BY <1>5, <1>6, <3>1
    <3>2. CASE i = l + 1
      BY <1>7, <3>2
    <3> QED BY <1>1, <2>1, <3>1, <3>2
  <2> QED BY <2>2
<1>9. ControlOK'
  <2>1. ASSUME control' = "yielded" PROVE L # Main
    <3>1. native # <<>>
      <4>1. native = <<>> => ~y
        BY DEF Sits
      <4> QED BY <1>2, <2>1, <4>1
    <3> QED BY <1>2, <2>1, <3>1, Unyieldable DEF StackInv
  <2>2. status'[Main] = "ok"
    BY <1>2, <2>1 DEF LuaInv, ControlOK, Threads
  <2>3. control' = "yielded" => \A i \in 1..l + 1 : native'[i].L = L => native'[i].y
    <3> SUFFICES ASSUME control' = "yielded", NEW i \in 1..l + 1, native'[i].L = L
                 PROVE  native'[i].y
      OBVIOUS
    <3>1. i \in 1..l \/ i = l + 1
      BY <1>1
    <3> QED BY <1>1, <1>2, <3>1
  <2>4. control' = "yielded" => Last(ci'[L]) = ci'[L][m]
    BY <1>2 DEF Last
  <2>5. control' \notin {"returned", "continue"}
    BY <1>2 DEF Errors
  <2> QED BY <1>1, <1>2, <2>2, <2>3, <2>4, <2>5 DEF ControlOK
<1> QED BY <1>3, <1>8, <1>9 DEF LuaInv

\* What a coroutine that is entered starts or goes on with: no Rust frame is
\* needed by any of its CallInfos.
Begins(co, m) ==
  /\ \A T \in Threads \ {co} : ci'[T] = ci[T] /\ status'[T] = status[T]
  /\ status'[co] = "ok" /\ Len(ci'[co]) = m
  /\ control' \in {"frame", "error", "continue"} /\ (control' = "frame" => m = 1)
  /\ \A k \in 1..m :
       LET g == ci'[co][k]
       IN /\ g.handle => g.kind = "pcall"
          /\ g.kind \in {"resume", "wrap"} => g.co \in Coroutines
          /\ k = 1 /\ g.kind = "lua" => g.ret
          /\ g.kind = "c" => k = m
          /\ g.kind = "pcall" /\ control' # "frame" => g.handle /\ ~g.done

LEMMA EnterStep ==
  ASSUME TypeOK, StackInv, LuaInv, control = "frame", TopSettled(Running),
         NEW co \in Coroutines, Enters(co), NEW m \in Nat, Begins(co, m)
  PROVE  LuaInv'
<1> DEFINE l == Len(native)
           A == native'[l + 1]
<1>0. /\ l \in Nat /\ co \in Threads /\ co # Main
      /\ \A i \in 1..l : native[i].L \in Threads
  BY Fields, CoroutineAssumption DEF Acts, Threads
<1>1. /\ l \in Nat /\ Acts = 1..l /\ Acts' = 1..l + 1 /\ Len(native') = l + 1
      /\ \A i \in 1..l : native'[i] = native[i] /\ native[i].L # co /\ native[i].L \in Threads
      /\ A.fn = "lua_resume" /\ A.L = co /\ A.at = 0 /\ A.y
      /\ Running' = co /\ native' # <<>> /\ Last(native') = A /\ co # Running
      /\ co \in Threads /\ co # Main
  BY <1>0, EnterFields DEF Acts
<1> HIDE DEF l, A
<1>2. \A j \in 1..l + 1 : native'[j].L = co => j = l + 1 /\ Resumes(native'[j])
  <2> SUFFICES ASSUME NEW j \in 1..l + 1, native'[j].L = co
               PROVE  j = l + 1 /\ Resumes(native'[j])
    OBVIOUS
  <2>1. j \notin 1..l
    BY <1>1
  <2>2. j = l + 1
    BY <1>1, <2>1
  <2> QED BY <1>1, <2>2 DEF Resumes, A
<1>3. \A k : After(co, k)'
  BY <1>1, <1>2 DEF After, Resumes
<1>4. ThreadOK(co)'
  <2>1. StatusOK(co)'
    <3>1. Active(co)'
      BY <1>1 DEF Active, A
    <3> QED BY <3>1 DEF StatusOK, Begins
  <2>2. FlagsOK(co)'
    BY DEF FlagsOK, Begins
  <2>3. ReturnsOK(co)'
    BY <1>3 DEF ReturnsOK
  <2>4. CallersOK(co)'
    <3> SUFFICES ASSUME NEW k \in 1..m
                 PROVE  /\ ~(ci'[co][k].kind = "c" /\ k < m)
                        /\ ci'[co][k].kind = "pcall" /\ ~(k = m /\ control' = "frame") =>
                             ci'[co][k].handle /\ ~ci'[co][k].done
      BY <1>1, <1>3 DEF CallersOK, Begins
    <3>1. control' = "frame" => k = m
      BY DEF Begins
    <3> QED BY <3>1 DEF Begins
  <2> QED BY <2>1, <2>2, <2>3, <2>4 DEF ThreadOK
<1>5. ASSUME NEW T \in Threads, T # co PROVE ThreadOK(T)'
  <2>1. \A j \in Acts : native[j].L = T => j \in Acts' /\ native'[j] = native[j]
    BY <1>1
  <2>2. \A j \in Acts' : native'[j].L = T => j \in Acts /\ native[j] = native'[j]
    <3> SUFFICES ASSUME NEW j \in 1..l + 1, native'[j].L = T
                 PROVE  j \in 1..l /\ native[j] = native'[j]
      BY <1>1
    <3>1. j # l + 1
      BY <1>1, <1>5 DEF A
    <3> QED BY <1>1, <3>1
  <2>3. Untouched(T)
    BY <1>5, <2>1, <2>2 DEF Untouched, Begins
  <2> QED BY <2>3, ThreadKept DEF LuaInv
<1>6. ASSUME NEW i \in 1..l PROVE ActOK(i)'
  <2>1. /\ i \in Acts /\ ActOK(i) /\ i \in Acts' /\ native'[i] = native[i] /\ i # Len(native')
        /\ ci'[native[i].L] = ci[native[i].L]
    BY <1>1 DEF LuaInv, Begins
  <2>2. Innermost(i)' => Innermost(i)
    <3>1. i = l \/ (i + 1 \in 1..l /\ native'[i + 1] = native[i + 1])
      BY <1>1
    <3> QED BY <1>1, <2>1, <3>1 DEF Innermost, Resumes, l
  <2> QED BY <2>1, <2>2, ActKept DEF Errors
<1>7. ASSUME NEW i \in Acts', i = l + 1 PROVE ActOK(i)'
  <2>1. native'[i] = A /\ i = Len(native') /\ A.fn = "lua_resume" /\ A.L = co /\ A.at = 0 /\ A.y
    BY <1>1, <1>7 DEF A
  <2>2. /\ Len(ci'[co]) = m /\ control' # "returned"
        /\ control' \notin Errors \cup {"continue"} => 0 < m
    BY DEF Begins, Errors
  <2>3. 0 < m /\ ci'[co][1].kind = "lua" => ci'[co][1].ret
    BY DEF Begins
  <2> QED BY <2>1, <2>2, <2>3 DEF ActOK
<1>8. \A i \in Acts' : ActOK(i)'
  <2>1. \A i \in 1..l + 1 : i \in 1..l \/ i = l + 1
    BY <1>1
  <2>2. ASSUME NEW i \in Acts' PROVE ActOK(i)'
    <3>1. CASE i \in 1..l
      BY <1>6, <3>1
    <3>2. CASE i = l + 1
      BY <1>7, <3>2
    <3> QED BY <1>1, <2>1, <3>1, <3>2
  <2> QED BY <2>2
<1>9. ControlOK'
  <2>1. status'[Main] = "ok"
    BY <1>1 DEF Begins, LuaInv, ControlOK, Threads
  <2>2. control' \notin {"returned", "yielded"} /\ status'[co] = "ok"
    BY DEF Begins
  <2>3. Resumes(Last(native'))
    BY <1>1 DEF Resumes
  <2> QED BY <1>1, <2>1, <2>2, <2>3 DEF ControlOK, Resumes
<1> QED BY <1>4, <1>5, <1>8, <1>9 DEF LuaInv

\* Activations of the running thread are dropped down to native[c], and its
\* CallInfos down to those that native[c] found: Returned, luaD_pcall.
Settles(c) ==
  LET A == native[c]
      L == Running
  IN /\ \A j \in c..Len(native) : native[j].L = L /\ ~Resumes(native[j])
     /\ native' = SubSeq(native, 1, c - 1)
     /\ UNCHANGED status
     /\ \A T \in Threads \ {L} : ci'[T] = ci[T]
     /\ Len(ci'[L]) = A.at
     /\ \A k \in 1..A.at :
          LET f == ci[L][k]
              g == ci'[L][k]
          IN /\ g.kind = f.kind /\ g.ret = f.ret /\ g.co = f.co /\ g.handle = f.handle
             /\ k < A.at => g.done = f.done
     /\ control' = "frame"

LEMMA SettleFields ==
  ASSUME TypeOK, StackInv, LuaInv, control \in Errors \cup {"returned"},
         NEW c \in Acts, Settles(c), NEW L \in Threads, L = Running
  PROVE  LET l == Len(native)
             a == native[c].at
         IN /\ l \in Nat /\ c \in 1..l /\ Acts = 1..l /\ Acts' = 1..c - 1 /\ Len(native') = c - 1
            /\ \A i \in 1..l : native[i].at \in Nat /\ native[i].L \in Threads
            /\ \A i \in 1..c - 1 : native'[i] = native[i]
            /\ Running' = L /\ native[c].L = L
            /\ a \in Nat /\ a <= Len(ci[L]) /\ Len(ci[L]) \in Nat
            /\ status[L] = "ok"
            /\ c > 1 => native[c - 1].L = L
            /\ c = 1 => L = Main /\ a = 0
            /\ \A j \in 1..l : native[j].L = L /\ native[j].at < a => j \in 1..c - 1
            /\ \A j \in 1..c - 1 : native[j].L = L => native[j].at < a
<1> DEFINE l == Len(native)
           a == native[c].at
<1>1. /\ l \in Nat /\ c \in 1..l /\ Acts = 1..l
      /\ \A i \in 1..l : native[i].at \in Nat /\ native[i].L \in Threads
      /\ native # <<>>
  BY Fields DEF Acts
<1>2. /\ Len(native') = c - 1 /\ \A i \in 1..c - 1 : native'[i] = native[i]
  <2>1. c - 1 \in 0..l
    BY <1>1
  <2> QED BY <2>1, StackCut DEF Settles, StackInv
<1>3. native[c].L = L /\ ~Resumes(native[c])
  BY <1>1 DEF Settles
<1>4. c > 1 => native[c - 1].L = L
  <2> SUFFICES ASSUME c > 1 PROVE native[c - 1].L = L
    OBVIOUS
  <2>1. c - 1 \in Acts /\ c - 1 <= c /\ (c - 1) + 1..c = {c}
    BY <1>1
  <2> QED BY <1>1, <1>3, <2>1 DEF StackInv, Segments
<1>5. c = 1 => L = Main /\ a = 0
  BY <1>1, <1>3 DEF StackInv, Segments
<1>6. Running' = L
  <2>1. CASE c = 1
    <3>1. native' = <<>>
      BY <2>1 DEF Settles
    <3> QED BY <1>5, <2>1, <3>1 DEF Running
  <2>2. CASE c > 1
    <3>1. native' # <<>> /\ Last(native') = native'[c - 1] /\ c - 1 \in 1..c - 1
      BY <1>1, <1>2, <2>2 DEF Last
    <3> QED BY <1>2, <1>4, <2>2, <3>1 DEF Running
  <2> QED BY <1>1, <2>1, <2>2
<1>7. native[c].at <= native[l].at /\ native[l].at <= Len(ci[L])
  BY <1>1, <1>3, RunningActs
<1>8. a \in Nat /\ a <= Len(ci[L]) /\ Len(ci[L]) \in Nat
  BY <1>1, <1>7, Stacks
<1>9. status[L] = "ok"
  BY <1>1, RunningStatus DEF Errors
<1>10. ASSUME NEW j \in 1..l, native[j].L = L, native[j].at < a PROVE j \in 1..c - 1
  <2>1. j < c
    BY <1>1, <1>3, <1>10, Order DEF StackInv
  <2> QED BY <1>1, <2>1
<1>11. ASSUME NEW j \in 1..c - 1, native[j].L = L PROVE native[j].at < a
  <2>1. j \in Acts /\ c \in Acts /\ j < c
    BY <1>1
  <2> QED BY <1>3, <1>11, <2>1 DEF StackInv, Segments
<1>12. Acts' = 1..c - 1
  BY <1>2 DEF Acts
<1> QED BY <1>1, <1>2, <1>3, <1>4, <1>5, <1>6, <1>8, <1>9, <1>10, <1>11, <1>12

LEMMA SettleStep ==
  ASSUME TypeOK, StackInv, LuaInv, control \in Errors \cup {"returned"},
         NEW c \in Acts, Settles(c)
  PROVE  LuaInv'
<1> SUFFICES ASSUME NEW L \in Threads, L = Running PROVE LuaInv'
  BY Fields
<1> DEFINE l == Len(native)
           a == native[c].at
<1>1. /\ l \in Nat /\ c \in 1..l /\ Acts = 1..l /\ Acts' = 1..c - 1 /\ Len(native') = c - 1
      /\ \A i \in 1..l : native[i].at \in Nat /\ native[i].L \in Threads
      /\ \A i \in 1..c - 1 : native'[i] = native[i]
      /\ Running' = L /\ native[c].L = L
      /\ a \in Nat /\ a <= Len(ci[L]) /\ Len(ci[L]) \in Nat
      /\ status[L] = "ok"
      /\ c > 1 => native[c - 1].L = L
      /\ c = 1 => L = Main /\ a = 0
      /\ \A j \in 1..l : native[j].L = L /\ native[j].at < a => j \in 1..c - 1
      /\ \A j \in 1..c - 1 : native[j].L = L => native[j].at < a
  BY SettleFields
<1>2. /\ \A T \in Threads \ {L} : ci'[T] = ci[T]
      /\ status' = status /\ control' = "frame" /\ Len(ci'[L]) = a
      /\ \A k \in 1..a :
           /\ ci'[L][k].kind = ci[L][k].kind /\ ci'[L][k].ret = ci[L][k].ret
           /\ ci'[L][k].co = ci[L][k].co /\ ci'[L][k].handle = ci[L][k].handle
           /\ k < a => ci'[L][k].done = ci[L][k].done
      /\ \A k \in 1..a : k \in 1..Len(ci[L])
      /\ \A j \in c..l : native[j].L = L /\ ~Resumes(native[j])
  BY <1>1 DEF Settles
<1>3. ThreadOK(L) /\ control \notin {"frame", "yielded", "continue"}
  BY DEF LuaInv, Errors
<1> HIDE DEF l, a
<1>4. \A k : After(L, k) => After(L, k)'
  <2>1. 1..c - 1 \subseteq 1..l
    BY <1>1
  <2> QED BY <1>1, <2>1 DEF After, Resumes
<1>5. ThreadOK(L)'
  <2>1. StatusOK(L)'
    <3>1. CASE c > 1
      <4>1. c - 1 \in 1..c - 1
        BY <1>1, <3>1
      <4>2. Active(L)'
        BY <1>1, <3>1, <4>1 DEF Active
      <4> QED BY <1>1, <1>2, <4>2 DEF StatusOK
    <3>2. CASE c = 1
      <4>1. ci'[L] = <<>>
        <5>1. ci'[L] = SubSeq(ci[L], 1, 0) \/ Len(ci'[L]) = 0
          BY <1>1, <1>2, <3>2
        <5> QED BY <1>1, <1>2, <3>2, <5>1
      <4> QED BY <1>1, <1>2, <4>1 DEF StatusOK
    <3> QED BY <1>1, <3>1, <3>2
  <2>2. FlagsOK(L)'
    BY <1>2, <1>3 DEF ThreadOK, FlagsOK
  <2>3. ReturnsOK(L)'
    <3> SUFFICES ASSUME NEW k \in 1..a, ci[L][k].ret
                 PROVE  \/ \E j \in 1..c - 1 : native'[j].L = L /\ native'[j].at = k - 1
                        \/ After(L, k - 1)'
      BY <1>1, <1>2 DEF ReturnsOK
    <3>1. \/ \E j \in 1..l : native[j].L = L /\ native[j].at = k - 1
          \/ After(L, k - 1)
      BY <1>1, <1>2, <1>3 DEF ThreadOK, ReturnsOK
    <3>2. CASE After(L, k - 1)
      BY <1>4, <3>2
    <3>3. CASE \E j \in 1..l : native[j].L = L /\ native[j].at = k - 1
      <4>1. PICK j \in 1..l : native[j].L = L /\ native[j].at = k - 1
        BY <3>3
      <4>2. k - 1 < a
        BY <1>1
      <4>3. j \in 1..c - 1
        BY <1>1, <4>1, <4>2
      <4> QED BY <1>1, <4>1, <4>3
    <3> QED BY <3>1, <3>2, <3>3
  <2>4. ASSUME NEW k \in 1..a, k < a, ci'[L][k].kind = "c"
        PROVE  \E j \in 1..c - 1 : native'[j].L = L /\ native'[j].at = k /\ ~native'[j].y
    <3>1. k \in 1..Len(ci[L]) /\ ci[L][k].kind = "c" /\ k < Len(ci[L])
      BY <1>1, <1>2, <2>4
    <3>2. PICK j \in 1..l : native[j].L = L /\ native[j].at = k /\ ~native[j].y
      BY <1>1, <1>3, <3>1 DEF ThreadOK, CallersOK
    <3>3. j \in 1..c - 1
      BY <1>1, <2>4, <3>2
    <3> QED BY <1>1, <3>2, <3>3
  <2>5. ASSUME NEW k \in 1..a, k < a, ci'[L][k].kind = "pcall"
        PROVE  /\ ci'[L][k].handle /\ ~ci'[L][k].done
               /\ \/ \E j \in 1..c - 1 : native'[j].L = L /\ native'[j].at = k
                                            /\ native'[j].fn = "luaD_pcall"
                  \/ After(L, k)'
    <3>1. k \in 1..Len(ci[L]) /\ ci[L][k].kind = "pcall"
      BY <1>1, <1>2, <2>5
    <3>2. /\ ci[L][k].handle /\ ~ci[L][k].done
          /\ \/ \E j \in 1..l : native[j].L = L /\ native[j].at = k
                                  /\ native[j].fn = "luaD_pcall"
             \/ After(L, k)
      BY <1>1, <1>3, <3>1 DEF ThreadOK, CallersOK
    <3>3. ci'[L][k].handle /\ ~ci'[L][k].done
      BY <1>2, <2>5, <3>2
    <3>4. CASE After(L, k)
      BY <1>4, <3>3, <3>4
    <3>5. CASE \E j \in 1..l : native[j].L = L /\ native[j].at = k /\ native[j].fn = "luaD_pcall"
      <4>1. PICK j \in 1..l : native[j].L = L /\ native[j].at = k /\ native[j].fn = "luaD_pcall"
        BY <3>5
      <4>2. j \in 1..c - 1
        BY <1>1, <2>5, <4>1
      <4> QED BY <1>1, <3>3, <4>1, <4>2
    <3> QED BY <3>2, <3>4, <3>5
  <2>6. CallersOK(L)'
    <3>1. \A k \in 1..a : k < a \/ k = a
      BY <1>1
    <3> QED BY <1>1, <1>2, <2>4, <2>5, <3>1 DEF CallersOK
  <2> QED BY <2>1, <2>2, <2>3, <2>6 DEF ThreadOK
<1>6. ASSUME NEW T \in Threads, T # L PROVE ThreadOK(T)'
  <2>1. \A j \in Acts : native[j].L = T => j \in Acts' /\ native'[j] = native[j]
    <3> SUFFICES ASSUME NEW j \in 1..l, native[j].L = T
                 PROVE  j \in 1..c - 1 /\ native'[j] = native[j]
      BY <1>1
    <3>1. j \notin c..l
      BY <1>2, <1>6
    <3> QED BY <1>1, <3>1
  <2>2. \A j \in Acts' : native'[j].L = T => j \in Acts /\ native[j] = native'[j]
    BY <1>1
  <2>3. Untouched(T)
    BY <1>2, <1>6, <2>1, <2>2 DEF Untouched
  <2> QED BY <1>6, <2>3, ThreadKept DEF LuaInv
<1>7. ASSUME NEW i \in 1..c - 1, native[i].L # L PROVE ActOK(i)'
  <2>1. i # c - 1
    BY <1>1, <1>7
  <2>2. /\ i \in Acts /\ ActOK(i) /\ i \in Acts' /\ native'[i] = native[i] /\ i # Len(native')
        /\ i # Len(native) /\ ci'[native[i].L] = ci[native[i].L]
    BY <1>1, <1>2, <1>7, <2>1 DEF LuaInv, l
  <2>3. Innermost(i)' => Innermost(i)
    <3>1. i + 1 \in 1..c - 1 /\ native'[i + 1] = native[i + 1]
      BY <1>1, <2>1
    <3> QED BY <2>2, <3>1 DEF Innermost, Resumes
  <2> QED BY <2>2, <2>3, ActKept
<1>8. ASSUME NEW i \in 1..c - 1, native[i].L = L PROVE ActOK(i)'
  <2> DEFINE b == native[i].at
  <2>1. b \in Nat /\ b < a /\ i \in Acts /\ control' = "frame" /\ Len(ci'[L]) = a
    BY <1>1, <1>2, <1>8
  <2>2. /\ native[i].y <=> \/ native[i].fn \in {"lua_resume", "luaD_performcally"}
                           \/ native[i].fn = "luaD_pcall" /\ b > 0 /\ ci[L][b].kind = "pcall"
        /\ b < Len(ci[L]) /\ ci[L][b + 1].kind = "lua" => ci[L][b + 1].ret
    BY <1>8, <2>1 DEF LuaInv, ActOK
  <2> HIDE DEF b
  <2>3. /\ b > 0 => b \in 1..a
        /\ b + 1 \in 1..a /\ b < Len(ci[L])
    BY <1>1, <2>1
  <2>4. /\ b > 0 => ci'[L][b].kind = ci[L][b].kind
        /\ ci'[L][b + 1].kind = ci[L][b + 1].kind /\ ci'[L][b + 1].ret = ci[L][b + 1].ret
    BY <1>2, <2>3
  <2>5. b <= a
    BY <1>1, <2>1
  <2>6. native'[i] = native[i] /\ native[i].L = L /\ native[i].at = b
    BY <1>1, <1>8 DEF b
  <2> QED BY ONLY <2>1, <2>2, <2>3, <2>4, <2>5, <2>6 DEF ActOK
<1>9. ControlOK'
  BY <1>2 DEF ControlOK, LuaInv, Errors
<1>10. \A i \in Acts' : ActOK(i)'
  <2> SUFFICES ASSUME NEW i \in Acts' PROVE ActOK(i)'
    OBVIOUS
  <2>1. i \in 1..c - 1
    BY <1>1
  <2> QED BY <1>7, <1>8, <2>1
<1> QED BY <1>5, <1>6, <1>9, <1>10 DEF LuaInv

\* The innermost Rust frame is dropped by a yield: Yielded.
Drops ==
  LET A == Last(native)
  IN /\ control = "yielded" /\ control' = "yielded" /\ UNCHANGED status
     /\ ~Resumes(A) /\ native' = Front(native)
     /\ \A T \in Threads \ {A.L} : ci'[T] = ci[T]
     /\ Len(ci'[A.L]) = Len(ci[A.L])
     /\ \A k \in 1..Len(ci[A.L]) :
          LET f == ci[A.L][k]
              g == ci'[A.L][k]
          IN /\ g.kind = f.kind /\ g.ret = f.ret /\ g.co = f.co
             /\ g.handle = f.handle /\ g.done = f.done

LEMMA DropStep ==
  ASSUME TypeOK, StackInv, LuaInv, Drops
  PROVE  LuaInv'
<1> SUFFICES ASSUME NEW L \in Threads, L = Running PROVE LuaInv'
  BY Fields
<1> DEFINE l == Len(native)
           n == Len(ci[L])
<1>1. /\ native # <<>> /\ status[L] \in {"yield", "break", "reentry"}
      /\ \A i \in Acts : native[i].L = L => native[i].y
      /\ Last(ci[L]).kind = "c" => status[L] = "yield"
  BY DEF Drops, LuaInv, ControlOK
<1>2. /\ l \in Nat \ {0} /\ Acts = 1..l /\ l \in 1..l /\ native[l].L = L /\ Last(native) = native[l]
      /\ \A i \in 1..l : native[i].at \in Nat /\ native[i].L \in Threads
      /\ n \in Nat /\ ~Resumes(native[l])
  BY <1>1, Fields, Stacks DEF Acts, Drops
<1>3. L # Main /\ l > 1
  <2>1. L # Main
    BY <1>1, Unyieldable DEF StackInv
  <2>2. l = 1 => native[1].L = Main
    BY <1>1, <1>2 DEF StackInv, Segments
  <2> HIDE DEF l
  <2>3. l # 1
    BY <1>2, <2>1, <2>2
  <2> QED BY <1>2, <2>1, <2>3
<1>4. native[l - 1].L = L
  <2>1. l - 1 \in Acts /\ l \in Acts /\ l - 1 <= l /\ (l - 1) + 1..l = {l}
    BY <1>2, <1>3
  <2> HIDE DEF l
  <2>2. \A k \in (l - 1) + 1..l : ~Resumes(native[k])
    BY <1>2, <2>1
  <2>3. native[l].L = native[l - 1].L
    BY <2>1, <2>2 DEF StackInv, Segments
  <2> QED BY <1>2, <2>3
<1>5. /\ Len(native') = l - 1 /\ \A i \in 1..l - 1 : native'[i] = native[i]
  BY <1>1, Fields, LastFacts DEF Drops
<1>6. /\ Acts' = 1..l - 1 /\ native' # <<>> /\ Running' = L /\ Active(L)'
  <2>1. native' # <<>> /\ Last(native') = native'[l - 1] /\ l - 1 \in 1..l - 1
    BY <1>2, <1>3, <1>5 DEF Last
  <2>2. native'[l - 1].L = L
    BY <1>4, <1>5, <2>1
  <2> QED BY <1>5, <2>1, <2>2 DEF Running, Acts, Active
<1>7. /\ \A T \in Threads \ {L} : ci'[T] = ci[T]
      /\ status' = status /\ control' = "yielded" /\ control = "yielded" /\ Len(ci'[L]) = n
      /\ \A k \in 1..n :
           /\ ci'[L][k].kind = ci[L][k].kind /\ ci'[L][k].ret = ci[L][k].ret
           /\ ci'[L][k].co = ci[L][k].co /\ ci'[L][k].handle = ci[L][k].handle
           /\ ci'[L][k].done = ci[L][k].done
  BY <1>2 DEF Drops
<1>8. ThreadOK(L) /\ ActOK(l)
  BY <1>2 DEF LuaInv
<1>9. native[l].at < n
  BY <1>1, <1>7, RunningActs DEF Errors
<1> HIDE DEF l, n
<1>10. ThreadOK(L)'
  <2>1. StatusOK(L)'
    BY <1>6, <1>7 DEF StatusOK
  <2>2. FlagsOK(L)'
    BY <1>7, <1>8 DEF ThreadOK, FlagsOK, n
  <2>3. ReturnsOK(L)'
    BY <1>6, <1>7 DEF ReturnsOK
  <2>4. \A k \in 1..n : ci[L][k].kind = "c" => ~(k < n)
    BY <1>1, <1>8 DEF ThreadOK, CallersOK, n
  <2>5. \A k \in 1..n : ci[L][k].kind = "pcall" => ci[L][k].handle /\ ~ci[L][k].done
    BY <1>1, <1>7, <1>8 DEF ThreadOK, CallersOK, n
  <2>6. CallersOK(L)'
    BY <1>6, <1>7, <2>4, <2>5 DEF CallersOK
  <2> QED BY <2>1, <2>2, <2>3, <2>6 DEF ThreadOK
<1>11. ASSUME NEW T \in Threads, T # L PROVE ThreadOK(T)'
  <2>1. \A j \in Acts : native[j].L = T => j \in Acts' /\ native'[j] = native[j]
    <3> SUFFICES ASSUME NEW j \in 1..l, native[j].L = T
                 PROVE  j \in 1..l - 1 /\ native'[j] = native[j]
      BY <1>2, <1>6
    <3>1. j # l
      BY <1>2, <1>11
    <3> QED BY <1>2, <1>5, <3>1
  <2>2. \A j \in Acts' : native'[j].L = T => j \in Acts /\ native[j] = native'[j]
    BY <1>2, <1>5, <1>6
  <2>3. Untouched(T)
    BY <1>7, <1>11, <2>1, <2>2 DEF Untouched
  <2> QED BY <1>11, <2>3, ThreadKept DEF LuaInv
<1>12. ASSUME NEW i \in 1..l - 1, native[i].L # L PROVE ActOK(i)'
  <2>1. i # l - 1 /\ i # l
    BY <1>2, <1>4, <1>12
  <2>2. /\ i \in Acts /\ ActOK(i) /\ i \in Acts' /\ native'[i] = native[i] /\ i # Len(native')
        /\ i # Len(native) /\ ci'[native[i].L] = ci[native[i].L]
    BY <1>2, <1>5, <1>6, <1>7, <1>12, <2>1 DEF LuaInv, l
  <2>3. Innermost(i)' => Innermost(i)
    <3>1. i + 1 \in 1..l - 1 /\ native'[i + 1] = native[i + 1]
      BY <1>2, <1>5, <2>1
    <3> QED BY <2>2, <3>1 DEF Innermost, Resumes
  <2> QED BY <2>2, <2>3, ActKept
<1>13. ASSUME NEW i \in 1..l - 1, native[i].L = L PROVE ActOK(i)'
  <2> DEFINE b == native[i].at
  <2>1. b \in Nat /\ b < n /\ i \in Acts /\ i \in 1..l /\ i # l
    <3>1. i \in 1..l /\ i # l
      BY <1>2
    <3>2. b <= native[l].at
      BY <1>1, <1>2, <1>13, <3>1, RunningActs DEF l
    <3> QED BY <1>2, <1>9, <3>1, <3>2
  <2>2. /\ native[i].y <=> \/ native[i].fn \in {"lua_resume", "luaD_performcally"}
                           \/ native[i].fn = "luaD_pcall" /\ b > 0 /\ ci[L][b].kind = "pcall"
        /\ b < n /\ ci[L][b + 1].kind = "lua" => ci[L][b + 1].ret
    BY <1>13, <2>1 DEF LuaInv, ActOK, n
  <2> HIDE DEF b
  <2>3. /\ b > 0 => b \in 1..n
        /\ b + 1 \in 1..n /\ b <= n
    BY <1>2, <2>1
  <2>4. /\ b > 0 => ci'[L][b].kind = ci[L][b].kind
        /\ ci'[L][b + 1].kind = ci[L][b + 1].kind /\ ci'[L][b + 1].ret = ci[L][b + 1].ret
    BY <1>7, <2>3
  <2>5. /\ native'[i] = native[i] /\ native[i].L = L /\ native[i].at = b
        /\ control' = "yielded" /\ Len(ci'[L]) = n
    BY <1>5, <1>7, <1>13 DEF b
  <2> QED BY ONLY <2>1, <2>2, <2>3, <2>4, <2>5 DEF ActOK
<1>14. \A i \in Acts' : ActOK(i)'
  <2> SUFFICES ASSUME NEW i \in Acts' PROVE ActOK(i)'
    OBVIOUS
  <2>1. i \in 1..l - 1
    BY <1>6
  <2> QED BY <1>12, <1>13, <2>1
<1>15. ControlOK'
  <2>1. \A i \in 1..l - 1 : i \in Acts /\ native'[i] = native[i]
    BY <1>2, <1>5
  <2>2. \A i \in 1..l - 1 : native'[i].L = L => native'[i].y
    BY <1>1, <2>1
  <2>3. Last(ci'[L]).kind = Last(ci[L]).kind
    <3>1. n \in 1..n /\ Last(ci[L]) = ci[L][n] /\ Last(ci'[L]) = ci'[L][n]
      BY <1>2, <1>7, <1>9 DEF Last, n
    <3> QED BY <1>7, <3>1
  <2>4. status'[Main] = "ok"
    BY <1>7 DEF LuaInv, ControlOK
  <2> QED BY <1>1, <1>6, <1>7, <2>2, <2>3, <2>4 DEF ControlOK, Errors
<1> QED BY <1>10, <1>11, <1>14, <1>15 DEF LuaInv

LEMMA HandlerFacts ==
  ASSUME TypeOK, NEW L \in Threads, Handlers(L) # {}
  PROVE  /\ Handler(L) \in 1..Len(ci[L]) /\ ci[L][Handler(L)].handle
         /\ \A j \in 1..Len(ci[L]) : ci[L][j].handle => j <= Handler(L)
<1>1. Len(ci[L]) \in Nat /\ Handlers(L) \in SUBSET (1..Len(ci[L]))
  BY Stacks DEF Handlers
<1>2. \E i \in Handlers(L) : \A j \in Handlers(L) : j <= i
  BY <1>1, Greatest
<1>3. Handler(L) \in Handlers(L) /\ \A j \in Handlers(L) : j <= Handler(L)
  BY <1>2 DEF Handler
<1> QED BY <1>3 DEF Handlers

\* The error goes on at a handler of the coroutine: ResumeCatch.
Handles(c) ==
  LET L == Running
      h == Handler(L)
  IN /\ control \in Errors /\ control' = "continue"
     /\ Resumes(native[c]) /\ Handlers(L) # {}
     /\ native' = SubSeq(native, 1, c)
     /\ \A T \in Threads \ {L} : ci'[T] = ci[T] /\ status'[T] = status[T]
     /\ status'[L] = "ok"
     /\ ci'[L] = SubSeq(ci[L], 1, h - 1)

LEMMA HandleStep ==
  ASSUME TypeOK, StackInv, LuaInv, NEW c, c = Catcher, Handles(c)
  PROVE  LuaInv'
<1> SUFFICES ASSUME NEW L \in Threads, L = Running PROVE LuaInv'
  BY Fields
<1> DEFINE l == Len(native)
           n == Len(ci[L])
           h == Handler(L)
<1>1. native # <<>>
  BY DEF Handles, LuaInv, ControlOK
<1>2. /\ l \in Nat \ {0} /\ Acts = 1..l
      /\ \A i \in 1..l : native[i].at \in Nat /\ native[i].L \in Threads
      /\ n \in Nat
  BY <1>1, Fields, Stacks DEF Acts
<1>3. /\ c \in 1..l /\ native[c].L = L /\ Resumes(native[c])
      /\ \A j \in c + 1..l : ~Catches(native[j]) /\ native[j].L = L
  BY <1>1, <1>2, CatcherFacts DEF StackInv, Handles
<1>4. /\ h \in 1..n /\ ci[L][h].handle
  BY HandlerFacts DEF Handles
<1>5. /\ Len(ci'[L]) = h - 1 /\ \A k \in 1..h - 1 : ci'[L][k] = ci[L][k] /\ k \in 1..n /\ k < n
  <2>1. h - 1 \in 0..n /\ ci[L] \in Seq(Frames)
    BY <1>2, <1>4, Stacks
  <2>2. /\ Len(SubSeq(ci[L], 1, h - 1)) = h - 1
        /\ \A k \in 1..h - 1 : SubSeq(ci[L], 1, h - 1)[k] = ci[L][k]
    BY <2>1, PrefixFacts
  <2>3. \A k \in 1..h - 1 : k \in 1..n /\ k < n
    BY <1>2, <1>4
  <2> QED BY <2>2, <2>3 DEF Handles
<1>6. /\ Len(native') = c /\ \A i \in 1..c : native'[i] = native[i]
  <2>1. c \in 0..l
    BY <1>2, <1>3
  <2> QED BY <2>1, StackCut DEF Handles, StackInv
<1>7. /\ Acts' = 1..c /\ native' # <<>> /\ Running' = L /\ Last(native') = native[c] /\ Active(L)'
  <2>1. native' # <<>> /\ Last(native') = native'[c] /\ c \in 1..c
    BY <1>2, <1>3, <1>6 DEF Last
  <2> QED BY <1>3, <1>6, <2>1 DEF Running, Acts, Active
<1>8. ThreadOK(L) /\ status[L] = "ok" /\ control \notin {"frame", "yielded", "continue", "returned"}
  BY <1>1, RunningStatus DEF LuaInv, Handles, Errors
<1>9. /\ \A T \in Threads \ {L} : ci'[T] = ci[T] /\ status'[T] = status[T]
      /\ status'[L] = "ok" /\ control' = "continue"
  BY DEF Handles
<1>10. \A j \in 1..l : native[j].L = L => j \in c..l
  BY <1>2, <1>3, Order DEF StackInv
<1> HIDE DEF l, n, h
<1>11. \A k \in 1..h - 1 : ci[L][k].kind # "c"
  <2> SUFFICES ASSUME NEW k \in 1..h - 1, ci[L][k].kind = "c" PROVE FALSE
    OBVIOUS
  <2>1. PICK j \in 1..l : native[j].L = L /\ native[j].at = k /\ ~native[j].y
    BY <1>2, <1>5, <1>8 DEF ThreadOK, CallersOK, n
  <2>2. ~Resumes(native[j])
    BY <1>2, <2>1 DEF StackInv, Segments
  <2>3. \/ \E i \in 1..l : native[i].L = L /\ native[i].at = h /\ native[i].fn = "luaD_pcall"
        \/ After(L, h)
    <3>1. ci[L][h].kind = "pcall"
      BY <1>4, <1>8 DEF ThreadOK, FlagsOK, n
    <3> QED BY <1>2, <1>4, <1>8, <3>1 DEF ThreadOK, CallersOK, n
  <2>4. ~After(L, h)
    <3>1. ~(native[j].at > h)
      BY <1>2, <1>4, <2>1
    <3> QED BY <1>2, <2>1, <2>2, <3>1 DEF After
  <2>5. PICK i \in 1..l : native[i].L = L /\ native[i].fn = "luaD_pcall"
    BY <2>3, <2>4
  <2>6. i = c \/ i \in c + 1..l
    BY <1>2, <1>3, <1>10, <2>5
  <2> QED BY <1>3, <2>5, <2>6 DEF Catches, Resumes
<1>12. \A k : After(L, k)'
  <2>1. \A j \in 1..c : native'[j].L = L => Resumes(native'[j])
    <3> SUFFICES ASSUME NEW j \in 1..c, native'[j].L = L PROVE Resumes(native'[j])
      OBVIOUS
    <3>1. j \in 1..l /\ native'[j] = native[j]
      BY <1>2, <1>3, <1>6
    <3>2. j = c
      BY <1>2, <1>3, <1>10, <3>1
    <3> QED BY <1>3, <3>1, <3>2
  <2> QED BY <1>7, <2>1 DEF After, Resumes
<1>13. ThreadOK(L)'
  <2>1. StatusOK(L)'
    BY <1>7, <1>9 DEF StatusOK
  <2>2. FlagsOK(L)'
    BY <1>5, <1>8 DEF ThreadOK, FlagsOK, n
  <2>3. ReturnsOK(L)'
    BY <1>12 DEF ReturnsOK
  <2>4. \A k \in 1..h - 1 : ci[L][k].kind = "pcall" => ci[L][k].handle /\ ~ci[L][k].done
    BY <1>5, <1>8 DEF ThreadOK, CallersOK, n
  <2>5. CallersOK(L)'
    BY <1>5, <1>11, <1>12, <2>4 DEF CallersOK
  <2> QED BY <2>1, <2>2, <2>3, <2>5 DEF ThreadOK
<1>14. ASSUME NEW T \in Threads, T # L PROVE ThreadOK(T)'
  <2>1. \A j \in Acts : native[j].L = T => j \in Acts' /\ native'[j] = native[j]
    <3> SUFFICES ASSUME NEW j \in 1..l, native[j].L = T
                 PROVE  j \in 1..c /\ native'[j] = native[j]
      BY <1>2, <1>7
    <3>1. j \notin c + 1..l
      BY <1>3, <1>14
    <3> QED BY <1>2, <1>3, <1>6, <3>1
  <2>2. \A j \in Acts' : native'[j].L = T => j \in Acts /\ native[j] = native'[j]
    BY <1>2, <1>3, <1>6, <1>7
  <2>3. Untouched(T)
    BY <1>9, <1>14, <2>1, <2>2 DEF Untouched
  <2> QED BY <1>14, <2>3, ThreadKept DEF LuaInv
<1>15. ASSUME NEW i \in Acts' PROVE ActOK(i)'
  <2>0. i \in 1..c /\ i \in 1..l
    BY <1>2, <1>3, <1>7
  <2>1. CASE i # c
    <3>1. native[i].L # L
      BY <1>2, <1>3, <1>10, <2>0, <2>1
    <3>2. i # l /\ i + 1 \in 1..c /\ native'[i + 1] = native[i + 1]
      BY <1>2, <1>3, <1>6, <2>0, <2>1
    <3>3. /\ i \in Acts /\ ActOK(i) /\ native'[i] = native[i] /\ i # Len(native')
          /\ i # Len(native) /\ ci'[native[i].L] = ci[native[i].L]
      BY <1>2, <1>6, <1>9, <2>0, <2>1, <3>1, <3>2 DEF LuaInv, l
    <3>4. Innermost(i)' => Innermost(i)
      BY <3>2, <3>3 DEF Innermost, Resumes
    <3> QED BY <3>3, <3>4, ActKept
  <2>2. CASE i = c
    <3>1. native'[i] = native[c] /\ native[c].L = L /\ native[c].fn = "lua_resume" /\ i = Len(native')
      BY <1>3, <1>6, <2>0, <2>2 DEF Resumes
    <3>2. native[c].at = 0 /\ native[c].y
      BY <1>2, <1>3 DEF StackInv, Segments
    <3>3. 0 < Len(ci'[L]) /\ ci'[L][1].kind = "lua" => ci'[L][1].ret
      <4>1. 0 < Len(ci'[L]) => 1 \in 1..h - 1
        BY <1>2, <1>4, <1>5
      <4> QED BY <1>5, <1>8, <4>1 DEF ThreadOK, FlagsOK, n
    <3>4. 0 <= Len(ci'[L]) /\ control' = "continue"
      BY <1>2, <1>4, <1>5, <1>9
    <3> QED BY ONLY <3>1, <3>2, <3>3, <3>4 DEF ActOK
  <2> QED BY <2>1, <2>2
<1>16. ControlOK'
  <2>1. L # Main
    BY <1>2, <1>3, CoroutineAssumption DEF StackInv, Segments
  <2>2. status'[Main] = "ok"
    BY <1>9, <2>1 DEF LuaInv, ControlOK, Threads
  <2>3. Resumes(Last(native'))
    BY <1>3, <1>7
  <2> QED BY <1>7, <1>9, <2>2, <2>3 DEF ControlOK, Resumes
<1> QED BY <1>13, <1>14, <1>15, <1>16 DEF LuaInv

\* The lua_resume native[c] of the running coroutine returns: Finish.
Ends(c) ==
  LET L == Running
  IN /\ Resumes(native[c])
     /\ \A j \in c..Len(native) : native[j].L = L
     /\ native' = SubSeq(native, 1, c - 1)
     /\ control' \in Outcomes /\ ci' = ci
     /\ \A T \in Threads \ {L} : status'[T] = status[T]
     /\ \/ status'[L] = "error"
        \/ /\ control = "yielded" /\ status'[L] = status[L]
           /\ status[L] \in {"yield", "break"}
        \/ /\ ci[L] = <<>> /\ status'[L] = "ok"

LEMMA FinishStep ==
  ASSUME TypeOK, StackInv, LuaInv, NEW c \in Acts, Ends(c)
  PROVE  LuaInv'
<1> SUFFICES ASSUME NEW L \in Threads, L = Running PROVE LuaInv'
  BY Fields
<1> DEFINE l == Len(native)
           n == Len(ci[L])
<1>1. /\ l \in Nat \ {0} /\ Acts = 1..l /\ c \in 1..l
      /\ \A i \in 1..l : native[i].at \in Nat /\ native[i].L \in Threads
      /\ n \in Nat /\ native # <<>>
  BY Fields, Stacks DEF Acts
<1>2. /\ Resumes(native[c]) /\ native[c].L = L
      /\ \A j \in c..l : native[j].L = L
      /\ control' \in Outcomes /\ ci' = ci
      /\ \A T \in Threads \ {L} : status'[T] = status[T]
  BY <1>1 DEF Ends
<1>3. /\ Len(native') = c - 1 /\ \A i \in 1..c - 1 : native'[i] = native[i]
  <2>1. c - 1 \in 0..l
    BY <1>1
  <2> QED BY <2>1, StackCut DEF Ends, StackInv
<1>4. \A j \in 1..l : native[j].L = L <=> j \in c..l
  BY <1>1, <1>2, Order DEF StackInv
<1>5. Acts' = 1..c - 1 /\ \A j \in 1..c - 1 : native'[j].L # L
  BY <1>1, <1>3, <1>4 DEF Acts
<1>6. ~Active(L)' /\ \A k : After(L, k)'
  BY <1>3, <1>5 DEF Active, After
<1>7. ThreadOK(L) /\ L # Main
  BY <1>1, <1>2, CoroutineAssumption DEF LuaInv, StackInv, Segments
<1> HIDE DEF l, n
<1>8. ASSUME control = "yielded"
      PROVE  /\ ci[L] # <<>> /\ status[L] # "error"
             /\ \A k \in 1..n : ci[L][k].kind = "c" => k = n /\ status[L] = "yield"
             /\ \A k \in 1..n : ci[L][k].kind = "pcall" => ci[L][k].handle /\ ~ci[L][k].done
  <2>1. /\ \A i \in Acts : native[i].L = L => native[i].y
        /\ Last(ci[L]).kind = "c" => status[L] = "yield"
        /\ status[L] # "error"
    BY <1>8 DEF LuaInv, ControlOK
  <2>2. native[l].at < n
    BY <1>1, <1>8, RunningActs DEF Errors, l, n
  <2>3. n > 0 /\ ci[L] # <<>> /\ Last(ci[L]) = ci[L][n]
    <3>1. l \in 1..l
      BY <1>1
    <3>2. n > 0
      BY <1>1, <2>2, <3>1
    <3> QED BY <3>2, Stacks DEF n
  <2>4. ASSUME NEW k \in 1..n, ci[L][k].kind = "c" PROVE k = n /\ status[L] = "yield"
    <3>1. ~(k < n)
      BY <2>1, <1>7, <2>4 DEF ThreadOK, CallersOK, n
    <3>2. k = n
      BY <1>1, <3>1
    <3> QED BY <2>1, <2>3, <2>4, <3>2
  <2>5. \A k \in 1..n : ci[L][k].kind = "pcall" => ci[L][k].handle /\ ~ci[L][k].done
    BY <1>7, <1>8, <2>1 DEF ThreadOK, CallersOK, n
  <2> QED BY <2>1, <2>3, <2>4, <2>5
<1>9. ThreadOK(L)'
  <2>1. StatusOK(L)'
    BY <1>2, <1>6, <1>8 DEF StatusOK, Ends, n
  <2>2. FlagsOK(L)'
    BY <1>2, <1>7 DEF ThreadOK, FlagsOK
  <2>3. ReturnsOK(L)'
    BY <1>6 DEF ReturnsOK
  <2>4. CallersOK(L)'
    <3> SUFFICES ASSUME status'[L] # "error", NEW k \in 1..n
                 PROVE  /\ ~(ci[L][k].kind = "c" /\ k < n)
                        /\ ci[L][k].kind = "pcall" => ci[L][k].handle /\ ~ci[L][k].done
      BY <1>2, <1>6 DEF CallersOK, n
    <3>1. CASE control = "yielded"
      BY <1>1, <1>8, <3>1
    <3>2. CASE control # "yielded"
      <4>1. ci[L] = <<>>
        BY <3>2 DEF Ends
      <4> QED BY <4>1 DEF n
    <3> QED BY <3>1, <3>2
  <2> QED BY <2>1, <2>2, <2>3, <2>4 DEF ThreadOK
<1>10. ASSUME NEW T \in Threads, T # L PROVE ThreadOK(T)'
  <2>1. \A j \in Acts : native[j].L = T => j \in Acts' /\ native'[j] = native[j]
    <3> SUFFICES ASSUME NEW j \in 1..l, native[j].L = T
                 PROVE  j \in 1..c - 1 /\ native'[j] = native[j]
      BY <1>1, <1>5
    <3>1. j \notin c..l
      BY <1>2, <1>10
    <3> QED BY <1>1, <1>3, <3>1
  <2>2. \A j \in Acts' : native'[j].L = T => j \in Acts /\ native[j] = native'[j]
    BY <1>1, <1>3, <1>5
  <2>3. Untouched(T)
    BY <1>2, <1>10, <2>1, <2>2 DEF Untouched
  <2> QED BY <1>10, <2>3, ThreadKept DEF LuaInv
<1>11. ASSUME NEW i \in Acts' PROVE ActOK(i)'
  <2>1. i \in 1..c - 1 /\ i \in 1..l /\ i # l
    BY <1>1, <1>5
  <2>2. /\ i \in Acts /\ ActOK(i) /\ native'[i] = native[i]
        /\ i # Len(native) /\ ci'[native[i].L] = ci[native[i].L]
    BY <1>1, <1>2, <1>3, <2>1 DEF LuaInv, l
  <2>3. Innermost(i)' => Innermost(i)
    <3>1. CASE i = c - 1
      <4>1. i + 1 = c
        BY <1>1, <3>1
      <4> QED BY <1>2, <4>1 DEF Innermost
    <3>2. CASE i # c - 1
      <4>1. i + 1 \in 1..c - 1 /\ native'[i + 1] = native[i + 1] /\ i # Len(native')
        BY <1>1, <1>3, <2>1, <3>2
      <4> QED BY <2>2, <4>1 DEF Innermost, Resumes
    <3> QED BY <3>1, <3>2
  <2>4. control' # "returned"
    BY <1>2 DEF Outcomes
  <2> QED BY <2>2, <2>3, <2>4, ActKept
<1>12. ControlOK'
  <2>1. status'[Main] = "ok"
    BY <1>2, <1>7 DEF LuaInv, ControlOK, Threads
  <2>2. control' \notin Errors \cup {"returned", "yielded", "continue"}
    BY <1>2 DEF Outcomes, Errors
  <2> QED BY <2>1, <2>2 DEF ControlOK
<1> QED BY <1>9, <1>10, <1>11, <1>12 DEF LuaInv

\* Nothing but a coroutine that is not active is touched, if anything.
Idles(co) ==
  /\ UNCHANGED native
  /\ control' \in {"frame"} \cup Outcomes
  /\ \A T \in Threads \ {co} : ci'[T] = ci[T] /\ status'[T] = status[T]
  /\ \/ ci'[co] = <<>> /\ status'[co] = "ok"
     \/ ci'[co] = ci[co] /\ status'[co] \in {status[co], "error"}

LEMMA IdleStep ==
  ASSUME TypeOK, StackInv, LuaInv, control \in {"frame"} \cup Outcomes,
         control = "frame" => TopSettled(Running),
         NEW co \in Coroutines, ~Active(co), Idles(co)
  PROVE  LuaInv'
<1>1. /\ native' = native /\ Acts' = Acts /\ Running' = Running /\ co \in Threads /\ co # Main
      /\ \A T \in Threads \ {co} : ci'[T] = ci[T] /\ status'[T] = status[T]
      /\ \A T \in Threads : Active(T)' <=> Active(T)
  BY CoroutineAssumption DEF Idles, Acts, Running, Active, Threads
<1>2. \A i \in Acts : native[i].L \in Threads \ {co}
  BY Fields DEF Active, Acts
<1>3. control \notin {"yielded", "continue"} \cup Errors \cup {"returned"}
      /\ control' \notin {"yielded", "continue"} \cup Errors \cup {"returned"}
  BY DEF Idles, Outcomes, Errors
<1>4. ASSUME NEW T \in Threads, ci'[T] = ci[T], status'[T] = status[T] PROVE ThreadOK(T)'
  <2>1. Untouched(T)
    BY <1>1, <1>4 DEF Untouched
  <2> QED BY <1>3, <1>4, <2>1, ThreadKept DEF LuaInv
<1>5. ThreadOK(co)'
  <2>1. CASE ci'[co] = ci[co] /\ status'[co] = status[co]
    BY <1>1, <1>4, <2>1
  <2>2. CASE ci'[co] = <<>> /\ status'[co] = "ok"
    BY <1>1, <2>2 DEF ThreadOK, StatusOK, FlagsOK, ReturnsOK, CallersOK
  <2>3. CASE ci'[co] = ci[co] /\ status'[co] = "error"
    <3>1. ThreadOK(co)
      BY <1>1 DEF LuaInv
    <3>2. StatusOK(co)' /\ CallersOK(co)'
      BY <1>1, <2>3 DEF StatusOK, CallersOK
    <3>3. FlagsOK(co)'
      BY <2>3, <3>1 DEF ThreadOK, FlagsOK
    <3>4. \A k : After(co, k)'
      BY <1>1, <1>2 DEF After
    <3>5. ReturnsOK(co)'
      BY <3>4 DEF ReturnsOK
    <3> QED BY <3>2, <3>3, <3>5 DEF ThreadOK
  <2> QED BY <2>1, <2>2, <2>3 DEF Idles
<1>6. ASSUME NEW i \in Acts PROVE ActOK(i)'
  <2>1. ActOK(i) /\ native'[i] = native[i] /\ ci'[native[i].L] = ci[native[i].L]
    BY <1>1, <1>2 DEF LuaInv
  <2>2. Innermost(i)' => Innermost(i)
    BY <1>1 DEF Innermost, Resumes
  <2> QED BY <1>1, <1>3, <2>1, <2>2, ActKept
<1>7. ControlOK'
  BY <1>1, <1>3 DEF ControlOK, LuaInv, Threads
<1> QED BY <1>1, <1>4, <1>5, <1>6, <1>7 DEF LuaInv

-----------------------------------------------------------------------------
(***************************************************************************)
(* The steps.                                                              *)
(***************************************************************************)
Controls == {"frame", "returned", "continue", "yielded"} \cup Errors \cup Outcomes

LEMMA ExceptFacts ==
  ASSUME NEW S, NEW f \in [Threads -> S], NEW L \in Threads, NEW v \in S
  PROVE  /\ [f EXCEPT ![L] = v] \in [Threads -> S]
         /\ [f EXCEPT ![L] = v][L] = v
         /\ \A T \in Threads \ {L} : [f EXCEPT ![L] = v][T] = f[T]
OBVIOUS

LEMMA CalleeFacts ==
  ASSUME NEW f \in Callees
  PROVE  /\ f \in Frames /\ Called(f) /\ ~f.done /\ f.kind \in AllKinds
         /\ Precalled(f) \in Frames
         /\ Precalled(f).kind = f.kind /\ Precalled(f).co = f.co
         /\ ~Precalled(f).handle /\ ~Precalled(f).done
         /\ Precalled(f).ret <=> f.kind = "lua"
         /\ f.kind \in {"resume", "wrap"} => f.co \in Coroutines
<1>1. /\ f \in Frames /\ ~f.ret /\ ~f.handle /\ ~f.done
      /\ f.kind \in {"resume", "wrap"} => f.co \in Coroutines
  <2>1. PICK k \in Kinds, co \in Coroutines \cup {Nil} :
          f = Frame(k, co) /\ (k \in {"resume", "wrap"} => co \in Coroutines)
    <3>1. CASE f \in {Frame(k, Nil) : k \in Kinds \ {"resume", "wrap"}}
      BY <3>1
    <3>2. CASE f \in {Frame(k, co) : k \in Kinds \cap {"resume", "wrap"}, co \in Coroutines}
      BY <3>2
    <3> QED BY <3>1, <3>2 DEF Callees
  <2>2. k \in AllKinds
    BY CoroutineAssumption
  <2>3. f = [kind |-> k, co |-> co, ret |-> FALSE, handle |-> FALSE,
             opyield |-> FALSE, done |-> FALSE]
    BY <2>1 DEF Frame
  <2>4. f \in Frames
    BY <2>2, <2>3 DEF Frames
  <2>5. f.kind = k /\ f.co = co /\ ~f.ret /\ ~f.handle /\ ~f.done
    BY <2>3
  <2> QED BY <2>1, <2>4, <2>5
<1>2. /\ f.kind \in AllKinds
      /\ Precalled(f) \in Frames
      /\ Precalled(f).kind = f.kind /\ Precalled(f).co = f.co
      /\ Precalled(f).handle = f.handle /\ Precalled(f).done = f.done
      /\ Precalled(f).ret <=> f.kind = "lua"
  BY <1>1 DEF Precalled, Frames
<1> QED BY <1>1, <1>2 DEF Called

\* One thread's CallInfos are replaced.
LEMMA CiSet ==
  ASSUME TypeOK, NEW L \in Threads, NEW s \in Seq(Frames), ci' = [ci EXCEPT ![L] = s]
  PROVE  /\ ci' \in [Threads -> Seq(Frames)] /\ ci'[L] = s
         /\ \A T \in Threads \ {L} : ci'[T] = ci[T]
<1>1. ci \in [Threads -> Seq(Frames)]
  BY DEF TypeOK
<1> QED BY <1>1, ExceptFacts

LEMMA CiPop ==
  ASSUME TypeOK, NEW L \in Threads, ci[L] # <<>>, PopFrame(L)
  PROVE  /\ ci' \in [Threads -> Seq(Frames)] /\ Len(ci'[L]) = Len(ci[L]) - 1
         /\ \A k \in 1..Len(ci[L]) - 1 : ci'[L][k] = ci[L][k]
         /\ \A T \in Threads \ {L} : ci'[T] = ci[T]
<1>1. /\ Front(ci[L]) \in Seq(Frames) /\ Len(Front(ci[L])) = Len(ci[L]) - 1
      /\ \A k \in 1..Len(ci[L]) - 1 : Front(ci[L])[k] = ci[L][k]
  BY Stacks
<1>2. ci' = [ci EXCEPT ![L] = Front(ci[L])]
  BY DEF PopFrame
<1> QED BY <1>1, <1>2, CiSet

LEMMA CiEdit ==
  ASSUME TypeOK, NEW L \in Threads, ci[L] # <<>>, NEW f \in Frames, EditFrame(L, f)
  PROVE  /\ ci' \in [Threads -> Seq(Frames)] /\ Len(ci'[L]) = Len(ci[L])
         /\ ci'[L][Len(ci[L])] = f
         /\ \A k \in 1..Len(ci[L]) - 1 : ci'[L][k] = ci[L][k]
         /\ \A T \in Threads \ {L} : ci'[T] = ci[T]
<1> DEFINE s == Append(Front(ci[L]), f)
<1>1. /\ s \in Seq(Frames) /\ Len(s) = Len(ci[L]) /\ s[Len(ci[L])] = f
      /\ \A k \in 1..Len(ci[L]) - 1 : s[k] = ci[L][k]
  BY EditFacts, Stacks
<1>2. ci' = [ci EXCEPT ![L] = s]
  BY DEF EditFrame
<1> HIDE DEF s
<1> QED BY <1>1, <1>2, CiSet

LEMMA CiPush ==
  ASSUME TypeOK, NEW L \in Threads, NEW f \in Frames, ci' = [ci EXCEPT ![L] = Append(ci[L], f)]
  PROVE  /\ ci' \in [Threads -> Seq(Frames)] /\ Len(ci'[L]) = Len(ci[L]) + 1
         /\ ci'[L][Len(ci[L]) + 1] = f
         /\ \A k \in 1..Len(ci[L]) : ci'[L][k] = ci[L][k]
         /\ \A T \in Threads \ {L} : ci'[T] = ci[T]
<1> DEFINE s == Append(ci[L], f)
<1>1. /\ s \in Seq(Frames) /\ Len(s) = Len(ci[L]) + 1 /\ s[Len(ci[L]) + 1] = f
      /\ \A k \in 1..Len(ci[L]) : s[k] = ci[L][k]
  BY AppendFacts, Stacks
<1>2. ci' = [ci EXCEPT ![L] = s]
  OBVIOUS
<1> HIDE DEF s
<1> QED BY <1>1, <1>2, CiSet

\* The status of one thread is set.
LEMMA StatusSet ==
  ASSUME TypeOK, NEW L \in Threads, NEW t \in Statuses, status' = [status EXCEPT ![L] = t]
  PROVE  /\ status' \in [Threads -> Statuses] /\ status'[L] = t
         /\ \A T \in Threads \ {L} : status'[T] = status[T]
<1>1. status \in [Threads -> Statuses]
  BY DEF TypeOK
<1> QED BY <1>1, ExceptFacts

\* A step of the frame on top of the running thread
LEMMA TopKeeps ==
  ASSUME IInv, native # <<>>, control # "cstack", UNCHANGED <<ccalls, body, native>>,
         ci' \in [Threads -> Seq(Frames)], status' \in [Threads -> Statuses], control' \in Controls,
         \A T \in Threads \ {Running} : ci'[T] = ci[T] /\ status'[T] = status[T],
         NEW m \in Nat, TopMoves(m), TopGoesOn(m)
  PROVE  IInv'
<1>1. TypeOK'
  BY DEF IInv, TypeOK, ccalls, Controls
<1>2. StackInv'
  BY StackKept DEF IInv
<1>3. Local
  BY DEF Local
<1>4. LuaInv'
  BY <1>3, TopStep DEF IInv
<1> QED BY <1>1, <1>2, <1>4 DEF IInv

\* The frame on top of a thread that runs
LEMMA FrameFacts ==
  ASSUME IInv, NEW k, InFrame(k), NEW L \in Threads, L = Running
  PROVE  /\ control = "frame" /\ native # <<>> /\ status[L] = "ok"
         /\ ci[L] # <<>> /\ Len(ci[L]) \in Nat \ {0} /\ Last(ci[L]) = ci[L][Len(ci[L])]
         /\ Len(ci[L]) \in 1..Len(ci[L])
         /\ ci[L][Len(ci[L])] \in Frames /\ ci[L][Len(ci[L])].kind = k
         /\ Last(native).at \in Nat /\ Last(native).at < Len(ci[L])
         /\ Last(native) = native[Len(native)] /\ Len(native) \in Acts
<1>1. control = "frame" /\ native # <<>> /\ ci[L] # <<>> /\ Last(ci[L]).kind = k /\ TypeOK
  BY DEF InFrame, IInv
<1>2. status[L] = "ok"
  BY <1>1, RunningStatus DEF IInv
<1>3. /\ Len(ci[L]) \in Nat \ {0} /\ Last(ci[L]) = ci[L][Len(ci[L])]
      /\ Len(ci[L]) \in 1..Len(ci[L]) /\ ci[L][Len(ci[L])] \in Frames
  BY <1>1, Stacks
<1>4. /\ Last(native).at \in Nat /\ Last(native) = native[Len(native)] /\ Len(native) \in Acts
  BY <1>1, Fields
<1>5. native[Len(native)].at < Len(ci[L])
  BY <1>1, RunningActs DEF IInv, Errors
<1> QED BY <1>1, <1>2, <1>3, <1>4, <1>5

\* Between calls of the host nothing runs.
LEMMA HostFacts ==
  ASSUME IInv, native = <<>>
  PROVE  Running = Main /\ Main \in Threads /\ ci[Main] = <<>> /\ status[Main] = "ok" /\ TopSettled(Running)
<1>1. Running = Main /\ Main \in Threads /\ ~Active(Main)
  BY DEF Running, Threads, Active
<1>2. status[Main] = "ok"
  BY DEF IInv, LuaInv, ControlOK
<1>3. ci[Main] = <<>>
  BY <1>1, <1>2 DEF IInv, LuaInv, ThreadOK, StatusOK
<1> QED BY <1>1, <1>2, <1>3 DEF TopSettled

\* The counters tell whether every Rust frame of the running thread can be
\* dropped.
LEMMA YieldFacts ==
  ASSUME IInv, native # <<>>, control # "cstack", lua_isyieldable(Running)
  PROVE  \A i \in Acts : native[i].L = Running => native[i].y
<1>1. nCcalls[Running] <= baseCcalls[Running] /\ nCcalls[Running] \in Nat /\ baseCcalls[Running] \in Nat
  BY Fields DEF lua_isyieldable, IInv
<1>2. /\ baseCcalls[Running] <= nCcalls[Running]
      /\ nCcalls[Running] = baseCcalls[Running]
           => \A j \in Acts : native[j].L = Running => native[j].y
  BY TopCounters DEF IInv
<1>3. nCcalls[Running] = baseCcalls[Running]
  BY <1>1, <1>2
<1> QED BY <1>2, <1>3

\* A step that leaves the CallInfos alone and puts nothing on top
LEMMA StillKeeps ==
  ASSUME IInv, native # <<>>, control \in {"frame"} \cup Outcomes, NEW L \in Threads, L = Running,
         UNCHANGED <<ci, ccalls, body, native>>, control' \in {"frame", "yielded"} \cup Errors \cup Outcomes,
         control = "frame" => ci[L][Len(ci[L])].kind # "pcall",
         control' # "yielded" => UNCHANGED status,
         control' = "yielded" =>
           \E t \in {"yield", "break"} :
             /\ status' = [status EXCEPT ![L] = t]
             /\ ci[L][Len(ci[L])].kind = "c" => t = "yield"
             /\ lua_isyieldable(L)
  PROVE  IInv'
<1>1. control \notin Errors \cup {"returned", "continue", "yielded"}
  BY DEF Errors, Outcomes
<1>2. TypeOK /\ status[L] = "ok" /\ Len(ci[L]) \in Nat /\ control # "cstack"
  BY <1>1, RunningStatus, Stacks DEF IInv, Errors
<1>3. Last(native).at \in Nat /\ Last(native).at < Len(ci[L])
  BY <1>1, <1>2, RunningActs, Fields DEF IInv
<1>4. /\ status' \in [Threads -> Statuses]
      /\ \A T \in Threads \ {L} : status'[T] = status[T]
      /\ control' # "yielded" => status'[L] = "ok"
      /\ control' = "yielded" =>
           /\ status'[L] \in {"yield", "break"}
           /\ ci[L][Len(ci[L])].kind = "c" => status'[L] = "yield"
           /\ lua_isyieldable(L)
  <2>1. CASE control' # "yielded"
    BY <1>2, <2>1 DEF TypeOK
  <2>2. CASE control' = "yielded"
    <3>1. PICK t \in {"yield", "break"} :
             /\ status' = [status EXCEPT ![L] = t]
             /\ ci[L][Len(ci[L])].kind = "c" => t = "yield"
             /\ lua_isyieldable(L)
      BY <2>2
    <3>2. t \in Statuses
      BY DEF Statuses
    <3> QED BY <1>2, <2>2, <3>1, <3>2, StatusSet
  <2> QED BY <2>1, <2>2
<1>5. /\ ci' \in [Threads -> Seq(Frames)] /\ control' \in Controls
  BY <1>2 DEF TypeOK, Controls
<1>6. TopMoves(Len(ci[L]))
  BY <1>2 DEF TopMoves, Kept
<1>7. control' = "yielded" => \A i \in Acts : native[i].L = L => native[i].y
  BY <1>2, <1>4, YieldFacts
<1>8. control' # "returned" /\ control' # "continue"
  BY DEF Errors, Outcomes
<1>9. TopGoesOn(Len(ci[L]))
  BY <1>1, <1>2, <1>3, <1>4, <1>7, <1>8 DEF TopGoesOn
<1> QED BY <1>2, <1>4, <1>5, <1>6, <1>9, TopKeeps

LEMMA LOP_CALL_Keeps ==
  ASSUME IInv, NEW f \in Callees, LOP_CALL(f)
  PROVE  IInv'
<1> SUFFICES ASSUME NEW L \in Threads, L = Running PROVE IInv'
  BY Fields DEF IInv
<1> DEFINE n == Len(ci[L])
<1>1. /\ control = "frame" /\ native # <<>> /\ status[L] = "ok" /\ n \in Nat \ {0} /\ n \in 1..n
      /\ ci[L][n].kind = "lua" /\ Last(native).at \in Nat /\ Last(native).at < n /\ TypeOK
  BY FrameFacts DEF LOP_CALL, IInv
<1>2. f \in Frames /\ Called(f)
  BY CalleeFacts
<1>3. status' = status /\ status' \in [Threads -> Statuses] /\ UNCHANGED <<ccalls, body, native>>
  BY <1>1 DEF LOP_CALL, TypeOK
<1>4. CASE ci' = [ci EXCEPT ![L] = Append(ci[L], f)] /\ control' = "frame"
  <2>1. /\ ci' \in [Threads -> Seq(Frames)] /\ Len(ci'[L]) = n + 1
        /\ ci'[L][n + 1] = f
        /\ \A k \in 1..n : ci'[L][k] = ci[L][k]
        /\ \A T \in Threads \ {L} : ci'[T] = ci[T]
    BY <1>1, <1>2, <1>4, CiPush
  <2> HIDE DEF n
  <2>2. \A k \in 1..n + 1 : (k \in 1..n /\ k <= n) \/ k = n + 1
    BY <1>1
  <2>3. TopMoves(n + 1)
    BY <1>1, <1>2, <1>4, <2>1, <2>2 DEF TopMoves, Kept, n
  <2>4. TopGoesOn(n + 1)
    BY <1>1, <1>3, <1>4 DEF TopGoesOn
  <2> QED BY <1>1, <1>3, <1>4, <2>1, <2>3, <2>4, TopKeeps DEF Controls
<1>5. CASE ci' = [ci EXCEPT ![L] = ci[L]] /\ control' = "error"
  <2>1. ci' = ci
    BY <1>1, <1>5 DEF TypeOK
  <2> QED BY <1>1, <1>3, <1>5, <2>1, StillKeeps DEF Errors
<1> QED BY <1>4, <1>5 DEF LOP_CALL, Incr_ci

LEMMA LOP_RETURN_Keeps ==
  ASSUME IInv, LOP_RETURN
  PROVE  IInv'
<1> SUFFICES ASSUME NEW L \in Threads, L = Running PROVE IInv'
  BY Fields DEF IInv
<1> DEFINE n == Len(ci[L])
           B == Last(native)
<1>1. /\ control = "frame" /\ native # <<>> /\ status[L] = "ok" /\ n \in Nat \ {0} /\ n \in 1..n
      /\ ci[L][n].kind = "lua" /\ B.at \in Nat /\ B.at < n /\ TypeOK
      /\ ci[L] # <<>> /\ Last(ci[L]) = ci[L][n]
      /\ B = native[Len(native)] /\ Len(native) \in Acts
  BY FrameFacts DEF LOP_RETURN, IInv
<1>2. status' = status /\ status' \in [Threads -> Statuses] /\ UNCHANGED <<ccalls, body, native>>
  BY <1>1 DEF LOP_RETURN, TypeOK
<1>3. /\ ci' \in [Threads -> Seq(Frames)] /\ Len(ci'[L]) = n - 1
      /\ \A k \in 1..n - 1 : ci'[L][k] = ci[L][k]
      /\ \A T \in Threads \ {L} : ci'[T] = ci[T]
  BY <1>1, CiPop DEF LOP_RETURN
<1>4. /\ ci[L][n].ret /\ Resumes(B) => control' = "continue"
      /\ ci[L][n].ret /\ ~Resumes(B) => control' = "returned"
      /\ ~ci[L][n].ret => control' = "frame"
  BY <1>1 DEF LOP_RETURN, ReturnTo, Resumes
<1>5. ASSUME ci[L][n].ret, ~Resumes(B) PROVE B.at = n - 1
  <2>1. B.L = L
    BY <1>1, Fields DEF IInv
  <2>2. \/ \E j \in Acts : native[j].L = L /\ native[j].at = n - 1
        \/ After(L, n - 1)
    BY <1>1, <1>5 DEF IInv, LuaInv, ThreadOK, ReturnsOK
  <2>3. CASE After(L, n - 1)
    <3>1. B.at > n - 1
      BY <1>1, <1>5, <2>1, <2>3 DEF After
    <3> QED BY <1>1, <3>1
  <2>4. CASE \E j \in Acts : native[j].L = L /\ native[j].at = n - 1
    <3>1. n - 1 <= B.at
      BY <1>1, <2>4, RunningActs DEF IInv
    <3> QED BY <1>1, <3>1
  <2> QED BY <2>2, <2>3, <2>4
<1>6. ASSUME ~ci[L][n].ret PROVE B.at < n - 1
  <2>1. B.L = L /\ ActOK(Len(native))
    BY <1>1, Fields DEF IInv, LuaInv
  <2>2. B.at + 1 # n
    BY <1>1, <1>6, <2>1 DEF ActOK
  <2> QED BY <1>1, <2>2
<1> HIDE DEF n, B
<1>7. n - 1 \in Nat /\ ~(n - 1 >= n) /\ B.at <= n - 1 /\ \A k \in 1..n - 1 : k <= n
  BY <1>1
<1>8. TopMoves(n - 1)
  BY <1>1, <1>3, <1>7 DEF TopMoves, Kept, n
<1>9. control' \in {"frame", "continue", "returned"} /\ control' \in Controls
  BY <1>4 DEF Controls
<1>10. TopGoesOn(n - 1)
  BY <1>1, <1>2, <1>4, <1>5, <1>6, <1>7, <1>9 DEF TopGoesOn, B
<1> QED BY <1>1, <1>2, <1>3, <1>7, <1>8, <1>9, <1>10, TopKeeps

LEMMA CReturn_Keeps ==
  ASSUME IInv, CReturn
  PROVE  IInv'
<1> SUFFICES ASSUME NEW L \in Threads, L = Running PROVE IInv'
  BY Fields DEF IInv
<1> DEFINE n == Len(ci[L])
           B == Last(native)
<1>1. /\ control = "frame" /\ native # <<>> /\ status[L] = "ok" /\ n \in Nat \ {0}
      /\ B.at \in Nat /\ B.at < n /\ TypeOK /\ ci[L] # <<>>
  <2>1. \E k : InFrame(k)
    BY DEF CReturn
  <2> QED BY <2>1, FrameFacts DEF IInv
<1>2. status' = status /\ status' \in [Threads -> Statuses] /\ UNCHANGED <<ccalls, body, native>>
  BY <1>1 DEF CReturn, TypeOK
<1>3. /\ ci' \in [Threads -> Seq(Frames)] /\ Len(ci'[L]) = n - 1
      /\ \A k \in 1..n - 1 : ci'[L][k] = ci[L][k]
      /\ \A T \in Threads \ {L} : ci'[T] = ci[T]
  BY <1>1, CiPop DEF CReturn
<1>4. /\ B.at = n - 1 /\ Resumes(B) => control' = "continue"
      /\ B.at = n - 1 /\ ~Resumes(B) => control' = "returned"
      /\ B.at # n - 1 => control' = "frame"
  BY DEF CReturn, ReturnTo, Resumes
<1> HIDE DEF n, B
<1>5. n - 1 \in Nat /\ ~(n - 1 >= n) /\ B.at <= n - 1 /\ (\A k \in 1..n - 1 : k <= n)
      /\ (B.at # n - 1 => B.at < n - 1)
  BY <1>1
<1>6. TopMoves(n - 1)
  BY <1>1, <1>3, <1>5 DEF TopMoves, Kept, n
<1>7. control' \in {"frame", "continue", "returned"} /\ control' \in Controls
  BY <1>4 DEF Controls
<1>8. TopGoesOn(n - 1)
  BY <1>1, <1>2, <1>4, <1>5, <1>7 DEF TopGoesOn, B
<1> QED BY <1>1, <1>2, <1>3, <1>5, <1>6, <1>7, <1>8, TopKeeps

LEMMA lua_yield_Keeps ==
  ASSUME IInv, lua_yield
  PROVE  IInv'
<1> SUFFICES ASSUME NEW L \in Threads, L = Running PROVE IInv'
  BY Fields DEF IInv
<1>1. control = "frame" /\ native # <<>> /\ ci[L][Len(ci[L])].kind = "c"
  BY FrameFacts DEF lua_yield
<1>2. /\ UNCHANGED <<ci, ccalls, body, native>>
      /\ \/ lua_isyieldable(L) /\ status' = [status EXCEPT ![L] = "yield"] /\ control' = "yielded"
         \/ control' = "noyield" /\ UNCHANGED status
  BY DEF lua_yield, Suspend
<1> QED BY <1>1, <1>2, StillKeeps DEF Errors

LEMMA Interrupt_Keeps ==
  ASSUME IInv, Interrupt
  PROVE  IInv'
<1> SUFFICES ASSUME NEW L \in Threads, L = Running PROVE IInv'
  BY Fields DEF IInv
<1>1. control = "frame" /\ native # <<>> /\ ci[L][Len(ci[L])].kind = "lua"
  BY FrameFacts DEF Interrupt
<1>2. /\ UNCHANGED <<ci, ccalls, body, native>>
      /\ lua_isyieldable(L) /\ status' = [status EXCEPT ![L] = "break"] /\ control' = "yielded"
  BY DEF Interrupt
<1> QED BY <1>1, <1>2, StillKeeps DEF Errors

LEMMA Throw_Keeps ==
  ASSUME IInv, Throw
  PROVE  IInv'
<1> SUFFICES ASSUME NEW L \in Threads, L = Running PROVE IInv'
  BY Fields DEF IInv
<1>1. control = "frame" /\ native # <<>> /\ ci[L][Len(ci[L])].kind # "pcall"
  BY FrameFacts DEF Throw
<1>2. /\ UNCHANGED <<status, ci, ccalls, body, native>> /\ control' = "error"
  BY DEF Throw
<1> QED BY <1>1, <1>2, StillKeeps DEF Errors

LEMMA Resumed_Keeps ==
  ASSUME IInv, Resumed
  PROVE  IInv'
<1> SUFFICES ASSUME NEW L \in Threads, L = Running PROVE IInv'
  BY Fields DEF IInv
<1> DEFINE n == Len(ci[L])
           f == Last(ci[L])
<1>1. control \in Outcomes /\ UNCHANGED <<ccalls, body, native>> /\ TypeOK /\ control # "frame"
      /\ control # "cstack" /\ control \notin Errors \cup {"returned", "continue", "yielded"}
  BY DEF Resumed, IInv, Outcomes, Errors
<1>2. CASE native = <<>>
  <2>1. control' = "frame" /\ UNCHANGED <<status, ci>>
    BY <1>2 DEF Resumed
  <2>2. TypeOK'
    BY <1>1, <2>1 DEF TypeOK, ccalls
  <2>3. StackInv'
    BY <1>1, StackKept DEF IInv
  <2>4. ASSUME NEW T \in Threads PROVE ThreadOK(T)'
    <3>1. Untouched(T)
      BY <1>1, <2>1 DEF Untouched, Acts
    <3> QED BY <1>1, <3>1, ThreadKept DEF IInv, LuaInv
  <2>5. ControlOK' /\ Acts' = {}
    BY <1>1, <1>2, <2>1 DEF ControlOK, IInv, LuaInv, Errors, Acts
  <2> QED BY <2>2, <2>3, <2>4, <2>5 DEF IInv, LuaInv
<1>3. CASE native # <<>>
  <2>1. /\ Last(native).at \in Nat /\ Last(native).at < n /\ n \in Nat \ {0} /\ n \in 1..n
        /\ ci[L] # <<>> /\ f = ci[L][n] /\ f \in Frames /\ status[L] = "ok"
    <3>1. Last(native) = native[Len(native)] /\ Last(native).at \in Nat
      BY <1>1, <1>3, Fields
    <3>2. native[Len(native)].at < n
      BY <1>1, <1>3, RunningActs DEF IInv
    <3>3. n \in Nat
      BY <1>1, Stacks
    <3>4. n # 0
      BY <3>1, <3>2, <3>3
    <3>5. ci[L] # <<>> /\ f = ci[L][n] /\ n \in 1..n
      BY <1>1, <3>4, Stacks
    <3>6. f \in Frames
      BY <1>1, <3>5, Stacks
    <3> QED BY <1>1, <1>3, <3>1, <3>2, <3>3, <3>4, <3>5, <3>6, RunningStatus DEF IInv
  <2>2. CASE control' = "frame" /\ UNCHANGED <<status, ci>>
    BY <1>1, <1>3, <2>2, StillKeeps
  <2>3. CASE f.kind \in {"resume", "wrap"} /\ Suspend(L, "break", "nobreak") /\ UNCHANGED ci
    <3>1. \/ lua_isyieldable(L) /\ status' = [status EXCEPT ![L] = "break"] /\ control' = "yielded"
          \/ control' = "nobreak" /\ UNCHANGED status
      BY <2>3 DEF Suspend
    <3> QED BY <1>1, <1>3, <2>1, <2>3, <3>1, StillKeeps DEF Errors
  <2>4. CASE control' = "error" /\ UNCHANGED <<status, ci>>
    BY <1>1, <1>3, <2>4, StillKeeps DEF Errors
  <2>5. CASE /\ f.kind \in {"resume", "wrap"} /\ control' = "frame" /\ UNCHANGED status
             /\ EditFrame(L, [f EXCEPT !.done = TRUE])
    <3> DEFINE g == [f EXCEPT !.done = TRUE]
    <3>1. /\ g \in Frames /\ g.kind = f.kind /\ g.ret = f.ret /\ g.co = f.co /\ g.handle = f.handle
      BY <2>1 DEF Frames
    <3> HIDE DEF g
    <3>2. /\ ci' \in [Threads -> Seq(Frames)] /\ Len(ci'[L]) = n
          /\ ci'[L][n] = g
          /\ \A k \in 1..n - 1 : ci'[L][k] = ci[L][k]
          /\ \A T \in Threads \ {L} : ci'[T] = ci[T]
      BY <1>1, <2>1, <2>5, <3>1, CiEdit DEF g
    <3> HIDE DEF n
    <3>3. \A k \in 1..n : k <= n /\ (k \in 1..n - 1 \/ k = n)
      BY <2>1
    <3>4. \A k \in 1..n : Kept(k)
      BY <2>1, <2>5, <3>1, <3>2, <3>3 DEF Kept
    <3>5. TopMoves(n)
      BY <1>1, <3>2, <3>3, <3>4 DEF TopMoves, n
    <3>6. TopGoesOn(n)
      BY <1>1, <2>1, <2>5 DEF TopGoesOn
    <3>7. status' \in [Threads -> Statuses] /\ status' = status
      BY <1>1, <2>5 DEF TypeOK
    <3> QED BY <1>1, <1>3, <2>1, <2>5, <3>2, <3>5, <3>6, <3>7, TopKeeps DEF Controls
  <2> QED BY <1>3, <2>2, <2>3, <2>4, <2>5 DEF Resumed
<1> QED BY <1>2, <1>3

LEMMA resume_continue_Keeps ==
  ASSUME IInv, resume_continue
  PROVE  IInv'
<1> SUFFICES ASSUME NEW L \in Threads, L = Running PROVE IInv'
  BY Fields DEF IInv
<1> DEFINE n == Len(ci[L])
           f == Last(ci[L])
<1>1. /\ control = "continue" /\ ci[L] # <<>> /\ UNCHANGED <<ccalls, body, native>> /\ TypeOK
      /\ native # <<>> /\ Resumes(Last(native)) /\ control # "cstack" /\ control # "frame"
  BY DEF resume_continue, IInv, LuaInv, ControlOK
<1>2. Last(native).at = 0
  BY <1>1, Fields DEF IInv, StackInv, Segments
<1>3. /\ n \in Nat \ {0} /\ n \in 1..n /\ f = ci[L][n] /\ f \in Frames /\ f.handle \in BOOLEAN
  <2>1. n \in Nat /\ n \in 1..n /\ f = ci[L][n]
    BY <1>1, Stacks
  <2> QED BY <1>1, <2>1, Stacks
<1>4. lua_isyieldable(L) => \A i \in Acts : native[i].L = L => native[i].y
  BY <1>1, YieldFacts
<1>5. ASSUME PopFrame(L), control' = "continue", status' = [status EXCEPT ![L] = "ok"]
      PROVE  IInv'
  <2>1. /\ ci' \in [Threads -> Seq(Frames)] /\ Len(ci'[L]) = n - 1
        /\ \A k \in 1..n - 1 : ci'[L][k] = ci[L][k]
        /\ \A T \in Threads \ {L} : ci'[T] = ci[T]
    BY <1>1, <1>5, CiPop
  <2>2. /\ status' \in [Threads -> Statuses] /\ status'[L] = "ok"
        /\ \A T \in Threads \ {L} : status'[T] = status[T]
    BY <1>1, <1>5, StatusSet DEF Statuses
  <2> HIDE DEF n, f
  <2>3. n - 1 \in Nat /\ 0 <= n - 1 /\ \A k \in 1..n - 1 : k <= n
    BY <1>3
  <2>4. TopMoves(n - 1)
    BY <1>1, <2>1, <2>3 DEF TopMoves, Kept, n
  <2>5. TopGoesOn(n - 1)
    BY <1>1, <1>2, <1>5, <2>2, <2>3 DEF TopGoesOn
  <2> QED BY <1>1, <1>5, <2>1, <2>2, <2>3, <2>4, <2>5, TopKeeps DEF Controls
<1>6. CASE f.kind = "lua" /\ EditFrame(L, [f EXCEPT !.opyield = FALSE])
           /\ control' = "frame" /\ status' = [status EXCEPT ![L] = "ok"]
  <2> DEFINE g == [f EXCEPT !.opyield = FALSE]
  <2>1. /\ g \in Frames /\ g.kind = f.kind /\ g.ret = f.ret /\ g.co = f.co /\ g.handle = f.handle
    BY <1>3 DEF Frames
  <2> HIDE DEF g
  <2>2. /\ ci' \in [Threads -> Seq(Frames)] /\ Len(ci'[L]) = n
        /\ ci'[L][n] = g
        /\ \A k \in 1..n - 1 : ci'[L][k] = ci[L][k]
        /\ \A T \in Threads \ {L} : ci'[T] = ci[T]
    BY <1>1, <1>6, <2>1, CiEdit DEF g
  <2>3. /\ status' \in [Threads -> Statuses] /\ status'[L] = "ok"
        /\ \A T \in Threads \ {L} : status'[T] = status[T]
    BY <1>1, <1>6, StatusSet DEF Statuses
  <2> HIDE DEF n, f
  <2>4. \A k \in 1..n : k <= n /\ (k \in 1..n - 1 \/ k = n)
    BY <1>3
  <2>5. \A k \in 1..n : Kept(k)
    BY <1>3, <1>6, <2>1, <2>2, <2>4 DEF Kept
  <2>6. TopMoves(n)
    BY <1>1, <2>2, <2>4, <2>5 DEF TopMoves, n
  <2>7. 0 < n /\ 0 <= n
    BY <1>3
  <2>8. TopGoesOn(n)
    BY <1>1, <1>2, <1>6, <2>3, <2>7 DEF TopGoesOn
  <2> QED BY <1>1, <1>3, <1>6, <2>2, <2>3, <2>6, <2>8, TopKeeps DEF Controls
<1>7. CASE f.kind = "pcall" /\ PopFrame(L) /\ status' = [status EXCEPT ![L] = "ok"]
           /\ UNCHANGED control
  BY <1>1, <1>5, <1>7
<1>8. ASSUME UNCHANGED ci, f.kind \in {"resume", "wrap"}, NEW t \in {"ok", "break"},
             status' = [status EXCEPT ![L] = t],
             control' = IF t = "ok" THEN "error" ELSE "yielded",
             t = "break" => lua_isyieldable(L)
      PROVE  IInv'
  <2>1. t \in Statuses
    BY DEF Statuses
  <2>2. /\ status' \in [Threads -> Statuses] /\ status'[L] = t
        /\ \A T \in Threads \ {L} : status'[T] = status[T]
    BY <1>1, <1>8, <2>1, StatusSet
  <2>3. ci' \in [Threads -> Seq(Frames)] /\ control' \in Controls /\ ci' = ci
    BY <1>1, <1>8 DEF TypeOK, Controls, Errors
  <2> HIDE DEF n, f
  <2>4. TopMoves(n)
    BY <1>1, <1>3, <2>3 DEF TopMoves, Kept, n
  <2>5. 0 < n /\ 0 <= n
    BY <1>3
  <2>6. TopGoesOn(n)
    <3>1. CASE t = "ok"
      BY <1>1, <1>2, <1>8, <2>2, <2>5, <3>1 DEF TopGoesOn, Errors
    <3>2. CASE t = "break"
      BY <1>1, <1>2, <1>3, <1>4, <1>8, <2>2, <2>3, <2>5, <3>2 DEF TopGoesOn
    <3> QED BY <3>1, <3>2
  <2> QED BY <1>1, <1>3, <2>2, <2>3, <2>4, <2>6, TopKeeps
<1>9. CASE /\ f.kind \in {"resume", "wrap"} /\ lua_isyieldable(L)
           /\ status' = [status EXCEPT ![L] = "break"]
           /\ control' = "yielded" /\ UNCHANGED ci
  BY <1>8, <1>9
<1>10. CASE /\ f.kind \in {"resume", "wrap"}
            /\ status' = [status EXCEPT ![L] = "ok"]
            /\ \/ control' = "error" /\ UNCHANGED ci
               \/ PopFrame(L) /\ UNCHANGED control
  BY <1>1, <1>5, <1>8, <1>10
<1> QED BY <1>6, <1>7, <1>9, <1>10 DEF resume_continue

LEMMA RunningIsCoroutine ==
  ASSUME IInv, NEW c \in Acts, Resumes(native[c]), native[c].L = Running
  PROVE  Running \in Coroutines /\ Running # Main
BY CoroutineAssumption DEF IInv, StackInv, Segments

\* Finish, for the stack and the counters
LEMMA FinishKeeps ==
  ASSUME IInv, NEW c \in Acts, Ends(c), NEW r, Finish(c, r), UNCHANGED body,
         status' \in [Threads -> Statuses]
  PROVE  IInv'
<1> SUFFICES ASSUME NEW L \in Threads, L = Running PROVE IInv'
  BY Fields DEF IInv
<1> DEFINE l == Len(native)
           x == native[c].n - 1
<1>1. /\ TypeOK /\ StackInv /\ LuaInv /\ l \in Nat /\ c \in 1..l /\ Acts = 1..l /\ native # <<>>
      /\ native[c].n \in Nat /\ native \in Seq(Activations)
  BY Fields DEF IInv, Acts
<1>2. /\ Resumes(native[c]) /\ native[c].L = L /\ \A j \in c..l : native[j].L = L
  BY <1>1 DEF Ends
<1>3. native[c].n >= 1 /\ native[c].n < MAXCCALLS + Reserve
  <2>1. c <= Level(native[c]) /\ native[c].n < MAXCCALLS + Reserve
    BY <1>1 DEF StackInv, Saved
  <2>2. Level(native[c]) = native[c].n
    BY <1>1, <1>2 DEF Level
  <2> QED BY <1>1, <2>1, <2>2
<1>4. x \in Nat /\ x < MAXCCALLS + Reserve /\ c - 1 \in 0..l
  BY <1>1, <1>3, CoroutineAssumption
<1>5. /\ nCcalls' = [nCcalls EXCEPT ![L] = x] /\ baseCcalls' = [baseCcalls EXCEPT ![L] = x]
      /\ native' = SubSeq(native, 1, c - 1) /\ control' \in Outcomes /\ ci' = ci
  BY <1>2 DEF Finish, Ends
<1>6. TypeOK'
  <2>1. native' \in Seq(Activations)
    BY <1>1, <1>4, <1>5, PrefixFacts
  <2>2. nCcalls' \in [Threads -> Nat] /\ baseCcalls' \in [Threads -> Nat]
    BY <1>1, <1>4, <1>5, ExceptFacts DEF TypeOK
  <2> QED BY <1>1, <1>5, <2>1, <2>2 DEF TypeOK
<1>7. LuaInv'
  BY <1>1, FinishStep
<1>8. \A j \in 1..c - 1 : native[j].L # L
  BY <1>1, <1>2 DEF StackInv, Segments
<1>9. L # Main /\ control' # "cstack"
  BY <1>2, <1>5, RunningIsCoroutine DEF Outcomes
<1> DEFINE m == c - 1
<1> HIDE DEF x, l, m
<1>10. /\ m \in 0..Len(native) /\ native' = SubSeq(native, 1, m)
       /\ \A j \in m + 1..Len(native) : native[j].L = Running
       /\ m < Len(native) /\ Resumes(native[m + 1])
       /\ ~(m > 0 /\ native[m].L = Running)
       /\ ~(m = 0 /\ Running = Main)
  <2>1. m + 1 = c /\ m < l /\ m \in 0..l /\ (m > 0 => m \in 1..c - 1)
    BY <1>1 DEF m
  <2> QED BY <1>2, <1>5, <1>8, <1>9, <2>1 DEF l, m
<1>11. StackInv'
  BY <1>1, <1>4, <1>5, <1>9, <1>10, CutStack
<1> QED BY <1>6, <1>7, <1>11 DEF IInv

LEMMA ResumeYielded_Keeps ==
  ASSUME IInv, ResumeYielded
  PROVE  IInv'
<1> SUFFICES ASSUME NEW L \in Threads, L = Running PROVE IInv'
  BY Fields DEF IInv
<1> DEFINE l == Len(native)
           n == Len(ci[L])
<1>1. /\ control = "yielded" /\ native # <<>> /\ Resumes(Last(native)) /\ TypeOK
      /\ UNCHANGED <<status, ci, body>> /\ status[L] \in {"yield", "break", "reentry"}
  BY DEF ResumeYielded, IInv, LuaInv, ControlOK, Resumes
<1>2. /\ l \in Acts /\ Last(native) = native[l] /\ native[l].L = L /\ l \in Nat
      /\ native[l].at \in Nat /\ n \in Nat
  BY <1>1, Fields, Stacks
<1>3. native[l].at < n
  BY <1>1, RunningActs DEF IInv, Errors
<1>4. CASE status[L] = "reentry" /\ control' = "continue" /\ UNCHANGED <<ccalls, native>>
  <2> HIDE DEF n
  <2>1. TopMoves(n)
    BY <1>1, <1>2 DEF TopMoves, Kept, n
  <2>2. n > 0 /\ Last(native).at <= n
    BY <1>2, <1>3
  <2>3. TopGoesOn(n)
    BY <1>1, <1>4, <2>2 DEF TopGoesOn
  <2>4. /\ ci' \in [Threads -> Seq(Frames)] /\ status' \in [Threads -> Statuses]
        /\ control' \in Controls
    BY <1>1, <1>4 DEF TypeOK, Controls
  <2> QED BY <1>1, <1>2, <1>4, <2>1, <2>3, <2>4, TopKeeps
<1>5. CASE status[L] # "reentry" /\ Finish(l, status[L])
  <2>1. native' = SubSeq(native, 1, l - 1) /\ control' = status[L]
    BY <1>5 DEF Finish
  <2>2. l..l = {l}
    BY <1>2
  <2>3. Ends(l)
    BY <1>1, <1>2, <1>5, <2>1, <2>2 DEF Ends, Outcomes
  <2>4. status' \in [Threads -> Statuses]
    BY <1>1 DEF TypeOK
  <2> QED BY <1>1, <1>2, <1>5, <2>3, <2>4, FinishKeeps
<1>6. Last(native).L = L
  BY <1>2
<1> QED BY <1>4, <1>5, <1>6 DEF ResumeYielded

LEMMA ResumeDone_Keeps ==
  ASSUME IInv, ResumeDone
  PROVE  IInv'
<1> SUFFICES ASSUME NEW L \in Threads, L = Running PROVE IInv'
  BY Fields DEF IInv
<1> DEFINE l == Len(native)
<1>1. /\ control = "continue" /\ native # <<>> /\ Resumes(Last(native)) /\ TypeOK
      /\ ci[L] = <<>> /\ status[L] = "ok" /\ UNCHANGED <<status, ci, body>>
  BY DEF ResumeDone, IInv, LuaInv, ControlOK, Resumes
<1>2. /\ l \in Acts /\ Last(native) = native[l] /\ native[l].L = L /\ l \in Nat
  BY <1>1, Fields
<1>3. Finish(l, "ok") /\ native' = SubSeq(native, 1, l - 1) /\ control' = "ok"
  BY DEF ResumeDone, Finish
<1>4. l..l = {l}
  BY <1>2
<1>5. Ends(l)
  BY <1>1, <1>2, <1>3, <1>4 DEF Ends, Outcomes
<1>6. status' \in [Threads -> Statuses]
  BY <1>1 DEF TypeOK
<1> QED BY <1>1, <1>2, <1>3, <1>5, <1>6, FinishKeeps

LEMMA ResumeCatch_Keeps ==
  ASSUME IInv, ResumeCatch
  PROVE  IInv'
<1> SUFFICES ASSUME NEW L \in Threads, L = Running, NEW c, c = Catcher PROVE IInv'
  BY Fields DEF IInv
<1> DEFINE l == Len(native)
           x == native[c].n
<1>1. /\ TypeOK /\ StackInv /\ LuaInv /\ control \in Errors /\ native # <<>> /\ UNCHANGED body
  BY DEF ResumeCatch, IInv, LuaInv, ControlOK
<1>2. /\ l \in Nat \ {0} /\ Acts = 1..l /\ native \in Seq(Activations)
      /\ c \in Acts /\ native[c].L = L
      /\ \A j \in c + 1..l : native[j].L = L
      /\ x \in Nat /\ native[c].b \in Nat
  BY <1>1, CatcherFacts, Fields DEF StackInv, Acts
<1>3. Resumes(native[c])
  BY DEF ResumeCatch, Resumes
<1>4. \A j \in c..l : native[j].L = L
  <2>1. \A j \in c..l : j = c \/ j \in c + 1..l
    BY <1>2
  <2> QED BY <1>2, <2>1
<1>5. CASE Handlers(L) = {}
  <2>1. Finish(c, "failed") /\ status' = [status EXCEPT ![L] = "error"] /\ ci' = ci
    BY <1>2, <1>5 DEF ResumeCatch
  <2>2. /\ status' \in [Threads -> Statuses] /\ status'[L] = "error"
        /\ \A T \in Threads \ {L} : status'[T] = status[T]
    BY <1>1, <2>1, StatusSet DEF Statuses
  <2>3. Ends(c)
    BY <1>3, <1>4, <2>1, <2>2 DEF Ends, Outcomes, Finish
  <2> QED BY <1>1, <1>2, <2>1, <2>2, <2>3, FinishKeeps
<1>6. CASE Handlers(L) # {}
  <2>1. /\ ci' = [ci EXCEPT ![L] = SubSeq(ci[L], 1, Handler(L) - 1)]
        /\ nCcalls' = [nCcalls EXCEPT ![L] = x]
        /\ baseCcalls' = [baseCcalls EXCEPT ![L] = x]
        /\ status' = [status EXCEPT ![L] = "ok"]
        /\ control' = "continue"
        /\ native' = SubSeq(native, 1, c)
    BY <1>2, <1>6 DEF ResumeCatch, resume_handle
  <2>2. /\ status' \in [Threads -> Statuses] /\ status'[L] = "ok"
        /\ \A T \in Threads \ {L} : status'[T] = status[T]
    BY <1>1, <2>1, StatusSet DEF Statuses
  <2>3. SubSeq(ci[L], 1, Handler(L) - 1) \in Seq(Frames)
    <3>1. Handler(L) \in 1..Len(ci[L]) /\ Len(ci[L]) \in Nat /\ ci[L] \in Seq(Frames)
      BY <1>1, <1>6, HandlerFacts, Stacks
    <3>2. Handler(L) - 1 \in 0..Len(ci[L])
      BY <3>1
    <3> QED BY <3>1, <3>2, PrefixFacts
  <2>4. /\ ci' \in [Threads -> Seq(Frames)] /\ ci'[L] = SubSeq(ci[L], 1, Handler(L) - 1)
        /\ \A T \in Threads \ {L} : ci'[T] = ci[T]
    BY <1>1, <2>1, <2>3, CiSet
  <2>5. Handles(c)
    BY <1>1, <1>3, <1>6, <2>1, <2>2, <2>4 DEF Handles
  <2>6. LuaInv'
    BY <1>1, <2>5, HandleStep
  <2>7. TypeOK'
    <3>1. native' \in Seq(Activations)
      <4>1. c \in 0..l
        BY <1>2
      <4> QED BY <1>2, <2>1, <4>1, PrefixFacts
    <3>2. nCcalls' \in [Threads -> Nat] /\ baseCcalls' \in [Threads -> Nat]
      BY <1>1, <1>2, <2>1, ExceptFacts DEF TypeOK
    <3> QED BY <1>1, <2>1, <2>2, <2>4, <3>1, <3>2 DEF TypeOK
  <2>8. /\ x < MAXCCALLS + Reserve /\ x = native[c].b /\ Level(native[c]) = x /\ Blocks(native[c]) = 0
        /\ L # Main
    <3>1. x < MAXCCALLS + Reserve /\ x = native[c].b
      BY <1>1, <1>2, <1>3 DEF StackInv, Saved
    <3>2. native[c].y
      BY <1>1, <1>2, <1>3 DEF StackInv, Segments
    <3>3. L # Main
      BY <1>2, <1>3, RunningIsCoroutine
    <3> QED BY <1>2, <1>3, <3>1, <3>2, <3>3 DEF Level, Blocks
  <2> HIDE DEF x
  <2>9. /\ c \in 0..Len(native) /\ c \in Nat /\ c > 0
        /\ \A j \in c + 1..Len(native) : native[j].L = Running
        /\ native[c].L = Running
        /\ x >= Level(native[c])
        /\ x + native[c].b = x + native[c].n + Blocks(native[c])
    BY <1>2, <2>8 DEF x
  <2>10. StackInv'
    BY <1>1, <1>2, <2>1, <2>8, <2>9, CutStack
  <2> QED BY <2>6, <2>7, <2>10 DEF IInv
<1> QED BY <1>5, <1>6

-----------------------------------------------------------------------------
\* A Rust frame is pushed.
LEMMA PushKeeps ==
  ASSUME IInv, control = "frame", NEW fn \in NativeFns, fn # "lua_resume", NEW y \in BOOLEAN,
         Pushes(fn, y), Sits(fn, y), NEW m \in Nat, Calls(fn, y, m), UNCHANGED body,
         ci' \in [Threads -> Seq(Frames)], status' \in [Threads -> Statuses], control' \in Controls
  PROVE  IInv'
<1>1. TypeOK /\ StackInv /\ LuaInv /\ control # "cstack"
  BY DEF IInv
<1>2. Running \in Threads /\ Len(ci[Running]) \in Nat
        /\ nCcalls[Running] \in Nat /\ baseCcalls[Running] \in Nat
  BY <1>1, Fields, Stacks
<1>3. native' \in Seq(Activations)
  BY <1>1, <1>2, PushFields
<1>4. nCcalls' \in [Threads -> Nat] /\ baseCcalls' \in [Threads -> Nat]
  <2>1. nCcalls \in [Threads -> Nat] /\ baseCcalls \in [Threads -> Nat]
    BY <1>1 DEF TypeOK
  <2>2. nCcalls' = [nCcalls EXCEPT ![Running] = nCcalls[Running] + 1]
        /\ (baseCcalls' = baseCcalls \/
            baseCcalls' = [baseCcalls EXCEPT ![Running] = baseCcalls[Running] + 1])
    BY <2>1 DEF Pushes
  <2>3. nCcalls[Running] + 1 \in Nat /\ baseCcalls[Running] + 1 \in Nat
    BY <1>2
  <2>4. /\ [nCcalls EXCEPT ![Running] = nCcalls[Running] + 1] \in [Threads -> Nat]
        /\ [baseCcalls EXCEPT ![Running] = baseCcalls[Running] + 1] \in [Threads -> Nat]
    BY ONLY <1>2, <2>1, <2>3, ExceptFacts
  <2> QED BY <2>1, <2>2, <2>4
<1>5. TypeOK'
  BY <1>1, <1>3, <1>4 DEF TypeOK, Controls
<1>6. StackInv'
  BY <1>1, <1>2, PushStack, CoroutineAssumption
<1>7. LuaInv'
  BY <1>1, PushStep
<1> QED BY <1>5, <1>6, <1>7 DEF IInv

LEMMA NativeCallKeeps ==
  ASSUME IInv, control = "frame", NEW f \in Callees, NEW L \in Threads, L = Running,
         NEW fn \in NativeFns, fn # "lua_resume", NEW y \in BOOLEAN, NativeCall(fn, L, f, y),
         y <=> fn = "luaD_performcally",
         native = <<>> => fn = "luaD_pcall",
         native # <<>> => /\ ci[L][Len(ci[L])].kind \in {"lua", "c"}
                          /\ ci[L][Len(ci[L])].kind = "c" => ~y
  PROVE  IInv'
<1> DEFINE n == Len(ci[L])
           g == Precalled(f)
<1>1. TypeOK /\ StackInv /\ LuaInv /\ n \in Nat /\ status[L] = "ok"
  <2>1. TypeOK /\ StackInv /\ LuaInv /\ n \in Nat
    BY Stacks DEF IInv
  <2>2. status[L] = "ok"
    BY <2>1, HostFacts, RunningStatus
  <2> QED BY <2>1, <2>2
<1>2. /\ g \in Frames /\ ~g.handle /\ (g.kind = "lua" => g.ret)
      /\ g.kind \in {"resume", "wrap"} => g.co \in Coroutines
  BY CalleeFacts
<1> HIDE DEF g
<1>3. /\ native' = Append(native, Activation(fn, L, y))
      /\ nCcalls' = [nCcalls EXCEPT ![L] = @ + 1]
      /\ UNCHANGED <<status, body>>
  BY DEF NativeCall
<1>4. Sits(fn, y)
  <2>1. CASE native = <<>>
    BY <2>1, HostFacts DEF Sits
  <2>2. CASE native # <<>>
    <3>1. Last(native).at < n
      BY <1>1, <2>2, RunningActs, Fields DEF Errors
    <3>2. Last(native).at \in Nat
      BY <1>1, <2>2, Fields
    <3> QED BY <1>1, <2>2, <3>1, <3>2 DEF Sits
  <2> QED BY <2>1, <2>2
<1>5. native = <<>> => n = 0
  BY <1>1, HostFacts
<1>6. /\ \A k \in 1..n : ci[L][k].handle => ci[L][k].kind = "pcall"
      /\ n > 0 => ci[L][n].kind # "pcall" /\ (ci[L][n].kind = "c" => ~y)
  BY <1>1, <1>5 DEF LuaInv, ThreadOK, FlagsOK
<1>7. ASSUME ci' = ci, control' \in Errors PROVE Calls(fn, y, n)
  <2> HIDE DEF n
  <2>1. control' # "yielded" /\ control' # "frame" /\ ~(n > n)
    BY <1>1, <1>7 DEF Errors
  <2>2. \A k \in 1..n : k = n => n > 0
    BY <1>1
  <2> QED BY <1>1, <1>3, <1>6, <1>7, <2>1, <2>2 DEF Calls, n
<1>8. CASE control' = "cstack" /\ UNCHANGED <<ci, baseCcalls>>
  <2>1. Pushes(fn, y)
    BY <1>3, <1>8 DEF Pushes
  <2>2. Calls(fn, y, n)
    BY <1>7, <1>8 DEF Errors
  <2> QED BY <1>1, <1>3, <1>4, <1>8, <2>1, <2>2, PushKeeps DEF TypeOK, Controls, Errors
<1>9. CASE /\ ~Overflow(nCcalls[L] + 1)
           /\ baseCcalls' = [baseCcalls EXCEPT ![L] = IF y THEN @ + 1 ELSE @]
           /\ Incr_ci(L, ci[L], g)
  <2>1. CASE ci' = [ci EXCEPT ![L] = ci[L]] /\ control' = "error"
    <3>1. ci' = ci
      BY <1>1, <2>1 DEF TypeOK
    <3>2. Pushes(fn, y)
      BY <1>3, <1>9, <2>1 DEF Pushes
    <3>3. Calls(fn, y, n)
      BY <1>7, <2>1, <3>1 DEF Errors
    <3> QED BY <1>1, <1>3, <1>4, <2>1, <3>1, <3>2, <3>3, PushKeeps DEF TypeOK, Controls, Errors
  <2>2. CASE ci' = [ci EXCEPT ![L] = Append(ci[L], g)] /\ control' = "frame"
    <3>1. /\ ci' \in [Threads -> Seq(Frames)] /\ Len(ci'[L]) = n + 1
          /\ ci'[L][n + 1] = g
          /\ \A k \in 1..n : ci'[L][k] = ci[L][k]
          /\ \A T \in Threads \ {L} : ci'[T] = ci[T]
      BY <1>1, <1>2, <2>2, CiPush
    <3>2. Pushes(fn, y)
      BY <1>3, <1>9, <2>2 DEF Pushes
    <3> HIDE DEF n
    <3>3. \A k \in 1..n : k = n => n > 0
      BY <1>1
    <3>4. Calls(fn, y, n + 1)
      BY <1>1, <1>2, <1>3, <1>6, <2>2, <3>1, <3>3 DEF Calls, n
    <3>5. n + 1 \in Nat
      BY <1>1
    <3> QED BY <1>1, <1>3, <1>4, <2>2, <3>1, <3>2, <3>4, <3>5, PushKeeps DEF TypeOK, Controls
  <2> QED BY <1>9, <2>1, <2>2 DEF Incr_ci
<1> QED BY <1>8, <1>9 DEF NativeCall, g

LEMMA luaD_callny_Keeps ==
  ASSUME IInv, NEW f \in Callees, luaD_callny(f)
  PROVE  IInv'
<1> SUFFICES ASSUME NEW L \in Threads, L = Running PROVE IInv'
  BY Fields DEF IInv
<1>1. control = "frame" /\ native # <<>> /\ ci[L][Len(ci[L])].kind = "lua"
  BY FrameFacts DEF luaD_callny
<1> QED BY <1>1, NativeCallKeeps DEF luaD_callny, NativeFns

LEMMA luaD_performcally_Keeps ==
  ASSUME IInv, NEW f \in Callees, luaD_performcally(f)
  PROVE  IInv'
<1> SUFFICES ASSUME NEW L \in Threads, L = Running PROVE IInv'
  BY Fields DEF IInv
<1>1. control = "frame" /\ native # <<>> /\ ci[L][Len(ci[L])].kind = "lua"
  BY FrameFacts DEF luaD_performcally
<1> QED BY <1>1, NativeCallKeeps DEF luaD_performcally, NativeFns

LEMMA luaD_call_Keeps ==
  ASSUME IInv, NEW f \in Callees, luaD_call(f)
  PROVE  IInv'
<1> SUFFICES ASSUME NEW L \in Threads, L = Running PROVE IInv'
  BY Fields DEF IInv
<1>1. control = "frame" /\ native # <<>> /\ ci[L][Len(ci[L])].kind = "c"
  BY FrameFacts DEF luaD_call
<1> QED BY <1>1, NativeCallKeeps DEF luaD_call, NativeFns

\* What the host sees
LEMMA InHostFacts ==
  ASSUME IInv, OwnHandles, InHost, NEW L \in Threads, L = Running
  PROVE  /\ control = "frame" /\ HandleStates = {L}
         /\ native # <<>> => ci[L] # <<>> /\ ci[L][Len(ci[L])].kind = "c"
         /\ native = <<>> => ci[L] = <<>>
         /\ TopSettled(L) /\ ~(ci[L] # <<>> /\ HasCont(Last(ci[L])))
<1>1. control = "frame" /\ HandleStates = {L}
  BY DEF InHost, OwnHandles, HandleStates
<1>2. CASE native = <<>>
  BY <1>1, <1>2, HostFacts
<1>3. CASE native # <<>>
  BY <1>1, <1>3, FrameFacts DEF InHost, TopSettled, HasCont
<1> QED BY <1>2, <1>3

LEMMA lua_pcall_Keeps ==
  ASSUME IInv, OwnHandles, NEW f \in Callees, NEW T \in Threads, lua_pcall(T, f)
  PROVE  IInv'
<1> SUFFICES ASSUME NEW L \in Threads, L = Running PROVE IInv'
  BY Fields DEF IInv
<1>1. /\ control = "frame" /\ HandleStates = {L}
      /\ native # <<>> => ci[L] # <<>> /\ ci[L][Len(ci[L])].kind = "c"
      /\ ~(ci[L] # <<>> /\ HasCont(Last(ci[L])))
  BY InHostFacts DEF lua_pcall
<1>2. NativeCall("luaD_pcall", L, f, FALSE)
  <2>1. T = L
    BY <1>1 DEF lua_pcall
  <2>2. (ci[L] # <<>> /\ HasCont(Last(ci[L]))) = FALSE
    BY <1>1
  <2> QED BY <2>1, <2>2 DEF lua_pcall
<1> QED BY <1>1, <1>2, NativeCallKeeps DEF NativeFns

LEMMA luaB_pcally_Keeps ==
  ASSUME IInv, NEW f \in Callees, luaB_pcally(f)
  PROVE  IInv'
<1> SUFFICES ASSUME NEW L \in Threads, L = Running PROVE IInv'
  BY Fields DEF IInv
<1> DEFINE n == Len(ci[L])
           p == [Last(ci[L]) EXCEPT !.handle = TRUE]
           cis == Append(Front(ci[L]), p)
           g == Precalled(f)
<1>1. /\ control = "frame" /\ native # <<>> /\ status[L] = "ok" /\ n \in Nat \ {0}
      /\ ci[L] # <<>> /\ Last(ci[L]) = ci[L][n] /\ ci[L][n] \in Frames /\ ci[L][n].kind = "pcall"
      /\ Last(native).at < n /\ TypeOK /\ StackInv /\ LuaInv /\ ~ci[L][n].done
  BY FrameFacts DEF luaB_pcally, IInv
<1>2. /\ p \in Frames /\ p.kind = "pcall" /\ p.handle /\ ~p.done
      /\ p.ret = ci[L][n].ret /\ p.co = ci[L][n].co
  BY <1>1 DEF Frames
<1> HIDE DEF p
<1>3. /\ cis \in Seq(Frames) /\ Len(cis) = n /\ cis[n] = p
      /\ \A k \in 1..n - 1 : cis[k] = ci[L][k]
  BY <1>1, <1>2, EditFacts, Stacks
<1> HIDE DEF cis
<1>4. /\ g \in Frames /\ ~g.handle /\ (g.kind = "lua" => g.ret) /\ g.kind = f.kind
      /\ g.kind \in {"resume", "wrap"} => g.co \in Coroutines
  BY CalleeFacts
<1> HIDE DEF g
<1>5. /\ Append(cis, g) \in Seq(Frames) /\ Len(Append(cis, g)) = n + 1
      /\ Append(cis, g)[n + 1] = g
      /\ \A k \in 1..n : Append(cis, g)[k] = cis[k]
  BY <1>3, <1>4, AppendFacts
<1>6. /\ nCcalls' = [nCcalls EXCEPT ![L] = @ + 1]
      /\ native' = Append(native, Activation("luaD_pcall", L, TRUE))
      /\ UNCHANGED body
  BY DEF luaB_pcally
<1>7. Sits("luaD_pcall", TRUE)
  BY <1>1, Fields DEF Sits
<1>8. "luaD_pcall" \in NativeFns /\ TRUE \in BOOLEAN
  BY DEF NativeFns
<1>9. ASSUME NEW m \in {n, n + 1}, NEW s \in Seq(Frames), ci' = [ci EXCEPT ![L] = s], Len(s) = m,
             \A k \in 1..n : s[k] = cis[k],
             \/ m = n /\ control' \in Errors
             \/ m = n + 1 /\ control' \in {"frame", "yielded"} /\ s[m] = g,
             \/ control' # "yielded" /\ UNCHANGED status
             \/ /\ control' = "yielded" /\ status' = [status EXCEPT ![L] = "reentry"]
                /\ f.kind = "lua" /\ lua_isyieldable(L),
             Pushes("luaD_pcall", TRUE)
      PROVE  IInv'
  <2>1. /\ ci' \in [Threads -> Seq(Frames)] /\ ci'[L] = s
        /\ \A T \in Threads \ {L} : ci'[T] = ci[T]
    BY <1>1, <1>9, CiSet
  <2>2. /\ status' \in [Threads -> Statuses]
        /\ \A T \in Threads \ {L} : status'[T] = status[T]
        /\ control' # "yielded" => status'[L] = "ok"
        /\ control' = "yielded" => status'[L] = "reentry" /\ f.kind = "lua" /\ lua_isyieldable(L)
    <3>1. CASE control' # "yielded"
      BY <1>1, <1>9, <3>1 DEF TypeOK
    <3>2. CASE control' = "yielded"
      <4>1. "reentry" \in Statuses /\ status' = [status EXCEPT ![L] = "reentry"]
        BY <1>9, <3>2 DEF Statuses
      <4> QED BY <1>1, <1>9, <3>2, <4>1, StatusSet
    <3> QED BY <3>1, <3>2
  <2>3. control' = "yielded" => \A i \in Acts : native[i].L = L => native[i].y
    BY <1>1, <2>2, YieldFacts
  <2>4. control' \in Controls /\ m \in Nat
    BY <1>1, <1>9 DEF Controls
  <2>5. FlagsOK(L)
    BY <1>1 DEF LuaInv, ThreadOK
  <2> HIDE DEF n
  <2>6. \A k \in 1..n : k \in 1..n - 1 \/ k = n
    BY <1>1
  <2>7. m > n => m = n + 1 /\ s[m] = g
    BY <1>1, <1>9
  <2>8. control' = "yielded" => m = n + 1 /\ s[m] = g
    BY <1>9 DEF Errors
  <2>9. (m = n /\ control' \in Errors) \/ (m = n + 1 /\ control' \in {"frame", "yielded"})
    BY <1>9
  <2>10. \A k \in 1..n :
           /\ s[k].kind = ci[L][k].kind /\ s[k].ret = ci[L][k].ret /\ s[k].co = ci[L][k].co
           /\ k < n => s[k].handle = ci[L][k].handle /\ s[k].done = ci[L][k].done
           /\ k = n => s[k] = p
    BY <1>1, <1>2, <1>3, <1>9, <2>6
  <2>11. Calls("luaD_pcall", TRUE, m)
    BY <1>1, <1>2, <1>4, <1>9, <2>1, <2>2, <2>3, <2>7, <2>8, <2>9, <2>10 DEF Calls, n
  <2> QED BY <1>1, <1>6, <1>7, <1>8, <1>9, <2>1, <2>2, <2>4, <2>11, PushKeeps
<1>10. CASE control' = "cstack" /\ ci' = [ci EXCEPT ![L] = cis] /\ UNCHANGED <<status, baseCcalls>>
  <2>1. Pushes("luaD_pcall", TRUE)
    BY <1>6, <1>10 DEF Pushes
  <2> QED BY <1>3, <1>9, <1>10, <2>1 DEF Errors
<1>11. CASE /\ ~Overflow(nCcalls[L] + 1) /\ control' \in {"frame", "yielded", "error"}
            /\ baseCcalls' = [baseCcalls EXCEPT ![L] = @ + 1]
  <2>1. Pushes("luaD_pcall", TRUE)
    BY <1>6, <1>11 DEF Pushes
  <2>2. CASE /\ lua_isyieldable(L) /\ f.kind = "lua" /\ ci' = [ci EXCEPT ![L] = Append(cis, g)]
             /\ status' = [status EXCEPT ![L] = "reentry"] /\ control' = "yielded"
    BY <1>5, <1>9, <2>1, <2>2
  <2>3. CASE ci' = [ci EXCEPT ![L] = Append(cis, g)] /\ control' = "frame" /\ UNCHANGED status
    BY <1>5, <1>9, <2>1, <2>3
  <2>4. CASE ci' = [ci EXCEPT ![L] = cis] /\ control' = "error" /\ UNCHANGED status
    BY <1>3, <1>9, <2>1, <2>4 DEF Errors
  <2> QED BY <1>11, <2>2, <2>3, <2>4 DEF luaB_pcally, Incr_ci, cis, p, g
<1> QED BY <1>10, <1>11 DEF luaB_pcally, Incr_ci, cis, p

\* The callee of the innermost Rust frame is gone.
LEMMA Returned_Keeps ==
  ASSUME IInv, Returned
  PROVE  IInv'
<1> SUFFICES ASSUME NEW L \in Threads, L = Running PROVE IInv'
  BY Fields DEF IInv
<1> DEFINE l == Len(native)
           A == native[l]
           n == Len(ci[L])
<1>1. /\ control = "returned" /\ native # <<>> /\ ~Resumes(Last(native))
      /\ TypeOK /\ StackInv /\ LuaInv /\ control' = "frame" /\ UNCHANGED <<status, body>>
  BY DEF Returned, IInv, LuaInv, ControlOK
<1>2. /\ l \in Acts /\ l \in Nat \ {0} /\ A = Last(native) /\ A.L = L /\ A.at \in Nat /\ n \in Nat
      /\ ci[L] \in Seq(Frames) /\ \A k \in 1..n : ci[L][k] \in Frames
  BY <1>1, Fields, Stacks DEF Acts
<1>3. A.at = n
  BY <1>1, RunningActs
<1>4. Leaves
  BY <1>1, <1>2 DEF Leaves, Returned
<1>5. StackInv'
  BY <1>1, <1>4, LeaveStack
<1>6. /\ native' = SubSeq(native, 1, l - 1) /\ native' \in Seq(Activations)
      /\ nCcalls[L] \in Nat \ {0} /\ baseCcalls[L] \in Nat
      /\ A.y => baseCcalls[L] > 0
  BY <1>1, <1>4, LeaveFields
<1>7. nCcalls' \in [Threads -> Nat] /\ baseCcalls' \in [Threads -> Nat]
  <2>1. nCcalls \in [Threads -> Nat] /\ baseCcalls \in [Threads -> Nat]
    BY <1>1 DEF TypeOK
  <2>2. nCcalls' = [nCcalls EXCEPT ![L] = nCcalls[L] - 1]
        /\ baseCcalls' = [baseCcalls EXCEPT ![L] = IF A.y THEN baseCcalls[L] - 1 ELSE baseCcalls[L]]
    BY <1>2, <2>1 DEF Returned
  <2>3. nCcalls[L] - 1 \in Nat /\ (IF A.y THEN baseCcalls[L] - 1 ELSE baseCcalls[L]) \in Nat
    BY <1>6
  <2> HIDE DEF A
  <2> QED BY <2>1, <2>2, <2>3, ExceptFacts
<1>8. /\ ci' \in [Threads -> Seq(Frames)] /\ Len(ci'[L]) = n
      /\ \A T \in Threads \ {L} : ci'[T] = ci[T]
      /\ \A k \in 1..n :
           /\ ci'[L][k].kind = ci[L][k].kind /\ ci'[L][k].ret = ci[L][k].ret
           /\ ci'[L][k].co = ci[L][k].co /\ ci'[L][k].handle = ci[L][k].handle
           /\ k < n => ci'[L][k].done = ci[L][k].done
  <2>1. CASE ci' = ci
    BY <1>1, <1>2, <2>1 DEF TypeOK
  <2>2. CASE n > 0 /\ ci' = [ci EXCEPT ![L] = [ci[L] EXCEPT ![n] = [ci[L][n] EXCEPT !.done = TRUE]]]
    <3> DEFINE g == [ci[L][n] EXCEPT !.done = TRUE]
               s == [ci[L] EXCEPT ![n] = g]
    <3>1. n \in 1..n /\ ci[L][n] \in Frames
      BY <1>2, <2>2
    <3>2. /\ g \in Frames /\ g.kind = ci[L][n].kind /\ g.ret = ci[L][n].ret
          /\ g.co = ci[L][n].co /\ g.handle = ci[L][n].handle
      BY <3>1 DEF Frames
    <3> HIDE DEF g
    <3>3. /\ s \in Seq(Frames) /\ Len(s) = n /\ s[n] = g /\ \A k \in 1..n : k # n => s[k] = ci[L][k]
      BY <1>2, <3>1, <3>2
    <3>4. ci' = [ci EXCEPT ![L] = s]
      BY <2>2 DEF g
    <3> HIDE DEF s
    <3>5. /\ ci' \in [Threads -> Seq(Frames)] /\ ci'[L] = s
          /\ \A T \in Threads \ {L} : ci'[T] = ci[T]
      BY <1>1, <3>3, <3>4, CiSet
    <3> HIDE DEF n
    <3>6. \A k \in 1..n : k < n => k # n
      BY <1>2
    <3> QED BY <3>1, <3>2, <3>3, <3>5, <3>6
  <2>3. ci' = IF n > 0 /\ ci[L][n].kind = "pcall" THEN [ci EXCEPT ![L][n].done = TRUE] ELSE ci
    BY <1>2, <1>3 DEF Returned
  <2>4. [ci EXCEPT ![L][n].done = TRUE]
          = [ci EXCEPT ![L] = [ci[L] EXCEPT ![n] = [ci[L][n] EXCEPT !.done = TRUE]]]
    OBVIOUS
  <2> QED BY <2>1, <2>2, <2>3, <2>4
<1>9. Settles(l)
  <2>1. l..l = {l}
    BY <1>2
  <2> QED BY <1>1, <1>2, <1>3, <1>6, <1>8, <2>1 DEF Settles
<1>10. LuaInv'
  BY <1>1, <1>2, <1>9, SettleStep
<1>11. TypeOK'
  BY <1>1, <1>6, <1>7, <1>8 DEF TypeOK
<1> QED BY <1>5, <1>10, <1>11 DEF IInv

\* One CallInfo of one thread is replaced.
LEMMA CiField ==
  ASSUME TypeOK, NEW L \in Threads, NEW k \in 1..Len(ci[L]), NEW g \in Frames,
         ci' = [ci EXCEPT ![L] = [ci[L] EXCEPT ![k] = g]]
  PROVE  /\ ci' \in [Threads -> Seq(Frames)] /\ Len(ci'[L]) = Len(ci[L]) /\ ci'[L][k] = g
         /\ \A j \in 1..Len(ci[L]) : j # k => ci'[L][j] = ci[L][j]
         /\ \A T \in Threads \ {L} : ci'[T] = ci[T]
<1> DEFINE s == [ci[L] EXCEPT ![k] = g]
<1>1. ci[L] \in Seq(Frames) /\ Len(ci[L]) \in Nat
  BY Stacks
<1>2. /\ s \in Seq(Frames) /\ Len(s) = Len(ci[L]) /\ s[k] = g
      /\ \A j \in 1..Len(ci[L]) : j # k => s[j] = ci[L][j]
  BY <1>1
<1> HIDE DEF s
<1>3. ci' = [ci EXCEPT ![L] = s]
  BY DEF s
<1> QED BY <1>2, <1>3, CiSet

\* The innermost Rust frame of the running thread is dropped.
LEMMA Yielded_Keeps ==
  ASSUME IInv, Yielded
  PROVE  IInv'
<1> SUFFICES ASSUME NEW L \in Threads, L = Running PROVE IInv'
  BY Fields DEF IInv
<1> DEFINE l == Len(native)
           A == native[l]
           n == Len(ci[L])
<1>1. /\ control = "yielded" /\ control' = "yielded" /\ native # <<>>
      /\ TypeOK /\ StackInv /\ LuaInv /\ UNCHANGED <<status, body>>
      /\ \A i \in Acts : native[i].L = L => native[i].y
  BY DEF Yielded, IInv, LuaInv, ControlOK
<1>2. /\ l \in Acts /\ l \in Nat \ {0} /\ A = Last(native) /\ A.L = L /\ A.at \in Nat /\ n \in Nat
      /\ A.y /\ L # Main
  BY <1>1, Fields, Unyieldable DEF Acts, StackInv
<1>3. A.fn \in {"luaD_pcall", "luaD_performcally"} /\ ~Resumes(A)
  BY <1>2 DEF Yielded, Resumes
<1>4. nCcalls \in [Threads -> Nat] /\ baseCcalls \in [Threads -> Nat]
  BY <1>1 DEF TypeOK
<1>5. Leaves
  <2>1. CASE A.fn = "luaD_pcall"
    BY <1>1, <1>2, <1>3, <2>1 DEF Leaves, Yielded
  <2>2. CASE A.fn = "luaD_performcally"
    <3>1. nCcalls' = [nCcalls EXCEPT ![L] = @] /\ baseCcalls' = [baseCcalls EXCEPT ![L] = @]
          /\ native' = Front(native)
      BY <1>2, <2>2 DEF Yielded
    <3>2. UNCHANGED ccalls
      BY <1>4, <3>1 DEF ccalls
    <3> QED BY <1>1, <1>2, <1>3, <3>1, <3>2 DEF Leaves
  <2> QED BY <1>3, <2>1, <2>2
<1>6. StackInv'
  BY <1>1, <1>5, LeaveStack
<1>7. /\ native' \in Seq(Activations) /\ nCcalls[L] \in Nat \ {0} /\ baseCcalls[L] \in Nat
      /\ baseCcalls[L] > 0 /\ (l > 1 => native[l - 1].L = L)
  BY <1>1, <1>2, <1>5, LeaveFields
<1>8. nCcalls' \in [Threads -> Nat] /\ baseCcalls' \in [Threads -> Nat]
  <2>1. nCcalls' = [nCcalls EXCEPT ![L] = nCcalls[L] - 1] \/ nCcalls' = nCcalls
    BY <1>2, <1>4, <1>5 DEF Leaves, ccalls
  <2>2. baseCcalls' = [baseCcalls EXCEPT ![L] = baseCcalls[L] - 1] \/ baseCcalls' = baseCcalls
    BY <1>2, <1>4, <1>5 DEF Leaves, ccalls
  <2>3. nCcalls[L] - 1 \in Nat /\ baseCcalls[L] - 1 \in Nat
    BY <1>7
  <2>4. /\ [nCcalls EXCEPT ![L] = nCcalls[L] - 1] \in [Threads -> Nat]
        /\ [baseCcalls EXCEPT ![L] = baseCcalls[L] - 1] \in [Threads -> Nat]
    BY ONLY <1>4, <2>3, L \in Threads, ExceptFacts
  <2> QED BY <1>4, <2>1, <2>2, <2>4
<1>9. /\ ci' \in [Threads -> Seq(Frames)] /\ Len(ci'[L]) = n
      /\ \A T \in Threads \ {L} : ci'[T] = ci[T]
      /\ \A k \in 1..n :
           /\ ci'[L][k].kind = ci[L][k].kind /\ ci'[L][k].ret = ci[L][k].ret
           /\ ci'[L][k].co = ci[L][k].co /\ ci'[L][k].handle = ci[L][k].handle
           /\ ci'[L][k].done = ci[L][k].done
  <2>1. CASE ci' = ci
    BY <1>1, <2>1 DEF TypeOK
  <2>2. CASE A.fn = "luaD_performcally" /\ ci' = [ci EXCEPT ![L][A.at].opyield = TRUE]
    <3> DEFINE g == [ci[L][A.at] EXCEPT !.opyield = TRUE]
    <3>1. l > 1
      <4>1. l # 1
        BY <1>1, <1>3, <2>2 DEF StackInv, Segments
      <4>2. l \in Nat \ {0}
        BY <1>2
      <4> HIDE DEF l
      <4> QED BY <4>1, <4>2
    <3>2. A.at > 0 /\ A.at <= n
      <4>1. l - 1 \in Acts /\ l - 1 < l
        BY <1>2, <3>1 DEF Acts
      <4>2. native[l - 1].at < native[l].at
        BY <1>1, <1>2, <1>7, <3>1, <4>1 DEF StackInv, Segments
      <4>3. native[l - 1].at \in Nat
        BY <1>1, <4>1, Fields
      <4>4. native[l].at <= n /\ native[l].at \in Nat
        BY <1>1, <1>2, RunningActs
      <4>5. \A x, y \in Nat : x < y => y > 0
        OBVIOUS
      <4> QED BY <4>2, <4>3, <4>4, <4>5
    <3>3. A.at \in 1..n /\ ci[L][A.at] \in Frames
      <4>1. A.at \in 1..n
        BY <1>2, <3>2
      <4> QED BY <1>1, <4>1, Stacks
    <3>4. /\ g \in Frames /\ g.kind = ci[L][A.at].kind /\ g.ret = ci[L][A.at].ret
          /\ g.co = ci[L][A.at].co /\ g.handle = ci[L][A.at].handle /\ g.done = ci[L][A.at].done
      BY <3>3 DEF Frames
    <3>5. ci' = [ci EXCEPT ![L] = [ci[L] EXCEPT ![A.at] = g]]
      BY <2>2
    <3> HIDE DEF g, A
    <3>6. /\ ci' \in [Threads -> Seq(Frames)] /\ Len(ci'[L]) = n /\ ci'[L][A.at] = g
          /\ \A j \in 1..n : j # A.at => ci'[L][j] = ci[L][j]
          /\ \A T \in Threads \ {L} : ci'[T] = ci[T]
      BY <1>1, <3>3, <3>4, <3>5, CiField
    <3> QED BY <3>4, <3>6
  <2> QED BY <1>2, <2>1, <2>2 DEF Yielded
<1>10. Drops
  BY <1>1, <1>2, <1>3, <1>5, <1>9 DEF Drops, Leaves
<1>11. LuaInv'
  BY <1>1, <1>10, DropStep
<1>12. TypeOK'
  BY <1>1, <1>7, <1>8, <1>9 DEF TypeOK
<1> QED BY <1>6, <1>11, <1>12 DEF IInv

\* An error ends a protected call.
LEMMA luaD_pcall_Keeps ==
  ASSUME IInv, luaD_pcall
  PROVE  IInv'
<1> SUFFICES ASSUME NEW L \in Threads, L = Running, NEW c, c = Catcher PROVE IInv'
  BY Fields DEF IInv
<1> DEFINE l == Len(native)
           A == native[c]
           n == Len(ci[L])
<1>1. /\ TypeOK /\ StackInv /\ LuaInv /\ control \in Errors /\ native # <<>>
      /\ UNCHANGED <<status, body>> /\ control' = "frame"
  BY DEF luaD_pcall, IInv, LuaInv, ControlOK
<1>2. /\ l \in Nat \ {0} /\ Acts = 1..l /\ native \in Seq(Activations)
      /\ c \in 1..l /\ A.L = L /\ A.fn = "luaD_pcall" /\ ~Resumes(A)
      /\ \A j \in c + 1..l : native[j].L = L /\ ~Resumes(native[j])
      /\ A.n \in Nat /\ A.b \in Nat /\ A.at \in Nat
      /\ n \in Nat /\ ci[L] \in Seq(Frames)
  BY <1>1, CatcherFacts, Fields, Stacks DEF StackInv, Acts, luaD_pcall, Resumes
<1>3. \A j \in c..l : native[j].L = L /\ ~Resumes(native[j])
  <2>1. \A j \in c..l : j = c \/ j \in c + 1..l
    BY <1>2
  <2> QED BY <1>2, <2>1
<1>4. A.at \in 0..n
  <2>1. ActOK(c)
    BY <1>1, <1>2 DEF LuaInv
  <2> QED BY <1>2, <2>1 DEF ActOK
<1>5. /\ native' = SubSeq(native, 1, c - 1)
      /\ nCcalls' = [nCcalls EXCEPT ![L] = A.n] /\ baseCcalls' = [baseCcalls EXCEPT ![L] = A.b]
  BY <1>2 DEF luaD_pcall
<1> DEFINE s == SubSeq(ci[L], 1, A.at)
           t == IF A.at > 0 /\ s[A.at].kind = "pcall" THEN [s EXCEPT ![A.at].done = TRUE] ELSE s
<1>6. /\ s \in Seq(Frames) /\ Len(s) = A.at /\ \A k \in 1..A.at : s[k] = ci[L][k]
  BY <1>2, <1>4, PrefixFacts
<1>7. ci' = [ci EXCEPT ![L] = t]
  BY <1>2 DEF luaD_pcall
<1> HIDE DEF s
<1>8. /\ t \in Seq(Frames) /\ Len(t) = A.at
      /\ \A k \in 1..A.at :
           /\ t[k].kind = ci[L][k].kind /\ t[k].ret = ci[L][k].ret
           /\ t[k].co = ci[L][k].co /\ t[k].handle = ci[L][k].handle
           /\ k < A.at => t[k].done = ci[L][k].done
  <2>1. CASE t = s
    BY <1>6, <2>1
  <2>2. CASE A.at > 0 /\ t = [s EXCEPT ![A.at].done = TRUE]
    <3> DEFINE a == A.at
               g == [s[a] EXCEPT !.done = TRUE]
    <3>1. a \in 1..a /\ s[a] \in Frames /\ a \in Nat
      BY <1>2, <1>6, <2>2
    <3>2. /\ g \in Frames /\ g.kind = s[a].kind /\ g.ret = s[a].ret
          /\ g.co = s[a].co /\ g.handle = s[a].handle
      BY <3>1 DEF Frames
    <3>3. t = [s EXCEPT ![a] = g]
      BY <2>2
    <3> HIDE DEF g, t, A
    <3>4. t \in Seq(Frames) /\ Len(t) = a /\ t[a] = g /\ \A k \in 1..a : k # a => t[k] = s[k]
      BY <1>6, <3>1, <3>2, <3>3
    <3>5. \A k \in 1..a : k < a => k # a
      BY <3>1
    <3> QED BY <1>6, <3>1, <3>2, <3>4, <3>5
  <2> QED BY <2>1, <2>2
<1> HIDE DEF t
<1>9. /\ ci' \in [Threads -> Seq(Frames)] /\ ci'[L] = t
      /\ \A T \in Threads \ {L} : ci'[T] = ci[T]
  BY <1>1, <1>7, <1>8, CiSet
<1>10. Settles(c)
  BY <1>1, <1>3, <1>5, <1>8, <1>9 DEF Settles
<1>11. LuaInv'
  BY <1>1, <1>2, <1>10, SettleStep
<1>12. TypeOK'
  <2>1. native' \in Seq(Activations)
    <3>1. c - 1 \in 0..l
      BY <1>2
    <3> QED BY <1>2, <1>5, <3>1, PrefixFacts
  <2>2. nCcalls' \in [Threads -> Nat] /\ baseCcalls' \in [Threads -> Nat]
    BY <1>1, <1>2, <1>5, ExceptFacts DEF TypeOK
  <2> QED BY <1>1, <1>9, <2>1, <2>2 DEF TypeOK
<1>13. StackInv'
  <2> DEFINE m == c - 1
             x == A.n
             z == A.b
  <2>1. m \in 0..l /\ m \in Nat /\ m + 1 = c /\ (m > 0 => m \in Acts /\ m = c - 1 /\ c > 1 /\ c \in Acts)
    BY <1>2
  <2>2. /\ x < MAXCCALLS + Reserve /\ (L = Main => x = m) /\ z <= x
    BY <1>1, <1>2 DEF StackInv, Saved
  <2>3. ASSUME m > 0 PROVE native[m].L = L
    <3>1. m \in Acts /\ c \in Acts /\ m <= c /\ \A k \in m + 1..c : ~Resumes(native[k])
      BY <1>2, <2>1, <2>3
    <3> HIDE DEF m
    <3>2. native[c].L = native[m].L
      BY <1>1, <3>1 DEF StackInv, Segments
    <3> QED BY <1>2, <3>2
  <2>4. ASSUME m > 0
        PROVE  /\ x >= Level(native[m])
               /\ x + native[m].b = z + native[m].n + Blocks(native[m])
    BY <1>1, <1>2, <2>1, <2>4 DEF StackInv, Saved
  <2>5. m = 0 /\ L = Main => x = 0 /\ z = 0
    BY <1>2, <2>2
  <2>6. \A j \in m + 1..Len(native) : native[j].L = Running
    BY <1>3, <2>1
  <2>7. /\ native' = SubSeq(native, 1, m) /\ control' # "cstack"
        /\ nCcalls' = [nCcalls EXCEPT ![Running] = x] /\ baseCcalls' = [baseCcalls EXCEPT ![Running] = z]
        /\ x \in Nat /\ z \in Nat /\ m \in 0..Len(native)
    BY <1>1, <1>2, <1>5, <2>1
  <2> HIDE DEF m, x, z
  <2> QED BY <1>1, <2>2, <2>3, <2>4, <2>5, <2>6, <2>7, CutStack
<1> QED BY <1>11, <1>12, <1>13 DEF IInv

-----------------------------------------------------------------------------
\* A coroutine that lua_costatus or Thread::status does not call running or
\* normal is not on the Rust stack, whatever it was asked for.
LEMMA InactiveFacts ==
  ASSUME IInv, control = "frame", NEW L \in Threads, L = Running, NEW co \in Coroutines,
         \/ status[co] = "yield" \/ lua_costatus(L, co) \in {"sus", "fin", "err"}
         \/ ThreadStatus(L, co) \notin {"run", "nor"}
  PROVE  /\ co \in Threads /\ co # Main /\ co # L /\ ~Active(co)
         /\ status[co] \in {"yield", "break", "error"} \/ (status[co] = "ok" /\ ci[co] = <<>>)
<1>1. co \in Threads /\ co # Main /\ TypeOK /\ StackInv /\ LuaInv
  BY CoroutineAssumption DEF Threads, IInv
<1>2. status[L] = "ok"
  <2>1. CASE native = <<>>
    BY <2>1, HostFacts
  <2>2. CASE native # <<>>
    BY <1>1, <2>2, RunningStatus
  <2> QED BY <2>1, <2>2
<1>3. co # L
  <2> SUFFICES ASSUME co = L PROVE FALSE
    OBVIOUS
  <2>1. lua_costatus(L, co) = "run" /\ ThreadStatus(L, co) = "run"
    BY DEF lua_costatus, ThreadStatus
  <2> QED BY <1>2, <2>1
<1>4. ~Active(co)
  <2> SUFFICES ASSUME Active(co) PROVE FALSE
    OBVIOUS
  <2>1. ci[co] # <<>> /\ status[co] = "ok"
    BY <1>1, <1>3, ActiveHasFrames
  <2>2. lua_costatus(L, co) = "nor" /\ ThreadStatus(L, co) = "nor"
    BY <1>3, <2>1 DEF lua_costatus, ThreadStatus
  <2> QED BY <2>1, <2>2
<1>5. status[co] \in {"yield", "break", "error"} \/ (status[co] = "ok" /\ ci[co] = <<>>)
  BY <1>1, <1>4 DEF LuaInv, ThreadOK, StatusOK
<1> QED BY <1>1, <1>3, <1>4, <1>5

\* A coroutine that may be resumed is suspended or has not started.
LEMMA ResumableFacts ==
  ASSUME IInv, control = "frame", NEW L \in Threads, L = Running, NEW co \in Coroutines,
         status[co] = "yield" \/ lua_costatus(L, co) = "sus" \/ ThreadStatus(L, co) = "sus"
  PROVE  /\ co \in Threads /\ co # Main /\ co # L /\ ~Active(co)
         /\ \/ status[co] \in {"yield", "break"}
            \/ status[co] = "ok" /\ ci[co] = <<>> /\ body[co] \in BodyFunctions
<1>1. \/ status[co] = "yield" \/ lua_costatus(L, co) \in {"sus", "fin", "err"}
      \/ ThreadStatus(L, co) \notin {"run", "nor"}
  OBVIOUS
<1>2. /\ co \in Threads /\ co # Main /\ co # L /\ ~Active(co)
      /\ status[co] \in {"yield", "break", "error"} \/ (status[co] = "ok" /\ ci[co] = <<>>)
  BY <1>1, InactiveFacts
<1>3. status[co] # "error"
  <2> SUFFICES ASSUME status[co] = "error" PROVE FALSE
    OBVIOUS
  <2>1. lua_costatus(L, co) = "err" /\ ThreadStatus(L, co) = "err"
    BY <1>2 DEF lua_costatus, ThreadStatus
  <2> QED BY <2>1
<1>4. ASSUME status[co] = "ok", ci[co] = <<>> PROVE body[co] \in BodyFunctions
  <2>1. body[co] # Nil
    <3> SUFFICES ASSUME body[co] = Nil PROVE FALSE
      OBVIOUS
    <3>1. lua_costatus(L, co) = "fin" /\ ThreadStatus(L, co) = "fin"
      BY <1>2, <1>4 DEF lua_costatus, ThreadStatus
    <3> QED BY <1>4, <3>1
  <2>2. body \in [Threads -> BodyFunctions \cup {Nil}]
    BY DEF IInv, TypeOK
  <2> QED BY <1>2, <2>1, <2>2
<1> QED BY <1>2, <1>3, <1>4

\* Counters, CallInfos and status of a coroutine that is not on the Rust stack
LEMMA IdleKeeps ==
  ASSUME IInv, control = "frame", TopSettled(Running), NEW co \in Coroutines, ~Active(co), Idles(co),
         NEW x \in Nat, NEW z \in Nat, x < MAXCCALLS + Reserve,
         nCcalls' = [nCcalls EXCEPT ![co] = x],
         baseCcalls' = [baseCcalls EXCEPT ![co] = z],
         ci' \in [Threads -> Seq(Frames)], status' \in [Threads -> Statuses],
         body' \in [Threads -> BodyFunctions \cup {Nil}]
  PROVE  IInv'
<1>1. TypeOK /\ StackInv /\ LuaInv /\ co \in Threads
  BY DEF IInv, Threads
<1>2. LuaInv'
  BY <1>1, IdleStep
<1>3. UNCHANGED native /\ control' \in {"frame"} \cup Outcomes
  BY DEF Idles
<1>4. StackInv'
  BY <1>1, <1>3, IdleStack
<1>5. nCcalls' \in [Threads -> Nat] /\ baseCcalls' \in [Threads -> Nat]
  BY <1>1, ExceptFacts DEF TypeOK
<1>6. TypeOK'
  BY <1>1, <1>3, <1>5 DEF TypeOK
<1> QED BY <1>2, <1>4, <1>6 DEF IInv

\* A coroutine is resumed.
LEMMA EnterKeeps ==
  ASSUME IInv, HasReserve, control = "frame", TopSettled(Running), NEW co \in Coroutines, Enters(co),
         NEW m \in Nat, Begins(co, m),
         ci' \in [Threads -> Seq(Frames)], status' \in [Threads -> Statuses],
         body' \in [Threads -> BodyFunctions \cup {Nil}]
  PROVE  IInv'
<1>1. TypeOK /\ StackInv /\ LuaInv /\ co \in Threads /\ nCcalls[Running] + 1 \in Nat
  BY Fields DEF IInv, Threads
<1>2. LuaInv'
  BY <1>1, EnterStep
<1>3. StackInv'
  BY <1>1, EnterStack
<1>4. native' \in Seq(Activations)
  BY <1>1, EnterFields
<1>5. nCcalls' \in [Threads -> Nat] /\ baseCcalls' \in [Threads -> Nat]
  <2>1. /\ nCcalls' = [nCcalls EXCEPT ![co] = nCcalls[Running] + 1]
        /\ baseCcalls' = [baseCcalls EXCEPT ![co] = nCcalls[Running] + 1]
        /\ nCcalls \in [Threads -> Nat] /\ baseCcalls \in [Threads -> Nat]
    BY <1>1 DEF Enters, TypeOK
  <2> QED BY <1>1, <2>1, ExceptFacts
<1>6. TypeOK'
  <2>1. control' \in {"frame", "error", "continue"}
    BY DEF Begins
  <2> QED BY <1>1, <1>4, <1>5, <2>1 DEF TypeOK, Errors
<1> QED BY <1>2, <1>3, <1>6 DEF IInv

LEMMA RefuseResumeKeeps ==
  ASSUME IInv, control = "frame", NEW L \in Threads, L = Running, TopSettled(L),
         NEW co \in Coroutines, ~Active(co), RefuseResume(co, L)
  PROVE  IInv'
<1>1. TypeOK /\ StackInv /\ nCcalls[L] \in Nat /\ co \in Threads /\ baseCcalls[co] \in Nat
  BY Fields DEF IInv, Threads
<1>2. nCcalls[L] < MAXCCALLS + Reserve
  BY <1>1 DEF StackInv, Counters
<1>3. /\ nCcalls' = [nCcalls EXCEPT ![co] = nCcalls[L]] /\ control' = "failed"
      /\ UNCHANGED <<status, ci, baseCcalls, body, native>>
  BY DEF RefuseResume, Inherited
<1>4. baseCcalls' = [baseCcalls EXCEPT ![co] = baseCcalls[co]]
  BY <1>1, <1>3 DEF TypeOK
<1>5. Idles(co)
  BY <1>3 DEF Idles, Outcomes
<1>6. /\ ci' \in [Threads -> Seq(Frames)] /\ status' \in [Threads -> Statuses]
      /\ body' \in [Threads -> BodyFunctions \cup {Nil}]
  BY <1>1, <1>3 DEF TypeOK
<1> QED BY <1>1, <1>2, <1>3, <1>4, <1>5, <1>6, IdleKeeps

\* The CallInfos of a suspended coroutine
LEMMA SuspendedFacts ==
  ASSUME IInv, NEW co \in Coroutines, ~Active(co), status[co] \in {"yield", "break"}, co # Running
  PROVE  /\ ci[co] # <<>> /\ Len(ci[co]) \in Nat \ {0}
         /\ \A k \in 1..Len(ci[co]) :
              LET g == ci[co][k]
              IN /\ g.handle => g.kind = "pcall"
                 /\ g.kind \in {"resume", "wrap"} => g.co \in Coroutines
                 /\ k = 1 /\ g.kind = "lua" => g.ret
                 /\ g.kind = "c" => k = Len(ci[co])
                 /\ g.kind = "pcall" => g.handle /\ ~g.done
<1>1. co \in Threads /\ TypeOK /\ LuaInv
  BY DEF IInv, Threads
<1>2. StatusOK(co) /\ FlagsOK(co) /\ CallersOK(co)
  BY <1>1 DEF LuaInv, ThreadOK
<1>3. /\ ci[co] # <<>>
      /\ \A k \in 1..Len(ci[co]) : ci[co][k].kind = "c" => k = Len(ci[co])
  BY <1>2 DEF StatusOK
<1>4. Len(ci[co]) \in Nat \ {0}
  BY <1>1, <1>3, Stacks
<1>5. \A k \in 1..Len(ci[co]) : ci[co][k].kind = "pcall" => ci[co][k].handle /\ ~ci[co][k].done
  BY <1>2 DEF CallersOK
<1> QED BY <1>2, <1>3, <1>4, <1>5 DEF FlagsOK

LEMMA lua_resume_Keeps ==
  ASSUME IInv, HasReserve, control = "frame", NEW L \in Threads, L = Running, TopSettled(L),
         NEW co \in Coroutines, co # L, ~Active(co), lua_resume(co, L),
         \/ status[co] \in {"yield", "break"}
         \/ status[co] = "ok" /\ ci[co] = <<>> /\ body[co] \in BodyFunctions
  PROVE  IInv'
<1>1. TypeOK /\ co \in Threads
  BY DEF IInv, Threads
<1>2. CASE RefuseResume(co, L)
  BY <1>2, RefuseResumeKeeps
<1>3. CASE ~RefuseResume(co, L)
  <2>1. /\ nCcalls[L] < MAXCCALLS /\ status' = [status EXCEPT ![co] = "ok"]
        /\ nCcalls' = [nCcalls EXCEPT ![co] = nCcalls[L] + 1]
        /\ baseCcalls' = [baseCcalls EXCEPT ![co] = nCcalls[L] + 1]
        /\ native' = Append(native, [fn |-> "lua_resume", L |-> co, at |-> 0,
                                     n |-> nCcalls[L] + 1, b |-> nCcalls[L] + 1, y |-> TRUE])
    BY <1>3 DEF lua_resume, Inherited
  <2>2. /\ status' \in [Threads -> Statuses] /\ status'[co] = "ok"
        /\ \A T \in Threads \ {co} : status'[T] = status[T]
    BY <1>1, <2>1, StatusSet DEF Statuses
  <2>3. ASSUME control' # "cstack" PROVE Enters(co)
    BY <2>1, <2>3 DEF Enters
  <2>4. CASE status[co] = "ok"
    <3> DEFINE g == Precalled(body[co])
    <3>1. body[co] \in Callees
      BY <2>4 DEF BodyFunctions
    <3>2. /\ g \in Frames /\ ~g.handle /\ (g.kind = "lua" => g.ret)
          /\ g.kind \in {"resume", "wrap"} => g.co \in Coroutines
      BY <3>1, CalleeFacts
    <3>3. Incr_ci(co, <<>>, g) /\ body' = [body EXCEPT ![co] = Nil]
      BY <1>3, <2>4 DEF lua_resume
    <3> HIDE DEF g
    <3>4. body' \in [Threads -> BodyFunctions \cup {Nil}]
      BY <1>1, <3>3 DEF TypeOK
    <3>5. CASE ci' = [ci EXCEPT ![co] = Append(<<>>, g)] /\ control' = "frame"
      <4> DEFINE s == Append(<<>>, g)
      <4>1. s \in Seq(Frames) /\ Len(s) = 1 /\ s[1] = g
        BY <3>2
      <4> HIDE DEF s
      <4>2. /\ ci' \in [Threads -> Seq(Frames)] /\ ci'[co] = s
            /\ \A T \in Threads \ {co} : ci'[T] = ci[T]
        BY <1>1, <3>5, <4>1, CiSet DEF s
      <4>3. Begins(co, 1)
        BY <2>2, <3>2, <3>5, <4>1, <4>2 DEF Begins
      <4> QED BY <2>2, <2>3, <3>4, <3>5, <4>2, <4>3, EnterKeeps
    <3>6. CASE ci' = [ci EXCEPT ![co] = <<>>] /\ control' = "error"
      <4>1. <<>> \in Seq(Frames) /\ Len(<<>>) = 0
        OBVIOUS
      <4>2. /\ ci' \in [Threads -> Seq(Frames)] /\ ci'[co] = <<>>
            /\ \A T \in Threads \ {co} : ci'[T] = ci[T]
        BY <1>1, <3>6, <4>1, CiSet
      <4>3. Begins(co, 0)
        BY <2>2, <3>6, <4>1, <4>2 DEF Begins
      <4> QED BY <2>2, <2>3, <3>4, <3>6, <4>2, <4>3, EnterKeeps
    <3> QED BY <3>3, <3>5, <3>6 DEF Incr_ci
  <2>5. CASE status[co] # "ok"
    <3> DEFINE n == Len(ci[co])
    <3>1. /\ ci' = [ci EXCEPT ![co] = IF Last(ci[co]).kind = "c" THEN Front(ci[co]) ELSE ci[co]]
          /\ control' = "continue" /\ UNCHANGED body
      BY <1>3, <2>5 DEF lua_resume
    <3>2. status[co] \in {"yield", "break"} /\ co # Running
      BY <2>5
    <3>3. /\ ci[co] # <<>> /\ n \in Nat \ {0}
          /\ \A k \in 1..n :
               LET g == ci[co][k]
               IN /\ g.handle => g.kind = "pcall"
                  /\ g.kind \in {"resume", "wrap"} => g.co \in Coroutines
                  /\ k = 1 /\ g.kind = "lua" => g.ret
                  /\ g.kind = "c" => k = n
                  /\ g.kind = "pcall" => g.handle /\ ~g.done
      BY <3>2, SuspendedFacts
    <3>4. /\ ci[co] \in Seq(Frames) /\ Last(ci[co]) = ci[co][n] /\ n \in 1..n
          /\ Front(ci[co]) \in Seq(Frames) /\ Len(Front(ci[co])) = n - 1
          /\ \A k \in 1..n - 1 : Front(ci[co])[k] = ci[co][k]
      BY <1>1, <3>3, Stacks
    <3>5. body' \in [Threads -> BodyFunctions \cup {Nil}]
      BY <1>1, <3>1 DEF TypeOK
    <3>6. CASE Last(ci[co]).kind = "c"
      <4>1. /\ ci' \in [Threads -> Seq(Frames)] /\ ci'[co] = Front(ci[co])
            /\ \A T \in Threads \ {co} : ci'[T] = ci[T]
        BY <1>1, <3>1, <3>4, <3>6, CiSet
      <4> HIDE DEF n
      <4>2. n - 1 \in Nat /\ \A k \in 1..n - 1 : k \in 1..n /\ k # n
        BY <3>3
      <4>3. \A k \in 1..n - 1 :
              LET g == ci'[co][k]
              IN /\ g.handle => g.kind = "pcall"
                 /\ g.kind \in {"resume", "wrap"} => g.co \in Coroutines
                 /\ k = 1 /\ g.kind = "lua" => g.ret
                 /\ g.kind # "c"
                 /\ g.kind = "pcall" => g.handle /\ ~g.done
        BY ONLY <3>3, <3>4, <4>1, <4>2
      <4>4. Begins(co, n - 1)
        BY ONLY <2>2, <3>1, <3>4, <4>1, <4>2, <4>3 DEF Begins
      <4> QED BY <2>2, <2>3, <3>1, <3>5, <4>1, <4>2, <4>4, EnterKeeps
    <3>7. CASE Last(ci[co]).kind # "c"
      <4>1. /\ ci' \in [Threads -> Seq(Frames)] /\ ci'[co] = ci[co]
            /\ \A T \in Threads \ {co} : ci'[T] = ci[T]
        BY <1>1, <3>1, <3>4, <3>7, CiSet
      <4> HIDE DEF n
      <4>2. Begins(co, n)
        BY <2>2, <3>1, <3>3, <3>4, <4>1 DEF Begins, n
      <4> QED BY <2>2, <2>3, <3>1, <3>3, <3>5, <4>1, <4>2, EnterKeeps
    <3> QED BY <3>6, <3>7
  <2> QED BY <2>4, <2>5
<1> QED BY <1>2, <1>3

LEMMA auxresume_Keeps ==
  ASSUME IInv, HasReserve, auxresume
  PROVE  IInv'
<1> SUFFICES ASSUME NEW L \in Threads, L = Running PROVE IInv'
  BY Fields DEF IInv
<1> DEFINE f == Last(ci[L])
<1>1. PICK k \in {"resume", "wrap"} : InFrame(k)
  BY DEF auxresume
<1>2. /\ control = "frame" /\ native # <<>> /\ ci[L] # <<>> /\ f = ci[L][Len(ci[L])]
      /\ Len(ci[L]) \in 1..Len(ci[L]) /\ f.kind = k
  BY <1>1, FrameFacts
<1>3. f.co \in Coroutines
  BY <1>2 DEF IInv, LuaInv, ThreadOK, FlagsOK
<1>4. TopSettled(L)
  BY <1>2 DEF TopSettled
<1>5. CASE (status[f.co] = "yield" \/ lua_costatus(L, f.co) = "sus") /\ lua_resume(f.co, L)
  <2>1. /\ f.co # L /\ ~Active(f.co)
        /\ \/ status[f.co] \in {"yield", "break"}
           \/ status[f.co] = "ok" /\ ci[f.co] = <<>> /\ body[f.co] \in BodyFunctions
    BY <1>2, <1>3, <1>5, ResumableFacts
  <2> HIDE DEF f
  <2> QED BY <1>2, <1>3, <1>4, <1>5, <2>1, lua_resume_Keeps
<1>6. CASE control' = "failed" /\ UNCHANGED <<status, ci, ccalls, body, native>>
  BY <1>2, <1>6, StillKeeps DEF Outcomes
<1> QED BY <1>5, <1>6 DEF auxresume

LEMMA ThreadResume_Keeps ==
  ASSUME IInv, OwnHandles, HasReserve, NEW co \in Coroutines, NEW from \in Threads,
         ThreadResume(co, from)
  PROVE  IInv'
<1> SUFFICES ASSUME NEW L \in Threads, L = Running PROVE IInv'
  BY Fields DEF IInv
<1>1. control = "frame" /\ HandleStates = {L} /\ TopSettled(L)
  BY InHostFacts DEF ThreadResume
<1>2. ThreadStatus(L, co) = "sus" /\ lua_resume(co, L)
  BY <1>1 DEF ThreadResume
<1>3. /\ co # L /\ ~Active(co)
      /\ \/ status[co] \in {"yield", "break"}
         \/ status[co] = "ok" /\ ci[co] = <<>> /\ body[co] \in BodyFunctions
  BY <1>1, <1>2, ResumableFacts
<1> QED BY <1>1, <1>2, <1>3, lua_resume_Keeps

LEMMA ThreadResumeError_Keeps ==
  ASSUME IInv, OwnHandles, HasReserve, NEW co \in Coroutines, NEW from \in Threads,
         ThreadResumeError(co, from)
  PROVE  IInv'
<1> SUFFICES ASSUME NEW L \in Threads, L = Running PROVE IInv'
  BY Fields DEF IInv
<1>1. control = "frame" /\ HandleStates = {L} /\ TopSettled(L) /\ TypeOK /\ StackInv
  BY InHostFacts DEF ThreadResumeError, IInv
<1>2. from = L /\ ThreadStatus(L, co) = "sus"
  BY <1>1 DEF ThreadResumeError
<1>3. /\ co \in Threads /\ co # L /\ ~Active(co)
      /\ \/ status[co] \in {"yield", "break"}
         \/ status[co] = "ok" /\ ci[co] = <<>> /\ body[co] \in BodyFunctions
  BY <1>1, <1>2, ResumableFacts
<1>4. CASE RefuseResume(co, L)
  BY <1>1, <1>3, <1>4, RefuseResumeKeeps
<1>5. CASE /\ nCcalls[L] < MAXCCALLS /\ Handlers(co) # {}
           /\ resume_handle(co, nCcalls[L] + 1) /\ UNCHANGED body
           /\ native' = Append(native, [fn |-> "lua_resume", L |-> co, at |-> 0,
                                        n |-> nCcalls[L] + 1, b |-> nCcalls[L] + 1, y |-> TRUE])
  <2> DEFINE h == Handler(co)
             n == Len(ci[co])
  <2>1. /\ ci' = [ci EXCEPT ![co] = SubSeq(ci[co], 1, h - 1)]
        /\ nCcalls' = [nCcalls EXCEPT ![co] = nCcalls[L] + 1]
        /\ baseCcalls' = [baseCcalls EXCEPT ![co] = nCcalls[L] + 1]
        /\ status' = [status EXCEPT ![co] = "ok"] /\ control' = "continue"
    BY <1>5 DEF resume_handle
  <2>2. /\ status' \in [Threads -> Statuses] /\ status'[co] = "ok"
        /\ \A T \in Threads \ {co} : status'[T] = status[T]
    BY <1>1, <1>3, <2>1, StatusSet DEF Statuses
  <2>3. h \in 1..n /\ n \in Nat /\ ci[co] \in Seq(Frames)
    BY <1>1, <1>3, <1>5, HandlerFacts, Stacks
  <2>4. status[co] \in {"yield", "break"} /\ co # Running
    <3>1. ci[co] # <<>>
      BY <1>1, <1>3, <2>3, Stacks
    <3> QED BY <1>3, <3>1
  <2>5. \A k \in 1..n :
          LET g == ci[co][k]
          IN /\ g.handle => g.kind = "pcall"
             /\ g.kind \in {"resume", "wrap"} => g.co \in Coroutines
             /\ k = 1 /\ g.kind = "lua" => g.ret
             /\ g.kind = "c" => k = n
             /\ g.kind = "pcall" => g.handle /\ ~g.done
    BY <1>3, <2>4, SuspendedFacts
  <2> HIDE DEF h, n
  <2>6. h - 1 \in 0..n /\ h - 1 \in Nat /\ \A k \in 1..h - 1 : k \in 1..n /\ k # n
    BY <2>3
  <2> DEFINE s == SubSeq(ci[co], 1, h - 1)
  <2>7. s \in Seq(Frames) /\ Len(s) = h - 1 /\ \A k \in 1..h - 1 : s[k] = ci[co][k]
    BY <2>3, <2>6, PrefixFacts DEF n
  <2> HIDE DEF s
  <2>8. /\ ci' \in [Threads -> Seq(Frames)] /\ ci'[co] = s
        /\ \A T \in Threads \ {co} : ci'[T] = ci[T]
    BY <1>1, <1>3, <2>1, <2>7, CiSet DEF s
  <2>9. \A k \in 1..h - 1 :
          LET g == ci'[co][k]
          IN /\ g.handle => g.kind = "pcall"
             /\ g.kind \in {"resume", "wrap"} => g.co \in Coroutines
             /\ k = 1 /\ g.kind = "lua" => g.ret
             /\ g.kind # "c"
             /\ g.kind = "pcall" => g.handle /\ ~g.done
    BY ONLY <2>5, <2>6, <2>7, <2>8
  <2>10. Begins(co, h - 1)
    BY ONLY <2>1, <2>2, <2>7, <2>8, <2>9 DEF Begins
  <2>11. Enters(co)
    BY <1>3, <1>5, <2>1 DEF Enters
  <2>12. body' \in [Threads -> BodyFunctions \cup {Nil}]
    BY <1>1, <1>5 DEF TypeOK
  <2> QED BY <1>1, <2>2, <2>6, <2>8, <2>10, <2>11, <2>12, EnterKeeps
<1>6. CASE /\ nCcalls[L] < MAXCCALLS
           /\ nCcalls' = [nCcalls EXCEPT ![co] = (nCcalls[L] + 1) - 1]
           /\ baseCcalls' = [baseCcalls EXCEPT ![co] = (nCcalls[L] + 1) - 1]
           /\ status' = [status EXCEPT ![co] = "error"]
           /\ control' = "failed" /\ UNCHANGED <<ci, body, native>>
  <2>1. nCcalls[L] \in Nat /\ nCcalls[L] < MAXCCALLS + Reserve /\ (nCcalls[L] + 1) - 1 = nCcalls[L]
    BY <1>1, <1>6, Fields, CoroutineAssumption
  <2>2. /\ status' \in [Threads -> Statuses] /\ status'[co] = "error"
        /\ \A T \in Threads \ {co} : status'[T] = status[T]
    BY <1>1, <1>3, <1>6, StatusSet DEF Statuses
  <2>3. Idles(co)
    BY <1>6, <2>2 DEF Idles, Outcomes
  <2>4. /\ ci' \in [Threads -> Seq(Frames)] /\ body' \in [Threads -> BodyFunctions \cup {Nil}]
    BY <1>1, <1>6 DEF TypeOK
  <2> QED BY <1>1, <1>3, <1>6, <2>1, <2>2, <2>3, <2>4, IdleKeeps
<1> QED BY <1>2, <1>4, <1>5, <1>6 DEF ThreadResumeError, Inherited

LEMMA lua_resetthread_Keeps ==
  ASSUME IInv, control = "frame", NEW L \in Threads, L = Running, TopSettled(L),
         NEW co \in Coroutines, ~Active(co), NEW f \in BodyFunctions \cup {Nil}, lua_resetthread(co, f)
  PROVE  IInv'
<1>1. TypeOK /\ co \in Threads
  BY DEF IInv, Threads
<1>2. /\ ci' = [ci EXCEPT ![co] = <<>>] /\ status' = [status EXCEPT ![co] = "ok"]
      /\ nCcalls' = [nCcalls EXCEPT ![co] = 0] /\ baseCcalls' = [baseCcalls EXCEPT ![co] = 0]
      /\ body' = [body EXCEPT ![co] = f] /\ UNCHANGED <<native, control>>
  BY DEF lua_resetthread
<1>3. /\ status' \in [Threads -> Statuses] /\ status'[co] = "ok"
      /\ \A T \in Threads \ {co} : status'[T] = status[T]
  BY <1>1, <1>2, StatusSet DEF Statuses
<1>4. /\ ci' \in [Threads -> Seq(Frames)] /\ ci'[co] = <<>>
      /\ \A T \in Threads \ {co} : ci'[T] = ci[T]
  <2>1. <<>> \in Seq(Frames)
    OBVIOUS
  <2> QED BY <1>1, <1>2, <2>1, CiSet
<1>5. body' \in [Threads -> BodyFunctions \cup {Nil}]
  BY <1>1, <1>2, ExceptFacts DEF TypeOK
<1>6. Idles(co)
  BY <1>2, <1>3, <1>4 DEF Idles
<1>7. 0 \in Nat /\ 0 < MAXCCALLS + Reserve
  BY CoroutineAssumption
<1> QED BY <1>2, <1>3, <1>4, <1>5, <1>6, <1>7, IdleKeeps

LEMMA ThreadReset_Keeps ==
  ASSUME IInv, OwnHandles, NEW co \in Coroutines, NEW f \in BodyFunctions, ThreadReset(co, f)
  PROVE  IInv'
<1> SUFFICES ASSUME NEW L \in Threads, L = Running PROVE IInv'
  BY Fields DEF IInv
<1>1. control = "frame" /\ TopSettled(L)
  BY InHostFacts DEF ThreadReset
<1>2. ~Active(co)
  BY <1>1, InactiveFacts DEF ThreadReset
<1> QED BY <1>1, <1>2, lua_resetthread_Keeps DEF ThreadReset

LEMMA coclose_Keeps ==
  ASSUME IInv, NEW co \in Coroutines, coclose(co)
  PROVE  IInv'
<1> SUFFICES ASSUME NEW L \in Threads, L = Running PROVE IInv'
  BY Fields DEF IInv
<1>1. control = "frame" /\ native # <<>> /\ ci[L][Len(ci[L])].kind = "c" /\ TopSettled(L)
  BY FrameFacts DEF coclose, TopSettled
<1>2. CASE lua_costatus(L, co) \in {"fin", "err", "sus"} /\ lua_resetthread(co, Nil)
  <2>1. ~Active(co)
    BY <1>1, <1>2, InactiveFacts
  <2> QED BY <1>1, <1>2, <2>1, lua_resetthread_Keeps
<1>3. CASE control' = "error" /\ UNCHANGED <<status, ci, ccalls, body, native>>
  BY <1>1, <1>3, StillKeeps DEF Errors
<1> QED BY <1>2, <1>3 DEF coclose

LEMMA InitHolds ==
  ASSUME Init
  PROVE  IInv
<1>1. /\ status = [L \in Threads |-> "ok"] /\ ci = [L \in Threads |-> <<>>]
      /\ nCcalls = [L \in Threads |-> 0] /\ baseCcalls = [L \in Threads |-> 0]
      /\ native = <<>> /\ control = "frame" /\ body \in [Threads -> BodyFunctions \cup {Nil}]
  BY DEF Init
<1>2. Main \in Threads /\ Running = Main
  BY <1>1 DEF Threads, Running
<1>3. Acts = {} /\ Len(native) = 0
  BY <1>1 DEF Acts
<1>4. \A L \in Threads : ~Active(L)
  BY <1>1 DEF Active
<1>5. TypeOK
  <2>1. <<>> \in Seq(Frames) /\ native \in Seq(Activations)
    BY <1>1
  <2> QED BY <1>1, <2>1 DEF TypeOK, Statuses
<1>6. \A L \in Threads : ci[L] = <<>> /\ Len(ci[L]) = 0 /\ status[L] = "ok" /\ nCcalls[L] = 0 /\ baseCcalls[L] = 0
  BY <1>1
<1>7. StackInv
  <2>1. Segments /\ Saved
    BY <1>1, <1>3 DEF Segments, Saved
  <2>2. 0 < MAXCCALLS + Reserve
    BY CoroutineAssumption
  <2>3. Counters
    BY <1>2, <1>3, <1>6, <2>2 DEF Counters
  <2> QED BY <2>1, <2>3 DEF StackInv
<1>8. LuaInv
  <2>1. ASSUME NEW L \in Threads PROVE ThreadOK(L)
    BY <1>4, <1>6, <2>1 DEF ThreadOK, StatusOK, FlagsOK, ReturnsOK, CallersOK
  <2>2. ControlOK
    BY <1>1, <1>2, <1>6 DEF ControlOK, Errors
  <2> QED BY <1>3, <2>1, <2>2 DEF LuaInv
<1> QED BY <1>5, <1>7, <1>8 DEF IInv

LEMMA NextKeeps ==
  ASSUME OwnHandles, HasReserve, IInv, [Next]_vars
  PROVE  IInv'
<1>1. ASSUME NEW f \in Callees, Call(f) PROVE IInv'
  BY <1>1, LOP_CALL_Keeps, luaD_callny_Keeps, luaD_performcally_Keeps, luaD_call_Keeps,
     luaB_pcally_Keeps, lua_pcall_Keeps DEF Call
<1>2. CASE LOP_RETURN \/ CReturn \/ Returned
  BY <1>2, LOP_RETURN_Keeps, CReturn_Keeps, Returned_Keeps
<1>3. CASE lua_yield \/ Interrupt \/ Throw
  BY <1>3, lua_yield_Keeps, Interrupt_Keeps, Throw_Keeps
<1>4. CASE Yielded \/ luaD_pcall
  BY <1>4, Yielded_Keeps, luaD_pcall_Keeps
<1>5. CASE auxresume \/ ResumeCatch \/ ResumeYielded
  BY <1>5, auxresume_Keeps, ResumeCatch_Keeps, ResumeYielded_Keeps
<1>6. CASE resume_continue \/ ResumeDone \/ Resumed
  BY <1>6, resume_continue_Keeps, ResumeDone_Keeps, Resumed_Keeps
<1>7. ASSUME NEW co \in Coroutines, NEW from \in Threads,
             ThreadResume(co, from) \/ ThreadResumeError(co, from)
      PROVE  IInv'
  BY <1>7, ThreadResume_Keeps, ThreadResumeError_Keeps
<1>8. ASSUME NEW co \in Coroutines, coclose(co) PROVE IInv'
  BY <1>8, coclose_Keeps
<1>9. ASSUME NEW co \in Coroutines, NEW f \in BodyFunctions, ThreadReset(co, f) PROVE IInv'
  BY <1>9, ThreadReset_Keeps
<1>10. CASE UNCHANGED vars
  <2>1. UNCHANGED <<status, ci, nCcalls, baseCcalls, body, native, control>>
    BY <1>10 DEF vars, ccalls
  <2>2. TypeOK'
    BY <2>1 DEF IInv, TypeOK
  <2>3. Segments' /\ Saved'
    BY <2>1, NativeKept DEF IInv, StackInv
  <2>4. Counters'
    BY <2>1 DEF IInv, StackInv, Counters, Acts, Innermost, Resumes, Level, Blocks, Running, Active
  <2>5. ASSUME NEW L \in Threads PROVE ThreadOK(L)'
    BY <2>1 DEF IInv, LuaInv, ThreadOK, StatusOK, FlagsOK, ReturnsOK, CallersOK, After, Acts,
                Resumes, Running, Active
  <2>6. ASSUME NEW i \in Acts PROVE ActOK(i)'
    BY <2>1 DEF IInv, LuaInv, ActOK, Acts, Innermost, Resumes
  <2>7. ControlOK'
    BY <2>1 DEF IInv, LuaInv, ControlOK, Acts, Resumes, Running
  <2>8. Acts' = Acts
    BY <2>1 DEF Acts
  <2> QED BY <2>2, <2>3, <2>4, <2>5, <2>6, <2>7, <2>8 DEF IInv, StackInv, LuaInv
<1> QED BY <1>1, <1>2, <1>3, <1>4, <1>5, <1>6, <1>7, <1>8, <1>9, <1>10 DEF Next

-----------------------------------------------------------------------------
(***************************************************************************)
(* The theorems.                                                           *)
(***************************************************************************)

\* Every call, yield, error and resume keeps the Rust stack, the CallInfos and
\* the counters in step.
THEOREM Inductive == ASSUME OwnHandles, HasReserve PROVE Spec => []IInv
<1>1. Init => IInv
  BY InitHolds
<1>2. IInv /\ [Next]_vars => IInv'
  BY NextKeeps
<1> QED BY <1>1, <1>2, PTL DEF Spec

\* The fields of the lua_States and of the Rust frames have their types; the
\* unsigned counters never go below 0.
THEOREM TypeCorrect == ASSUME OwnHandles, HasReserve PROVE Spec => []TypeOK
<1>1. IInv => TypeOK
  BY DEF IInv
<1> QED BY <1>1, Inductive, PTL

\* lua_isyieldable answers yes exactly for a coroutine all of whose Rust frames
\* have a continuation.
THEOREM YieldableExactCorrect == ASSUME OwnHandles, HasReserve PROVE Spec => []YieldableExact
<1>1. IInv => YieldableExact
  <2> SUFFICES ASSUME IInv, control = "frame", native # <<>>, NEW L \in Threads, L = Running
               PROVE  LET mine == {native[i] : i \in {j \in 1..Len(native) : native[j].L = L}}
                      IN lua_isyieldable(L) <=> L # Main /\ \A A \in mine : Droppable(A)
    BY Fields DEF YieldableExact, IInv
  <2>1. TypeOK /\ StackInv /\ LuaInv /\ control # "cstack" /\ Acts = 1..Len(native)
    BY DEF IInv, Acts
  <2>2. nCcalls[L] \in Nat /\ baseCcalls[L] \in Nat
    BY <2>1, Fields
  <2>3. /\ baseCcalls[L] <= nCcalls[L]
        /\ nCcalls[L] = baseCcalls[L] <=> \A j \in Acts : native[j].L = L => native[j].y
    BY <2>1, TopCounters
  <2>4. lua_isyieldable(L) <=> nCcalls[L] = baseCcalls[L]
    BY <2>2, <2>3 DEF lua_isyieldable
  <2>5. \A j \in Acts : native[j].L = L => (native[j].y <=> Droppable(native[j]))
    BY <2>1 DEF LuaInv, ActOK, Droppable
  <2>6. L = Main => \E j \in Acts : native[j].L = L /\ ~native[j].y
    BY <2>1, Unyieldable DEF StackInv
  <2> QED BY <2>1, <2>3, <2>4, <2>5, <2>6
<1> QED BY <1>1, Inductive, PTL

\* A suspended thread has no Rust frame and only CallInfos that can be
\* continued.
THEOREM SuspendedFramesCorrect == ASSUME OwnHandles, HasReserve PROVE Spec => []SuspendedFrames
<1>1. IInv => SuspendedFrames
  BY DEF IInv, LuaInv, ThreadOK, StatusOK, SuspendedFrames
<1> QED BY <1>1, Inductive, PTL

\* The counters are equal where resume_continue asserts it, and back at 0 when
\* the host has control again.
THEOREM CcallsBalancedCorrect == ASSUME OwnHandles, HasReserve PROVE Spec => []CcallsBalanced
<1>1. ASSUME IInv, control = "continue" PROVE nCcalls[Running] = baseCcalls[Running]
  <2> DEFINE B == native[Len(native)]
  <2>1. native # <<>> /\ Resumes(Last(native)) /\ TypeOK /\ StackInv /\ control # "cstack"
    BY <1>1 DEF IInv, LuaInv, ControlOK
  <2>2. /\ Resumes(B) /\ Len(native) \in Acts /\ B.n \in Nat /\ B.b \in Nat
        /\ nCcalls[Running] \in Nat /\ baseCcalls[Running] \in Nat
    BY <2>1, Fields
  <2>3. B.n = B.b /\ B.y
    BY <2>1, <2>2 DEF StackInv, Saved, Segments
  <2>4. nCcalls[Running] + B.b = baseCcalls[Running] + B.n + Blocks(B)
    BY <2>1, TopCounters
  <2>5. Blocks(B) = 0
    BY <2>3 DEF Blocks
  <2> HIDE DEF B
  <2> QED BY <2>2, <2>3, <2>4, <2>5
<1>2. ASSUME IInv, native = <<>> PROVE nCcalls[Main] = 0 /\ baseCcalls[Main] = 0
  <2>1. ~Active(Main)
    BY <1>2 DEF Active
  <2> QED BY <1>2, <2>1 DEF IInv, StackInv, Counters
<1>3. IInv => CcallsBalanced
  BY <1>1, <1>2 DEF CcallsBalanced
<1> QED BY <1>3, Inductive, PTL

\* A coroutine is resumed by one thread at a time, who waits or runs has
\* CallInfos, and the CallInfos of the others are those of suspended or failed
\* coroutines.
THEOREM ResumedOnceCorrect == ASSUME OwnHandles, HasReserve PROVE Spec => []ResumedOnce
<1>1. IInv => ResumedOnce
  <2> SUFFICES ASSUME IInv PROVE ResumedOnce
    OBVIOUS
  <2>1. TypeOK /\ StackInv /\ LuaInv /\ Acts = 1..Len(native) /\ Len(native) \in Nat
    BY Fields DEF IInv, Acts
  <2>2. ASSUME NEW i \in Acts, NEW j \in Acts, native[i].fn = "lua_resume", native[j].L = native[i].L
        PROVE  i <= j /\ (native[j].fn = "lua_resume" => i = j)
    <3>1. i <= j /\ (native[j].fn = "lua_resume" => j <= i)
      BY <2>1, <2>2, Order DEF StackInv, Resumes
    <3> QED BY <2>1, <3>1
  <2>3. ASSUME NEW i \in Acts,
               IF i < Len(native) THEN native[i + 1].fn = "lua_resume" ELSE control = "frame"
        PROVE  ci[native[i].L] # <<>>
    <3>1. Innermost(i) /\ (i = Len(native) => control = "frame")
      BY <2>1, <2>3 DEF Innermost, Resumes
    <3>2. native[i].at < Len(ci[native[i].L])
      BY <2>1, <3>1 DEF LuaInv, ActOK, Errors
    <3>3. native[i].at \in Nat /\ native[i].L \in Threads
      BY <2>1, Fields
    <3>4. Len(ci[native[i].L]) # 0
      BY <2>1, <3>2, <3>3, Stacks
    <3> QED BY <2>1, <3>3, <3>4, Stacks
  <2>4. ASSUME NEW L \in Threads, ci[L] # <<>>, ~Active(L)
        PROVE  status[L] \in {"yield", "break", "error"}
    BY <2>1, <2>4 DEF LuaInv, ThreadOK, StatusOK
  <2> QED BY <2>1, <2>2, <2>3, <2>4 DEF ResumedOnce
<1> QED BY <1>1, Inductive, PTL

\* The Rust stack never has more than LUAI_MAXCCALLS plus the reserve of these
\* frames, through all coroutines.
THEOREM DepthBoundedCorrect == ASSUME OwnHandles, HasReserve PROVE Spec => []DepthBounded
<1>1. ASSUME IInv PROVE DepthBounded
  <2> DEFINE l == Len(native)
  <2>1. TypeOK /\ StackInv /\ l \in Nat
    BY <1>1, Fields DEF IInv
  <2>2. CASE l = 0
    BY <2>2, CoroutineAssumption DEF DepthBounded
  <2>3. CASE l # 0
    <3>1. l \in Acts
      BY <2>1, <2>3 DEF Acts
    <3>2. l <= Level(native[l]) /\ native[l].n < MAXCCALLS + Reserve
      BY <2>1, <3>1 DEF StackInv, Saved
    <3>3. native[l].n \in Nat /\ Level(native[l]) \in {native[l].n, native[l].n + 1}
      BY <2>1, <3>1, Fields DEF Level
    <3> QED BY <2>1, <3>2, <3>3, CoroutineAssumption DEF DepthBounded
  <2> QED BY <2>2, <2>3
<1> QED BY <1>1, Inductive, PTL

-----------------------------------------------------------------------------
(***************************************************************************)
(* Errors.                                                                 *)
(***************************************************************************)
LEMMA ErrorSteps ==
  ASSUME [Next]_vars, control \in Errors, control' \notin Errors
  PROVE  luaD_pcall \/ ResumeCatch
<1>1. control # "frame" /\ control # "returned" /\ control # "yielded" /\ control # "continue"
      /\ control \notin Outcomes
  BY DEF Errors, Outcomes
<1>2. ~(\E f \in Callees : Call(f))
  BY <1>1 DEF Call, LOP_CALL, luaD_callny, luaD_performcally, luaD_call, luaB_pcally, lua_pcall,
              InFrame, InHost
<1>3. ~(LOP_RETURN \/ CReturn \/ Returned \/ lua_yield \/ Interrupt \/ Throw \/ Yielded)
  BY <1>1 DEF LOP_RETURN, CReturn, Returned, lua_yield, Interrupt, Throw, Yielded, InFrame
<1>4. ~(auxresume \/ ResumeYielded \/ resume_continue \/ ResumeDone \/ Resumed)
  BY <1>1 DEF auxresume, ResumeYielded, resume_continue, ResumeDone, Resumed, InFrame
<1>5. ~(\E co \in Coroutines :
          \/ \E from \in Threads : ThreadResume(co, from) \/ ThreadResumeError(co, from)
          \/ coclose(co)
          \/ \E f \in BodyFunctions : ThreadReset(co, f))
  BY <1>1 DEF ThreadResume, ThreadResumeError, coclose, ThreadReset, InFrame, InHost
<1>6. ~UNCHANGED vars
  BY DEF vars
<1> QED BY <1>2, <1>3, <1>4, <1>5, <1>6 DEF Next

\* While an error is raised a protected call that is not on the Rust stack is
\* one whose frame a yield dropped, and its CallInfo is marked as handler.
LEMMA ErrorFrames ==
  ASSUME IInv, control \in Errors, NEW L \in Threads, L = Running, NEW k \in 1..Len(ci[L])
  PROVE  /\ ci[L][k].handle <=> ci[L][k].kind = "pcall"
         /\ ci[L][k].kind = "pcall" =>
              /\ ~ci[L][k].done
              /\ \/ \E j \in Acts : native[j].L = L /\ native[j].at = k
                                      /\ native[j].fn = "luaD_pcall"
                 \/ After(L, k)
<1>1. native # <<>> /\ TypeOK /\ LuaInv /\ control # "frame" /\ control # "yielded"
  BY DEF IInv, LuaInv, ControlOK, Errors
<1>2. status[L] # "error"
  BY <1>1, RunningStatus
<1>3. FlagsOK(L) /\ CallersOK(L)
  BY <1>1 DEF LuaInv, ThreadOK
<1>4. ci[L][k].handle => ci[L][k].kind = "pcall"
  BY <1>3 DEF FlagsOK
<1>5. ci[L][k].kind = "pcall" =>
        /\ ci[L][k].handle /\ ~ci[L][k].done
        /\ \/ \E j \in Acts : native[j].L = L /\ native[j].at = k
                                /\ native[j].fn = "luaD_pcall"
           \/ After(L, k)
  BY <1>1, <1>2, <1>3 DEF CallersOK
<1> QED BY <1>4, <1>5

\* An error that reaches luaD_pcall
LEMMA PcallDelivers ==
  ASSUME IInv, luaD_pcall
  PROVE  Delivered(Running, Protecting(Running))
<1> SUFFICES ASSUME NEW L \in Threads, L = Running, NEW c, c = Catcher
             PROVE  Delivered(L, Protecting(L))
  BY Fields DEF IInv
<1> DEFINE A == native[c]
           a == A.at
           P == Protecting(L)
<1>1. /\ TypeOK /\ StackInv /\ LuaInv /\ control \in Errors /\ native # <<>> /\ control' = "frame"
  BY DEF luaD_pcall, IInv, LuaInv, ControlOK
<1>2. /\ Len(native) \in Nat /\ Acts = 1..Len(native) /\ c \in 1..Len(native) /\ c \in Acts
      /\ A.L = L /\ A.fn = "luaD_pcall" /\ ~Resumes(A)
      /\ \A j \in c + 1..Len(native) : native[j].fn # "luaD_pcall"
      /\ \A j \in Acts : native[j].at \in Nat
      /\ Len(ci[L]) \in Nat /\ ci[L] \in Seq(Frames)
  BY <1>1, CatcherFacts, Fields, Stacks DEF StackInv, Acts, luaD_pcall, Resumes, Catches
<1>3. a \in 0..Len(ci[L])
  <2>1. ActOK(c)
    BY <1>1, <1>2 DEF LuaInv
  <2> QED BY <1>2, <2>1 DEF ActOK
<1>4. a \in P
  BY <1>2 DEF Protecting
<1>5. ASSUME NEW j \in Acts, native[j].L = L, native[j].fn = "luaD_pcall" PROVE native[j].at <= a
  <2>1. j <= c
    BY <1>2, <1>5
  <2>2. j < c => native[j].at < a
    BY <1>1, <1>2, <1>5 DEF StackInv, Segments
  <2> QED BY <1>2, <2>1, <2>2
<1>6. ASSUME NEW k \in 1..Len(ci[L]), ci[L][k].kind = "pcall" PROVE k <= a
  <2>1. CASE \E j \in Acts : native[j].L = L /\ native[j].at = k /\ native[j].fn = "luaD_pcall"
    BY <1>5, <2>1
  <2>2. CASE After(L, k)
    <3>1. a > k
      BY <1>2, <2>2 DEF After
    <3> QED BY <1>2, <3>1
  <2> QED BY <1>1, <1>6, <2>1, <2>2, ErrorFrames
<1>7. P \subseteq Nat /\ \A j \in P : j <= a
  BY <1>2, <1>5, <1>6 DEF Protecting
<1> HIDE DEF P
<1>8. ASSUME NEW h \in P, \A j \in P : j <= h PROVE h = a
  <2>1. h <= a /\ a <= h /\ h \in Nat /\ a \in Nat
    BY <1>2, <1>4, <1>7, <1>8
  <2> HIDE DEF a
  <2> QED BY <2>1
<1>9. (CHOOSE i \in P : \A j \in P : j <= i) = a
  BY <1>4, <1>7, <1>8
<1> DEFINE s == SubSeq(ci[L], 1, a)
           t == IF a > 0 /\ s[a].kind = "pcall" THEN [s EXCEPT ![a].done = TRUE] ELSE s
<1>10. /\ s \in Seq(Frames) /\ Len(s) = a /\ \A k \in 1..a : s[k] = ci[L][k]
  BY <1>2, <1>3, PrefixFacts
<1>11. ci' = [ci EXCEPT ![L] = t]
  BY <1>2 DEF luaD_pcall
<1> HIDE DEF s
<1>12. Len(t) = a /\ (a > 0 /\ ci[L][a].kind = "pcall" => t[a].done)
  <2>1. CASE t = s /\ ~(a > 0 /\ s[a].kind = "pcall")
    <3>1. a > 0 => s[a] = ci[L][a]
      BY <1>3, <1>10
    <3> QED BY <1>10, <2>1, <3>1
  <2>2. CASE a > 0 /\ t = [s EXCEPT ![a].done = TRUE]
    <3>1. a \in 1..a /\ s[a] \in Frames
      BY <1>3, <1>10, <2>2
    <3>2. t = [s EXCEPT ![a] = [s[a] EXCEPT !.done = TRUE]]
      BY <2>2
    <3>3. [s[a] EXCEPT !.done = TRUE].done
      BY <3>1 DEF Frames
    <3> DEFINE g == [s[a] EXCEPT !.done = TRUE]
    <3> HIDE DEF a, t, g
    <3>4. Len(t) = a /\ t[a] = g
      BY <1>10, <3>1, <3>2 DEF g
    <3> QED BY <3>3, <3>4 DEF g
  <2> QED BY <2>1, <2>2
<1> HIDE DEF t
<1>13. ci'[L] = t
  BY <1>1, <1>11 DEF TypeOK
<1>14. P # {}
  BY <1>4
<1> HIDE DEF a
<1> QED BY <1>1, <1>9, <1>12, <1>13, <1>14 DEF Delivered, P

\* An error that reaches lua_resume
LEMMA ResumeDelivers ==
  ASSUME IInv, ResumeCatch
  PROVE  Delivered(Running, Protecting(Running))
<1> SUFFICES ASSUME NEW L \in Threads, L = Running, NEW c, c = Catcher
             PROVE  Delivered(L, Protecting(L))
  BY Fields DEF IInv
<1>1. /\ TypeOK /\ StackInv /\ LuaInv /\ control \in Errors /\ native # <<>>
  BY DEF ResumeCatch, IInv, LuaInv, ControlOK
<1>2. /\ Len(native) \in Nat /\ Acts = 1..Len(native) /\ c \in 1..Len(native) /\ c \in Acts
      /\ native[c].L = L /\ native[c].fn = "lua_resume" /\ Resumes(native[c])
      /\ \A j \in c + 1..Len(native) : native[j].fn # "luaD_pcall"
      /\ Len(ci[L]) \in Nat /\ ci[L] \in Seq(Frames)
  BY <1>1, CatcherFacts, Fields, Stacks DEF StackInv, Acts, ResumeCatch, Resumes, Catches
<1>3. ASSUME NEW j \in 1..Len(native), native[j].L = L PROVE native[j].fn # "luaD_pcall"
  <2>1. c <= j
    BY <1>1, <1>2, <1>3, Order DEF StackInv
  <2>2. j = c \/ j \in c + 1..Len(native)
    BY <1>2, <2>1
  <2> QED BY <1>2, <2>2
<1>4. \A k \in 1..Len(ci[L]) : ci[L][k].handle <=> ci[L][k].kind = "pcall" /\ ~ci[L][k].done
  BY <1>1, ErrorFrames
<1>5. Protecting(L) = Handlers(L)
  BY <1>3, <1>4 DEF Protecting, Handlers
<1>6. CASE Handlers(L) = {}
  <2>1. control' = "failed" /\ status' = [status EXCEPT ![L] = "error"]
    BY <1>2, <1>6 DEF ResumeCatch, Finish
  <2>2. status'[L] = "error"
    BY <1>1, <2>1 DEF TypeOK
  <2> QED BY <1>5, <1>6, <2>1, <2>2 DEF Delivered
<1>7. CASE Handlers(L) # {}
  <2> DEFINE h == Handler(L)
  <2>1. control' = "continue" /\ ci' = [ci EXCEPT ![L] = SubSeq(ci[L], 1, h - 1)]
    BY <1>2, <1>7 DEF ResumeCatch, resume_handle
  <2>2. h \in 1..Len(ci[L])
    BY <1>1, <1>7, HandlerFacts
  <2>3. h - 1 \in 0..Len(ci[L])
    BY <1>2, <2>2
  <2>4. Len(SubSeq(ci[L], 1, h - 1)) = h - 1
    BY <1>2, <2>3, PrefixFacts
  <2>5. ci'[L] = SubSeq(ci[L], 1, h - 1)
    BY <1>1, <2>1 DEF TypeOK
  <2>6. h = CHOOSE i \in Protecting(L) : \A j \in Protecting(L) : j <= i
    BY <1>5 DEF Handler
  <2> HIDE DEF h
  <2> QED BY <1>5, <1>7, <2>1, <2>4, <2>5, <2>6 DEF Delivered
<1> QED BY <1>6, <1>7

\* An error is delivered to the innermost protected call of the thread that
\* raised it, be it a luaD_pcall on the Rust stack or the CallInfo of a pcall
\* whose Rust frame a yield dropped, and to the resumer when there is none.
THEOREM InnermostHandlerCorrect ==
  ASSUME OwnHandles, HasReserve PROVE Spec => InnermostHandler
<1>1. ASSUME IInv, [Next]_vars, control \in Errors, control' \notin Errors
      PROVE  Delivered(Running, Protecting(Running))
  BY <1>1, ErrorSteps, PcallDelivers, ResumeDelivers
<1>2. IInv /\ [Next]_vars =>
        [(control \in Errors /\ control' \notin Errors)
           => Delivered(Running, Protecting(Running))]_vars
  BY <1>1
<1> QED BY <1>2, Inductive, PTL DEF Spec, InnermostHandler
=============================================================================
