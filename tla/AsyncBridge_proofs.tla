------------------------- MODULE AsyncBridge_proofs -------------------------
(***************************************************************************)
(* Theorems about AsyncBridge for any number of tasks, VMs and workers, as *)
(* long as the tasks of one VM are polled one at a time.                   *)
(***************************************************************************)
EXTENDS AsyncBridge, WellFoundedInduction, TLAPS

PCs == {"begin", "set", "running", "polling", "dropping", "ended"}
FrameRec == [kind : Either, d : Driver, waker : Driver \cup {None},
             prev : Driver \cup {None}, pc : PCs]

Root(w) == stack[w][1]

\* The waker of all the polls that a worker is in: that of the task it took
\* up, none when it drops the task.
RootWaker(w) == IF Root(w).kind = "poll" THEN Root(w).d ELSE None

Typed == stack \in [Worker -> Seq(FrameRec)]

\* What is known of a coroutine from where it is; only one that runs, awaits a
\* future or broke down in the poller has a future.
Made ==
  \A d \in Driver :
    /\ driver[d] = "none" => co[d] = "none"
    /\ driver[d] # "none" => vm[d] \in VM
    /\ co[d] \in {"none", "fresh", "yielded", "parked", "finished"} => fut[d] = None
    /\ co[d] = "parked" => driver[d] = "dropped"

\* A child has one parent, whose future owns it, in the same VM.
Family ==
  /\ \A p \in Driver : fut[p] \in Driver =>
       driver[fut[p]] \in {"child", "dropped"} /\ vm[fut[p]] = vm[p]
  /\ \A p, q \in Driver : fut[p] \in Driver /\ fut[p] = fut[q] => p = q
  /\ \A d \in Driver : driver[d] = "child" => \E p \in Driver : fut[p] = d

\* Above a frame is one of its child; a worker's first frame is of a task.
Shape ==
  \A w \in Worker : \A k \in 1..Len(stack[w]) :
    /\ k < Len(stack[w]) =>
         /\ stack[w][k].pc \in {"polling", "dropping"} /\ stack[w][k + 1].d = fut[stack[w][k].d]
         /\ stack[w][k].pc = "dropping" => stack[w][k + 1].kind = "drop"
    /\ k = 1 => \A p \in Driver : fut[p] # stack[w][k].d
    /\ k = 1 /\ stack[w][k].kind = "poll" => driver[stack[w][k].d] = "task"
    /\ vm[stack[w][k].d] = vm[Root(w).d]

\* What a frame knows of its driver.
Steady(f) ==
  /\ driver[f.d] # "none"
  /\ f.kind = "drop" => driver[f.d] = "dropped"
  /\ f.pc = "running" => co[f.d] = "running" /\ fut[f.d] = None
  /\ f.pc = "polling" => co[f.d] = "running"
  /\ f.pc = "dropping" => f.kind = "drop" /\ co[f.d] = "awaiting"
  /\ f.pc = "set" => f.kind = "poll"
States == \A w \in Worker : \A k \in 1..Len(stack[w]) : Steady(stack[w][k])

\* A driver is in one frame at most.
Once ==
  \A w, u \in Worker : \A k \in 1..Len(stack[w]), m \in 1..Len(stack[u]) :
    stack[w][k].d = stack[u][m].d => w = u /\ k = m

\* Two workers are in different VMs.
Apart ==
  \A w, u \in Worker : w # u /\ stack[w] # <<>> /\ stack[u] # <<>> =>
    vm[Root(w).d] # vm[Root(u).d]

\* The polls of a worker have its waker, and put it back if they are nested.
Wakers ==
  \A w \in Worker : \A k \in 1..Len(stack[w]) : stack[w][k].kind = "poll" =>
    /\ stack[w][k].waker = RootWaker(w)
    /\ stack[w][k].pc # "begin" => stack[w][k].prev = IF k = 1 THEN None ELSE RootWaker(w)

\* The slot of a VM has the waker of the worker that is in it.
Slots ==
  /\ \A w \in Worker : stack[w] # <<>> =>
       slot[vm[Root(w).d]] = IF Root(w).pc # "begin" THEN RootWaker(w) ELSE None
  /\ \A v \in VM : (\A w \in Worker : stack[w] # <<>> => vm[Root(w).d] # v) => slot[v] = None

\* The inductive invariant.
IInv ==
  /\ TypeOK /\ Typed /\ Made /\ Family
  /\ Shape /\ States /\ Once /\ Apart /\ Wakers /\ Slots

\* The top of a stack.
LEMMA TopFacts ==
  ASSUME Typed, NEW w \in Worker
  PROVE  /\ stack[w] \in Seq(FrameRec) /\ Len(stack[w]) \in Nat
         /\ \A k \in 1..Len(stack[w]) : stack[w][k] \in FrameRec
         /\ stack[w] # <<>> <=> Len(stack[w]) > 0
         /\ stack[w] # <<>> => 1 \in 1..Len(stack[w]) /\ Len(stack[w]) \in 1..Len(stack[w])
         /\ Top(w) = stack[w][Len(stack[w])]
         /\ InProgress(w) = {stack[w][k] : k \in 1..Len(stack[w])}
<1>1. stack[w] \in Seq(FrameRec)
  BY DEF Typed
<1>2. stack[w] # <<>> <=> Len(stack[w]) > 0
  BY <1>1
<1> QED BY <1>1, <1>2 DEF Top, Last, InProgress

\* What a step does to the stacks that only edits the frame on top of w's.
TopEdit(w) ==
  /\ stack[w] # <<>>
  /\ Typed'
  /\ \A u \in Worker : Len(stack'[u]) = Len(stack[u])
  /\ \A u \in Worker : \A k \in 1..Len(stack[u]) :
       /\ stack'[u][k].d = stack[u][k].d /\ stack'[u][k].kind = stack[u][k].kind
       /\ stack'[u][k].waker = stack[u][k].waker
       /\ u # w \/ k # Len(stack[w]) => stack'[u][k] = stack[u][k]

\* Goto is such a step.
LEMMA GotoEdits ==
  ASSUME Typed, NEW w \in Worker, stack[w] # <<>>, NEW pc \in PCs, Goto(w, pc)
  PROVE  /\ TopEdit(w)
         /\ stack'[w][Len(stack[w])].pc = pc
         /\ stack'[w][Len(stack[w])].prev = stack[w][Len(stack[w])].prev
<1> DEFINE n == Len(stack[w])
           s == [stack[w] EXCEPT ![n] = [stack[w][n] EXCEPT !.pc = pc]]
<1>1. /\ stack[w] \in Seq(FrameRec) /\ n \in Nat /\ n \in 1..n /\ stack[w][n] \in FrameRec
  BY TopFacts
<1>2. stack' = [stack EXCEPT ![w] = s]
  BY DEF Goto
<1>3. [stack[w][n] EXCEPT !.pc = pc] \in FrameRec
  BY <1>1 DEF FrameRec
<1>4. s \in Seq(FrameRec) /\ Len(s) = n /\ \A k \in 1..n :
        s[k] = IF k = n THEN [stack[w][n] EXCEPT !.pc = pc] ELSE stack[w][k]
  BY <1>1, <1>3
<1>5. stack'[w] = s /\ \A u \in Worker : u # w => stack'[u] = stack[u]
  BY <1>2 DEF Typed
<1>6. Typed'
  BY <1>2, <1>4 DEF Typed
<1>7. /\ [stack[w][n] EXCEPT !.pc = pc].pc = pc
      /\ [stack[w][n] EXCEPT !.pc = pc].d = stack[w][n].d
      /\ [stack[w][n] EXCEPT !.pc = pc].kind = stack[w][n].kind
      /\ [stack[w][n] EXCEPT !.pc = pc].waker = stack[w][n].waker
      /\ [stack[w][n] EXCEPT !.pc = pc].prev = stack[w][n].prev
  BY <1>1 DEF FrameRec
<1> HIDE DEF s
<1> QED BY <1>1, <1>4, <1>5, <1>6, <1>7 DEF TopEdit

\* What a step may do to the drivers while it edits the frame of d: nothing
\* to those of other frames, but it may make a child.
Local(d) ==
  /\ \A e \in Driver : driver[e] # "none" => driver'[e] = driver[e] /\ vm'[e] = vm[e]
  /\ \A e \in Driver : e # d => fut'[e] = fut[e] /\ (driver[e] # "none" => co'[e] = co[e])
  /\ fut'[d] \in Driver => fut'[d] = fut[d] \/ driver[fut'[d]] = "none"

\* What follows for the stacks.
LEMMA EditKeeps ==
  ASSUME IInv, NEW w \in Worker, TopEdit(w), Local(Top(w).d),
         Steady(stack[w][Len(stack[w])])'
  PROVE  /\ (Typed /\ Shape /\ States /\ Once /\ Apart)'
         /\ \A u \in Worker : /\ stack'[u] # <<>> <=> stack[u] # <<>>
                              /\ stack[u] # <<>> => 1 \in 1..Len(stack[u])
         /\ \A u \in Worker : stack[u] # <<>> =>
              /\ Root(u)'.d = Root(u).d /\ RootWaker(u)' = RootWaker(u)
              /\ vm'[Root(u).d] = vm[Root(u).d]
<1> DEFINE n == Len(stack[w])
           d == Top(w).d
<1>1. /\ \A u \in Worker : Len(stack[u]) \in Nat /\ \A k \in 1..Len(stack[u]) : stack[u][k] \in FrameRec
      /\ n \in 1..n /\ d = stack[w][n].d
  BY TopFacts DEF IInv, TopEdit
<1>2. /\ \A u \in Worker : Len(stack'[u]) = Len(stack[u])
      /\ \A u \in Worker : \A k \in 1..Len(stack[u]) :
           /\ stack'[u][k].d = stack[u][k].d /\ stack'[u][k].kind = stack[u][k].kind
           /\ stack'[u][k].waker = stack[u][k].waker
           /\ u # w \/ k # n => stack'[u][k] = stack[u][k]
  BY DEF TopEdit
<1>3. \A u \in Worker : \A k \in 1..Len(stack[u]) : (u # w \/ k # n) => stack[u][k].d # d
  BY <1>1 DEF IInv, Once
<1>4. \A u \in Worker : \A k \in 1..Len(stack[u]) :
        /\ stack[u][k].d \in Driver /\ driver[stack[u][k].d] # "none"
        /\ driver'[stack[u][k].d] = driver[stack[u][k].d]
        /\ vm'[stack[u][k].d] = vm[stack[u][k].d]
        /\ (u # w \/ k # n) => /\ fut'[stack[u][k].d] = fut[stack[u][k].d]
                               /\ co'[stack[u][k].d] = co[stack[u][k].d]
  <2>1. \A u \in Worker : \A k \in 1..Len(stack[u]) :
          stack[u][k].d \in Driver /\ driver[stack[u][k].d] # "none"
    BY <1>1 DEF IInv, States, Steady, FrameRec
  <2> QED BY <1>3, <2>1 DEF Local
<1>5. \A u \in Worker : /\ stack'[u] # <<>> <=> stack[u] # <<>>
                        /\ stack[u] # <<>> => 1 \in 1..Len(stack[u])
  <2>1. \A u \in Worker : stack'[u] \in Seq(FrameRec) /\ stack[u] \in Seq(FrameRec)
    BY DEF TopEdit, Typed, IInv
  <2> QED BY <1>2, <2>1
<1>6. \A u \in Worker : stack[u] # <<>> =>
        /\ Root(u)'.d = Root(u).d /\ RootWaker(u)' = RootWaker(u)
        /\ vm'[Root(u).d] = vm[Root(u).d]
  BY <1>1, <1>2, <1>4, <1>5 DEF Root, RootWaker
<1>7. \A u \in Worker : \A k \in 1..Len(stack[u]) : k < Len(stack[u]) => u # w \/ k # n
  BY <1>1
<1>8. Typed'
  BY DEF TopEdit
<1>9. \A p \in Driver, u \in Worker : stack[u] # <<>> => fut'[p] # stack[u][1].d
  <2> SUFFICES ASSUME NEW p \in Driver, NEW u \in Worker, stack[u] # <<>>,
                      fut'[p] = stack[u][1].d
               PROVE  FALSE
    OBVIOUS
  <2>1. /\ 1 \in 1..Len(stack[u]) /\ fut'[p] \in Driver /\ driver[fut'[p]] # "none"
        /\ fut[p] # stack[u][1].d
    BY <1>4, <1>5 DEF IInv, Shape
  <2> QED BY <2>1 DEF Local
<1>10. Shape'
  <2> SUFFICES ASSUME NEW u \in Worker, NEW k \in 1..Len(stack[u])
               PROVE  /\ k < Len(stack[u]) =>
                           /\ stack'[u][k].pc \in {"polling", "dropping"}
                           /\ stack'[u][k + 1].d = fut'[stack'[u][k].d]
                           /\ stack'[u][k].pc = "dropping" => stack'[u][k + 1].kind = "drop"
                      /\ k = 1 => \A p \in Driver : fut'[p] # stack'[u][k].d
                      /\ k = 1 /\ stack'[u][k].kind = "poll" => driver'[stack'[u][k].d] = "task"
                      /\ vm'[stack'[u][k].d] = vm'[Root(u)'.d]
    BY <1>2 DEF Shape
  <2>1. stack[u] # <<>>
    BY <1>1, <1>5
  <2>2. ASSUME k < Len(stack[u])
        PROVE  /\ stack'[u][k].pc \in {"polling", "dropping"}
               /\ stack'[u][k + 1].d = fut'[stack'[u][k].d]
               /\ stack'[u][k].pc = "dropping" => stack'[u][k + 1].kind = "drop"
    <3>1. k + 1 \in 1..Len(stack[u]) /\ (u # w \/ k # n)
      BY <1>1, <1>7, <2>2
    <3>2. /\ stack[u][k].pc \in {"polling", "dropping"} /\ stack[u][k + 1].d = fut[stack[u][k].d]
          /\ stack[u][k].pc = "dropping" => stack[u][k + 1].kind = "drop"
      BY <2>2 DEF IInv, Shape
    <3> QED BY <1>2, <1>4, <3>1, <3>2
  <2>3. k = 1 => \A p \in Driver : fut'[p] # stack'[u][k].d
    BY <1>2, <1>9, <2>1
  <2>4. k = 1 /\ stack'[u][k].kind = "poll" => driver'[stack'[u][k].d] = "task"
    BY <1>2, <1>4 DEF IInv, Shape
  <2>5. vm'[stack'[u][k].d] = vm'[Root(u)'.d]
    <3>1. vm[stack[u][k].d] = vm[Root(u).d]
      BY DEF IInv, Shape
    <3>2. vm'[stack'[u][k].d] = vm[stack[u][k].d]
      BY <1>2, <1>4
    <3> QED BY <1>6, <2>1, <3>1, <3>2
  <2> QED BY <2>2, <2>3, <2>4, <2>5
<1>11. States'
  <2> SUFFICES ASSUME NEW u \in Worker, NEW k \in 1..Len(stack[u]) PROVE Steady(stack[u][k])'
    BY <1>2 DEF States
  <2>1. CASE u = w /\ k = n
    <3>1. Len(stack'[w]) = n
      BY <1>2
    <3> QED BY <2>1, <3>1 DEF Steady
  <2>2. CASE u # w \/ k # n
    BY <1>2, <1>4, <2>2 DEF IInv, States, Steady
  <2> QED BY <2>1, <2>2
<1>12. Once'
  BY <1>2 DEF IInv, Once
<1>13. Apart'
  BY <1>5, <1>6 DEF IInv, Apart
<1> QED BY <1>5, <1>6, <1>8, <1>10, <1>11, <1>12, <1>13

\* A step after set_current_waker leaves the wakers alone.
LEMMA EditKeepsWakers ==
  ASSUME IInv, NEW w \in Worker, TopEdit(w), Local(Top(w).d),
         stack[w][Len(stack[w])].kind = "drop" \/
           (stack[w][Len(stack[w])].pc # "begin" /\ stack'[w][Len(stack[w])].pc # "begin"),
         stack'[w][Len(stack[w])].prev = stack[w][Len(stack[w])].prev,
         Steady(stack[w][Len(stack[w])])', slot' = slot
  PROVE  (Typed /\ Shape /\ States /\ Once /\ Apart /\ Wakers /\ Slots)'
<1> DEFINE n == Len(stack[w])
<1>1. /\ (Typed /\ Shape /\ States /\ Once /\ Apart)'
      /\ \A u \in Worker : /\ stack'[u] # <<>> <=> stack[u] # <<>>
                           /\ stack[u] # <<>> => 1 \in 1..Len(stack[u])
      /\ \A u \in Worker : stack[u] # <<>> =>
           /\ Root(u)'.d = Root(u).d /\ RootWaker(u)' = RootWaker(u)
           /\ vm'[Root(u).d] = vm[Root(u).d]
  BY EditKeeps
<1>2. /\ \A u \in Worker : Len(stack'[u]) = Len(stack[u]) /\ Len(stack[u]) \in Nat
      /\ \A u \in Worker : \A k \in 1..Len(stack[u]) :
           /\ stack'[u][k].d = stack[u][k].d /\ stack'[u][k].kind = stack[u][k].kind
           /\ stack'[u][k].waker = stack[u][k].waker
           /\ u # w \/ k # n => stack'[u][k] = stack[u][k]
           /\ stack[u][k] \in FrameRec
  BY TopFacts DEF TopEdit, IInv
<1>3. Wakers'
  <2> SUFFICES ASSUME NEW u \in Worker, NEW k \in 1..Len(stack[u]), stack'[u][k].kind = "poll"
               PROVE  /\ stack'[u][k].waker = RootWaker(u)'
                      /\ stack'[u][k].pc # "begin" =>
                           stack'[u][k].prev = IF k = 1 THEN None ELSE RootWaker(u)'
    BY <1>2 DEF Wakers
  <2>1. stack[u] # <<>>
    BY <1>2
  <2> QED BY <1>1, <1>2, <2>1 DEF IInv, Wakers
<1>4. \A u \in Worker : stack[u] # <<>> =>
        RootWaker(u) = None \/ (Root(u).pc # "begin" <=> Root(u)'.pc # "begin")
  <2>1. \A u \in Worker : stack[u] # <<>> =>
          stack'[u][1].pc = stack[u][1].pc \/ (u = w /\ n = 1)
    BY <1>1, <1>2
  <2> QED BY <1>1, <1>2, <2>1 DEF Root, RootWaker
<1>5. Slots'
  BY <1>1, <1>4 DEF IInv, Slots
<1> QED BY <1>1, <1>3, <1>5

\* What is known of the driver on top.
LEMMA TopDriver ==
  ASSUME IInv, NEW w \in Worker, stack[w] # <<>>
  PROVE  /\ Top(w) = stack[w][Len(stack[w])] /\ Top(w) \in FrameRec /\ Top(w).d \in Driver
         /\ Steady(Top(w)) /\ vm[Top(w).d] \in VM
<1>1. /\ Top(w) = stack[w][Len(stack[w])] /\ Top(w) \in FrameRec
      /\ Len(stack[w]) \in 1..Len(stack[w])
  BY TopFacts DEF IInv
<1>2. Steady(Top(w)) /\ Top(w).d \in Driver
  BY <1>1 DEF IInv, States, FrameRec
<1> QED BY <1>1, <1>2 DEF IInv, Made, Steady

\* The frames in progress have the types of frames.
LEMMA FramesTyped ==
  ASSUME Typed'
  PROVE  (\A w \in Worker : \A f \in InProgress(w) :
            /\ f.d \in Driver /\ {f.waker, f.prev} \subseteq Driver \cup {None}
            /\ f.pc \in {"begin", "set", "running", "polling", "dropping", "ended"})'
<1>1. \A w \in Worker : \A k \in DOMAIN stack'[w] : stack'[w][k] \in FrameRec
  BY DEF Typed
<1> QED BY <1>1 DEF InProgress, FrameRec, PCs

\* A step of the frame on top that changes only where its coroutine is.
LEMMA CoStep ==
  ASSUME IInv, NEW w \in Worker, stack[w] # <<>>, Top(w).kind = "drop" \/ Top(w).pc # "begin",
         NEW pc \in PCs, pc # "begin", Goto(w, pc), NEW c, NEW f,
         co' = [co EXCEPT ![Top(w).d] = c], fut' = [fut EXCEPT ![Top(w).d] = f],
         c \in Resumable \cup {"running", "parked", "finished", "broken"},
         f = fut[Top(w).d] \/ (f \in Futures \cup {None} /\ fut[Top(w).d] \notin Driver),
         c \in {"fresh", "yielded", "parked", "finished"} => f = None,
         c = "parked" => Top(w).kind = "drop",
         pc \in {"running", "polling"} => c = "running",
         pc = "running" => f = None,
         pc \notin {"dropping", "set"},
         ops' \in [Driver -> 0..MaxOps], ready' \in [Driver -> BOOLEAN],
         waker' \in [Driver -> Driver \cup {None}],
         queue' \subseteq {t \in Driver : driver[t] = "task"},
         UNCHANGED <<driver, doomed, vm, slot>>
  PROVE  IInv'
<1> DEFINE d == Top(w).d
           n == Len(stack[w])
<1>1. /\ Top(w) = stack[w][n] /\ Top(w) \in FrameRec /\ d \in Driver
      /\ Steady(Top(w)) /\ vm[d] \in VM
  BY TopDriver
<1>2. TopEdit(w) /\ stack'[w][n].pc = pc /\ stack'[w][n].prev = stack[w][n].prev
  BY GotoEdits DEF IInv
<1>3. /\ \A e \in Driver : co'[e] = IF e = d THEN c ELSE co[e]
      /\ \A e \in Driver : fut'[e] = IF e = d THEN f ELSE fut[e]
  BY <1>1 DEF IInv, TypeOK
<1>4. f \in Driver => f = fut[d]
  BY AsyncAssumption
<1>5. Local(d)
  BY <1>3, <1>4 DEF Local
<1>6. Steady(stack[w][n])'
  <2>1. /\ stack'[w][n].d = d /\ stack'[w][n].kind = Top(w).kind /\ Len(stack'[w]) = n
    <3>1. n \in 1..n
      BY TopFacts DEF IInv
    <3> QED BY <1>1, <1>2, <3>1 DEF TopEdit
  <2> QED BY <1>1, <1>2, <1>3, <2>1 DEF Steady
<1>7. (Typed /\ Shape /\ States /\ Once /\ Apart /\ Wakers /\ Slots)'
  BY <1>1, <1>2, <1>5, <1>6, EditKeepsWakers
<1>8. TypeOK'
  <2>1. co' \in [Driver -> Resumable \cup {"none", "running", "parked", "finished", "broken"}]
    BY DEF IInv, TypeOK
  <2>2. fut' \in [Driver -> Futures \cup Driver \cup {None}]
    <3>1. f \in Futures \cup Driver \cup {None}
      BY <1>1 DEF IInv, TypeOK
    <3> QED BY <3>1 DEF IInv, TypeOK
  <2> QED BY <1>7, <2>1, <2>2, FramesTyped DEF IInv, TypeOK
<1>9. Made'
  BY <1>1, <1>3 DEF IInv, Made, Steady, Resumable
<1>10. Family'
  <2>1. \A p \in Driver : fut'[p] \in Driver => fut[p] = fut'[p]
    BY <1>3, <1>4
  <2>2. \A p \in Driver : fut[p] \in Driver => fut'[p] = fut[p]
    BY <1>3
  <2> QED BY <2>1, <2>2 DEF IInv, Family
<1> QED BY <1>7, <1>8, <1>9, <1>10 DEF IInv

\* The wake-ups of a step are tasks.
LEMMA WokenTasks ==
  ASSUME TypeOK, NEW t PROVE Woken(t) \subseteq {d \in Driver : driver[d] = "task"}
BY DEF TypeOK, Woken

\* lua_resume goes on where the coroutine was.
LEMMA ResumeKeeps == ASSUME IInv, NEW w \in Worker, resume_for_async(w) PROVE IInv'
<1> DEFINE d == Top(w).d
           pc == IF co[d] = "awaiting" THEN "polling" ELSE "running"
<1>1. /\ stack[w] # <<>> /\ Top(w).kind = "poll" /\ Top(w).pc = "set" /\ co[d] \in Resumable
      /\ co' = [co EXCEPT ![d] = "running"] /\ Goto(w, pc)
      /\ UNCHANGED <<driver, doomed, vm, ops, fut, ready, waker, slot, queue>>
  BY DEF resume_for_async, At
<1>2. d \in Driver
  BY <1>1, TopDriver
<1>3. fut' = [fut EXCEPT ![d] = fut[d]]
  BY <1>1, <1>2 DEF IInv, TypeOK
<1>4. pc = "running" => fut[d] = None
  BY <1>1, <1>2 DEF IInv, Made, Resumable
<1>5. pc \in {"running", "polling"} /\ pc \in PCs
  BY DEF PCs
<1>6. TypeOK
  BY DEF IInv
<1>7. /\ ops' \in [Driver -> 0..MaxOps] /\ ready' \in [Driver -> BOOLEAN]
      /\ waker' \in [Driver -> Driver \cup {None}]
      /\ queue' \subseteq {t \in Driver : driver[t] = "task"}
  BY <1>1, <1>6 DEF TypeOK
<1> HIDE DEF pc
<1> QED BY <1>1, <1>3, <1>4, <1>5, <1>7, CoStep

\* The marker starts or continues a coroutine outside the poller, or ends one
\* that awaits a future of its own.
LEMMA TerminateKeeps ==
  ASSUME IInv, NEW w \in Worker, terminate_async(w), co[Top(w).d] # "awaiting" \/ fut[Top(w).d] \notin Driver
  PROVE  IInv'
<1> DEFINE d == Top(w).d
<1>1. /\ stack[w] # <<>> /\ Top(w).kind = "drop"
      /\ UNCHANGED <<vm, ops, ready, waker, slot, queue>>
  BY DEF terminate_async, At
<1>2. d \in Driver /\ TypeOK
  BY <1>1, TopDriver DEF IInv
<1>3. CASE co[d] \in {"fresh", "yielded"}
  <2>1. /\ co' = [co EXCEPT ![d] = "running"] /\ Goto(w, "running")
        /\ UNCHANGED <<driver, doomed, fut>>
    BY <1>3 DEF terminate_async
  <2>2. fut' = [fut EXCEPT ![d] = None]
    BY <1>2, <1>3, <2>1 DEF IInv, Made, TypeOK
  <2>3. fut[d] \notin Driver
    BY <1>2, <1>3, AsyncAssumption DEF IInv, Made
  <2> QED BY <1>1, <1>2, <2>1, <2>2, <2>3, CoStep DEF TypeOK, PCs, Resumable
<1>4. CASE co[d] = "awaiting" /\ fut[d] \in Futures
  <2>1. PICK c \in {"parked", "broken"} :
          /\ co' = [co EXCEPT ![d] = c] /\ Goto(w, "ended") /\ UNCHANGED <<driver, doomed>>
          /\ fut' = [fut EXCEPT ![d] = None]
    BY <1>4, AsyncAssumption DEF terminate_async, Parks
  <2>2. fut[d] \notin Driver
    BY <1>4, AsyncAssumption
  <2> QED BY <1>1, <1>2, <2>1, <2>2, CoStep DEF TypeOK, PCs, Resumable
<1> QED BY <1>3, <1>4 DEF terminate_async

\* The steps of the coroutine and of the poller that make no child.
LEMMA LuaKeeps ==
  ASSUME IInv, NEW w \in Worker,
         LuaEnds(w) \/ LuaYields(w) \/ Interrupted(w) \/ poll_io(w) \/ poll_values(w)
  PROVE  IInv'
<1> DEFINE d == Top(w).d
<1> USE DEF At, Leave
<1>1. /\ stack[w] # <<>> /\ (Top(w).kind = "drop" \/ Top(w).pc # "begin")
      /\ UNCHANGED <<driver, doomed, vm, slot>>
  BY DEF LuaEnds, LuaYields, Interrupted, poll_io, poll_values
<1>2. d \in Driver /\ TypeOK /\ vm[d] \in VM /\ Steady(Top(w))
  BY <1>1, TopDriver DEF IInv
<1>3. fut[d] = None \/ fut[d] \in Futures => fut[d] \notin Driver
  BY AsyncAssumption
<1>4. CASE LuaEnds(w)
  <2>1. PICK c \in {"finished", "broken"} : co' = [co EXCEPT ![d] = c] /\ Goto(w, "ended")
    BY <1>4 DEF LuaEnds
  <2>2. fut[d] = None /\ fut' = [fut EXCEPT ![d] = None] /\ UNCHANGED <<ops, ready, waker, queue>>
    BY <1>2, <1>4 DEF LuaEnds, Steady, TypeOK
  <2> QED BY <1>1, <1>2, <1>3, <2>1, <2>2, CoStep DEF TypeOK, PCs, Resumable
<1>5. CASE LuaYields(w)
  <2>1. /\ co' = [co EXCEPT ![d] = "yielded"] /\ Goto(w, "ended")
        /\ ops' = [ops EXCEPT ![d] = @ - 1] /\ ops[d] > 0 /\ UNCHANGED <<ready, waker>>
    BY <1>5 DEF LuaYields
  <2>2. fut[d] = None /\ fut' = [fut EXCEPT ![d] = None]
    BY <1>2, <1>5 DEF LuaYields, Steady, TypeOK
  <2>3. ops' \in [Driver -> 0..MaxOps]
    BY <1>2, <2>1, AsyncAssumption DEF TypeOK
  <2>4. queue' \subseteq {t \in Driver : driver[t] = "task"}
    BY <1>2, <1>5, WokenTasks DEF LuaYields, Yielded, TypeOK
  <2> QED BY <1>1, <1>2, <1>3, <2>1, <2>2, <2>3, <2>4, CoStep DEF TypeOK, PCs, Resumable
<1>6. CASE poll_io(w) /\ ready[d]
  <2>1. /\ fut[d] = "io" /\ fut' = [fut EXCEPT ![d] = None] /\ Goto(w, "running")
        /\ UNCHANGED <<co, waker, ops, ready, queue>> /\ Top(w).pc = "polling"
    BY <1>6 DEF poll_io
  <2>2. co' = [co EXCEPT ![d] = "running"]
    BY <1>2, <2>1 DEF Steady, TypeOK
  <2> QED BY <1>1, <1>2, <1>3, <2>1, <2>2, CoStep DEF TypeOK, PCs, Resumable, Futures
<1>7. CASE poll_io(w) /\ ~ready[d]
  <2>1. /\ fut[d] = "io" /\ waker' = [waker EXCEPT ![d] = current_waker(w)]
        /\ UNCHANGED <<fut, ops, ready, queue>>
    BY <1>7 DEF poll_io
  <2>2. PICK c \in {"awaiting", "broken"} : co' = [co EXCEPT ![d] = c] /\ Goto(w, "ended")
    BY <1>7 DEF poll_io, Pending
  <2>3. fut' = [fut EXCEPT ![d] = fut[d]]
    BY <1>2, <2>1 DEF TypeOK
  <2>4. waker' \in [Driver -> Driver \cup {None}]
    BY <1>2, <2>1 DEF TypeOK, current_waker
  <2>5. /\ ops' \in [Driver -> 0..MaxOps] /\ ready' \in [Driver -> BOOLEAN]
        /\ queue' \subseteq {t \in Driver : driver[t] = "task"}
    BY <1>2, <2>1 DEF TypeOK
  <2> QED BY <1>1, <2>2, <2>3, <2>4, <2>5, CoStep DEF PCs, Resumable
<1>8. CASE poll_values(w) /\ fut[d] = "values"
  <2>1. /\ fut' = [fut EXCEPT ![d] = "sent"] /\ co' = [co EXCEPT ![d] = "awaiting"]
        /\ Goto(w, "ended") /\ UNCHANGED <<ops, ready, waker>>
    BY <1>8 DEF poll_values
  <2>2. queue' \subseteq {t \in Driver : driver[t] = "task"}
    BY <1>2, <1>8, WokenTasks DEF poll_values, Yielded, TypeOK
  <2> QED BY <1>1, <1>2, <1>3, <1>8, <2>1, <2>2, CoStep DEF TypeOK, PCs, Resumable, Futures
<1>9. CASE poll_values(w) /\ fut[d] = "sent"
  <2>1. /\ fut' = [fut EXCEPT ![d] = None] /\ Goto(w, "running")
        /\ UNCHANGED <<co, queue, ops, ready, waker>> /\ Top(w).pc = "polling"
    BY <1>9 DEF poll_values
  <2>2. co' = [co EXCEPT ![d] = "running"]
    BY <1>2, <2>1 DEF Steady, TypeOK
  <2> QED BY <1>1, <1>2, <1>3, <1>9, <2>1, <2>2, CoStep DEF TypeOK, PCs, Resumable, Futures
<1>10. CASE Interrupted(w)
  <2>1. /\ co' = [co EXCEPT ![d] = "broken"] /\ Goto(w, "ended")
        /\ UNCHANGED <<fut, ops, ready, waker, queue>>
    BY <1>10 DEF Interrupted
  <2>2. fut' = [fut EXCEPT ![d] = fut[d]]
    BY <1>2, <2>1 DEF TypeOK
  <2> QED BY <1>1, <1>2, <2>1, <2>2, CoStep DEF TypeOK, PCs, Resumable
<1> QED BY <1>4, <1>5, <1>6, <1>7, <1>8, <1>9, <1>10 DEF poll_values

\* A length that is not one.
LEMMA Longer ==
  ASSUME NEW n \in Nat, n > 0, n # 1
  PROVE  /\ 1 \in 1..n /\ 1 < n /\ n - 1 \in Nat /\ n - 1 \in 1..n /\ n - 1 \in 1..(n - 1)
         /\ n - 1 < n /\ (n - 1) + 1 = n /\ 1 \in 1..(n - 1)
OBVIOUS

\* Below the top a worker polls or drops a future.
LEMMA RootBusy ==
  ASSUME Typed, Shape, NEW w \in Worker, stack[w] # <<>>, Len(stack[w]) # 1
  PROVE  Root(w).pc \in {"polling", "dropping"}
<1>1. Len(stack[w]) \in Nat /\ Len(stack[w]) > 0
  BY TopFacts
<1>2. 1 \in 1..Len(stack[w]) /\ 1 < Len(stack[w])
  BY <1>1, Longer
<1>3. stack[w][1].pc \in {"polling", "dropping"}
  BY <1>2 DEF Shape
<1> QED BY <1>3 DEF Root

\* The root of a stack is in a VM.
LEMMA RootVM ==
  ASSUME IInv, NEW w \in Worker, stack[w] # <<>>
  PROVE  Root(w) \in FrameRec /\ Root(w).d \in Driver /\ driver[Root(w).d] # "none" /\ vm[Root(w).d] \in VM
<1>1. 1 \in 1..Len(stack[w]) /\ Root(w) \in FrameRec
  BY TopFacts DEF IInv, Root
<1>2. Root(w).d \in Driver /\ Steady(Root(w))
  BY <1>1 DEF IInv, States, Root, FrameRec
<1> QED BY <1>1, <1>2 DEF IInv, Made, Steady

\* set_current_waker: the slot of the VM gets the waker of the poll.
LEMMA SetKeeps == ASSUME IInv, NEW w \in Worker, set_current_waker(w) PROVE IInv'
<1> DEFINE n == Len(stack[w])
           d == Top(w).d
           v == vm[d]
           g == [stack[w][n] EXCEPT !.prev = slot[v], !.pc = "set"]
           s == [stack[w] EXCEPT ![n] = g]
<1>1. /\ stack[w] # <<>> /\ Top(w).kind = "poll" /\ Top(w).pc = "begin"
      /\ slot' = [slot EXCEPT ![v] = Top(w).waker] /\ UNCHANGED <<lua, queue>>
      /\ stack' = [stack EXCEPT ![w][n].prev = slot[v], ![w][n].pc = "set"]
  BY DEF set_current_waker, At
<1>2. /\ Top(w) = stack[w][n] /\ Top(w) \in FrameRec /\ d \in Driver
      /\ Steady(Top(w)) /\ v \in VM
  BY <1>1, TopDriver
<1>3. /\ stack[w] \in Seq(FrameRec) /\ n \in Nat /\ n \in 1..n
  BY <1>1, TopFacts DEF IInv
<1>4. slot[v] \in Driver \cup {None}
  BY <1>2 DEF IInv, TypeOK
<1>5. /\ g \in FrameRec /\ g.pc = "set" /\ g.d = d /\ g.kind = "poll"
      /\ g.waker = Top(w).waker /\ g.prev = slot[v]
  BY <1>1, <1>2, <1>4 DEF FrameRec, PCs
<1>6. stack' = [stack EXCEPT ![w] = s]
  BY <1>1, <1>3 DEF IInv, Typed
<1>7. s \in Seq(FrameRec) /\ Len(s) = n /\ \A k \in 1..n : s[k] = IF k = n THEN g ELSE stack[w][k]
  BY <1>3, <1>5
<1>8. stack'[w] = s /\ \A u \in Worker : u # w => stack'[u] = stack[u]
  BY <1>6 DEF IInv, Typed
<1>9. Typed'
  BY <1>6, <1>7 DEF IInv, Typed
<1> HIDE DEF g, s
<1>10. TopEdit(w) /\ stack'[w][n] = g /\ Len(stack'[w]) = n
  <2>1. stack'[w][n] = g /\ Len(stack'[w]) = n
    BY <1>3, <1>7, <1>8
  <2>2. \A u \in Worker : Len(stack'[u]) = Len(stack[u])
    BY <1>7, <1>8
  <2>3. \A k \in 1..n : /\ stack'[w][k].d = stack[w][k].d /\ stack'[w][k].kind = stack[w][k].kind
                        /\ stack'[w][k].waker = stack[w][k].waker
                        /\ k # n => stack'[w][k] = stack[w][k]
    BY <1>1, <1>2, <1>5, <1>7, <1>8
  <2>4. \A u \in Worker : u # w => stack'[u] = stack[u]
    BY <1>8
  <2> QED BY <1>1, <1>9, <2>1, <2>2, <2>3, <2>4 DEF TopEdit
<1>11. Local(d)
  BY <1>1 DEF Local, lua
<1>12. Steady(stack[w][n])'
  BY <1>1, <1>2, <1>5, <1>10 DEF Steady, lua
<1>13. /\ (Typed /\ Shape /\ States /\ Once /\ Apart)'
       /\ \A u \in Worker : /\ stack'[u] # <<>> <=> stack[u] # <<>>
                            /\ stack[u] # <<>> => 1 \in 1..Len(stack[u])
       /\ \A u \in Worker : stack[u] # <<>> =>
            Root(u)'.d = Root(u).d /\ RootWaker(u)' = RootWaker(u)
  BY <1>10, <1>11, <1>12, EditKeeps
<1>14. v = vm[Root(w).d] /\ Top(w).waker = RootWaker(w)
  BY <1>1, <1>2, <1>3 DEF IInv, Shape, Wakers
<1>15. slot[v] = IF n = 1 THEN None ELSE RootWaker(w)
  <2>1. slot[v] = IF Root(w).pc # "begin" THEN RootWaker(w) ELSE None
    BY <1>1, <1>14 DEF IInv, Slots
  <2>2. CASE n = 1
    BY <1>1, <1>2, <2>1, <2>2 DEF Root
  <2>3. CASE n # 1
    <3>1. Root(w).pc # "begin"
      BY <1>1, <2>3, RootBusy DEF IInv
    <3> QED BY <2>1, <2>3, <3>1
  <2> QED BY <2>2, <2>3
<1>16. Wakers'
  <2> SUFFICES ASSUME NEW u \in Worker, NEW k \in 1..Len(stack[u]), stack'[u][k].kind = "poll"
               PROVE  /\ stack'[u][k].waker = RootWaker(u)'
                      /\ stack'[u][k].pc # "begin" =>
                           stack'[u][k].prev = IF k = 1 THEN None ELSE RootWaker(u)'
    BY <1>10 DEF TopEdit, Wakers
  <2>1. stack[u] # <<>>
    BY TopFacts DEF IInv
  <2>2. CASE u = w /\ k = n
    BY <1>5, <1>10, <1>13, <1>14, <1>15, <2>1, <2>2
  <2>3. CASE u # w \/ k # n
    BY <1>10, <1>13, <2>1, <2>3 DEF TopEdit, IInv, Wakers
  <2> QED BY <2>2, <2>3
<1>17. Root(w)'.pc # "begin"
  <2>1. CASE n = 1
    BY <1>5, <1>10, <2>1 DEF Root
  <2>2. CASE n # 1
    <3>1. 1 \in 1..n /\ 1 < n
      <4>1. n > 0
        BY <1>3
      <4> QED BY <1>3, <2>2, <4>1, Longer
    <3>2. stack'[w][1] = stack[w][1]
      BY <1>10, <3>1 DEF TopEdit
    <3>3. Root(w).pc # "begin"
      BY <1>1, <2>2, RootBusy DEF IInv
    <3> QED BY <3>2, <3>3 DEF Root
  <2> QED BY <2>1, <2>2
<1>18. Slots'
  <2>1. \A x \in VM : slot'[x] = IF x = v THEN RootWaker(w) ELSE slot[x]
    BY <1>1, <1>14 DEF IInv, TypeOK
  <2>2. ASSUME NEW u \in Worker, u # w, stack[u] # <<>>
        PROVE  /\ Root(u)' = Root(u) /\ vm[Root(u).d] # v /\ vm[Root(u).d] \in VM
    <3>1. vm[Root(u).d] # v
      BY <1>1, <1>14, <2>2 DEF IInv, Apart
    <3>2. Root(u)' = Root(u)
      BY <1>8, <2>2 DEF Root
    <3> QED BY <2>2, <3>1, <3>2, RootVM
  <2>3. vm' = vm
    BY <1>1 DEF lua
  <2>4. \A u \in Worker : stack'[u] # <<>> =>
          slot'[vm'[Root(u)'.d]] = IF Root(u)'.pc # "begin" THEN RootWaker(u)' ELSE None
    <3>1. slot'[vm'[Root(w)'.d]] = RootWaker(w)'
      BY <1>1, <1>2, <1>13, <1>14, <2>1, <2>3
    <3>2. ASSUME NEW u \in Worker, u # w, stack[u] # <<>>
          PROVE  slot'[vm'[Root(u)'.d]] = IF Root(u)'.pc # "begin" THEN RootWaker(u)' ELSE None
      BY <1>13, <2>1, <2>2, <2>3, <3>2 DEF IInv, Slots
    <3> QED BY <1>13, <1>17, <3>1, <3>2
  <2>5. \A x \in VM : (\A u \in Worker : stack'[u] # <<>> => vm'[Root(u)'.d] # x) => slot'[x] = None
    BY <1>1, <1>13, <1>14, <2>1, <2>3 DEF IInv, Slots
  <2> QED BY <2>4, <2>5 DEF Slots
<1>19. TypeOK'
  <2>1. slot' \in [VM -> Driver \cup {None}]
    BY <1>1, <1>2 DEF IInv, TypeOK, FrameRec
  <2> QED BY <1>1, <1>9, <2>1, FramesTyped DEF IInv, TypeOK, lua
<1>20. Made' /\ Family'
  BY <1>1 DEF IInv, Made, Family, lua
<1> QED BY <1>13, <1>16, <1>18, <1>19, <1>20 DEF IInv

\* An async function is called, and with call_async a child is made.
LEMMA FutureKeeps ==
  ASSUME IInv, NEW w \in Worker, NEW k \in {"io", "values"} \cup Driver, get_future(w, k)
  PROVE  IInv'
<1> DEFINE n == Len(stack[w])
           d == Top(w).d
<1>1. /\ stack[w] # <<>> /\ Top(w).pc = "running" /\ ops[d] > 0
      /\ ops' = [ops EXCEPT ![d] = @ - 1] /\ fut' = [fut EXCEPT ![d] = k]
      /\ ready' = [ready EXCEPT ![d] = FALSE] /\ waker' = [waker EXCEPT ![d] = None]
      /\ Goto(w, "polling") /\ UNCHANGED <<slot, queue, doomed>>
  BY DEF get_future, At
<1>2. /\ Top(w) = stack[w][n] /\ Top(w) \in FrameRec /\ d \in Driver
      /\ Steady(Top(w)) /\ vm[d] \in VM /\ co[d] = "running" /\ fut[d] = None
  BY <1>1, TopDriver DEF Steady
<1>3. TopEdit(w) /\ stack'[w][n].pc = "polling" /\ stack'[w][n].prev = stack[w][n].prev
  BY <1>1, GotoEdits DEF IInv, PCs
<1>4. \A e \in Driver : fut'[e] = IF e = d THEN k ELSE fut[e]
  BY <1>1 DEF IInv, TypeOK
<1>5. /\ k \in Driver => driver[k] = "none" /\ k # d /\ fut[k] = None
      /\ \A e \in Driver :
           /\ driver'[e] = IF e = k THEN "child" ELSE driver[e]
           /\ vm'[e] = IF e = k THEN vm[d] ELSE vm[e]
           /\ co'[e] = IF e = k THEN "fresh" ELSE co[e]
  <2>1. CASE k \in Driver
    <3>1. /\ driver[k] = "none" /\ driver' = [driver EXCEPT ![k] = "child"]
          /\ vm' = [vm EXCEPT ![k] = vm[d]] /\ co' = [co EXCEPT ![k] = "fresh"]
      BY <2>1 DEF get_future
    <3>2. k # d /\ fut[k] = None
      BY <1>2, <2>1, <3>1 DEF Steady, IInv, Made
    <3> QED BY <3>1, <3>2 DEF IInv, TypeOK
  <2>2. CASE k \notin Driver
    BY <2>2 DEF get_future
  <2> QED BY <2>1, <2>2
<1>6. Local(d)
  BY <1>2, <1>4, <1>5 DEF Local
<1>7. Steady(stack[w][n])'
  <2>1. stack'[w][n].d = d /\ stack'[w][n].kind = Top(w).kind /\ Len(stack'[w]) = n
    <3>1. n \in 1..n
      BY <1>1, TopFacts DEF IInv
    <3> QED BY <1>2, <1>3, <3>1 DEF TopEdit
  <2> QED BY <1>2, <1>3, <1>5, <2>1 DEF Steady
<1>8. (Typed /\ Shape /\ States /\ Once /\ Apart /\ Wakers /\ Slots)'
  BY <1>1, <1>2, <1>3, <1>6, <1>7, EditKeepsWakers
<1>9. TypeOK'
  <2>1. /\ ops' \in [Driver -> 0..MaxOps] /\ ready' \in [Driver -> BOOLEAN]
        /\ waker' \in [Driver -> Driver \cup {None}]
        /\ fut' \in [Driver -> Futures \cup Driver \cup {None}]
    BY <1>1, <1>2, AsyncAssumption DEF IInv, TypeOK, Futures
  <2>2. /\ driver' \in [Driver -> {"none", "task", "child", "dropped"}]
        /\ vm' \in [Driver -> VM \cup {None}]
        /\ co' \in [Driver -> Resumable \cup {"none", "running", "parked", "finished", "broken"}]
    BY <1>2 DEF get_future, IInv, TypeOK, Resumable
  <2>3. queue' \subseteq {t \in Driver : driver'[t] = "task"}
    BY <1>1, <1>5 DEF IInv, TypeOK
  <2>4. slot' \in [VM -> Driver \cup {None}] /\ doomed' \subseteq Driver
    BY <1>1 DEF IInv, TypeOK
  <2> QED BY <1>8, <2>1, <2>2, <2>3, <2>4, FramesTyped DEF TypeOK
<1>10. Made'
  BY <1>2, <1>4, <1>5 DEF IInv, Made
<1>11. Family'
  <2>1. \A p \in Driver : fut[p] \in Driver => fut'[p] = fut[p] /\ fut[p] # k
    BY <1>2, <1>4, <1>5, AsyncAssumption DEF IInv, Family
  <2>2. \A p \in Driver : fut'[p] \in Driver => (p # d /\ fut'[p] = fut[p]) \/ (p = d /\ fut'[p] = k)
    BY <1>4
  <2>3. \A p \in Driver : fut'[p] \in Driver =>
          driver'[fut'[p]] \in {"child", "dropped"} /\ vm'[fut'[p]] = vm'[p]
    <3>1. ASSUME NEW p \in Driver, p # d, fut[p] \in Driver
          PROVE  driver'[fut[p]] \in {"child", "dropped"} /\ vm'[fut[p]] = vm'[p]
      <4>1. p # k /\ fut[p] # k
        BY <1>5, <2>1, <3>1, AsyncAssumption
      <4> QED BY <1>5, <3>1, <4>1 DEF IInv, Family
    <3>2. k \in Driver => driver'[k] = "child" /\ vm'[k] = vm'[d]
      BY <1>2, <1>5
    <3> QED BY <2>2, <3>1, <3>2
  <2>4. \A p, q \in Driver : fut'[p] \in Driver /\ fut'[p] = fut'[q] => p = q
    BY <2>1, <2>2 DEF IInv, Family
  <2>5. \A e \in Driver : driver'[e] = "child" => \E p \in Driver : fut'[p] = e
    BY <1>2, <1>4, <1>5, <2>1 DEF IInv, Family
  <2> QED BY <2>3, <2>4, <2>5 DEF Family
<1> QED BY <1>8, <1>9, <1>10, <1>11 DEF IInv

\* The future of the frame on top is polled or dropped: what the step does to
\* the stack of the worker.
LEMMA EnterEdits ==
  ASSUME Typed, NEW w \in Worker, stack[w] # <<>>, NEW pc \in PCs, NEW g \in FrameRec, Enter(w, pc, g)
  PROVE  /\ Typed' /\ Len(stack'[w]) = Len(stack[w]) + 1
         /\ stack'[w][Len(stack[w]) + 1] = g
         /\ \A u \in Worker : u # w => stack'[u] = stack[u]
         /\ \A k \in 1..Len(stack[w]) :
              /\ stack'[w][k].d = stack[w][k].d /\ stack'[w][k].kind = stack[w][k].kind
              /\ stack'[w][k].waker = stack[w][k].waker /\ stack'[w][k].prev = stack[w][k].prev
              /\ stack'[w][k].pc = IF k = Len(stack[w]) THEN pc ELSE stack[w][k].pc
<1> DEFINE n == Len(stack[w])
           e == [stack[w][n] EXCEPT !.pc = pc]
           s == [stack[w] EXCEPT ![n] = e]
           r == Append(s, g)
<1>1. /\ stack[w] \in Seq(FrameRec) /\ n \in Nat /\ n \in 1..n
      /\ \A k \in 1..n : stack[w][k] \in FrameRec
  BY TopFacts
<1>2. /\ e \in FrameRec /\ e.pc = pc /\ e.d = stack[w][n].d /\ e.kind = stack[w][n].kind
      /\ e.waker = stack[w][n].waker /\ e.prev = stack[w][n].prev
  BY <1>1 DEF FrameRec
<1>3. s \in Seq(FrameRec) /\ Len(s) = n /\ \A k \in 1..n : s[k] = IF k = n THEN e ELSE stack[w][k]
  BY <1>1, <1>2
<1>4. stack' = [stack EXCEPT ![w] = r]
  BY DEF Enter
<1> HIDE DEF e, s
<1>5. r \in Seq(FrameRec) /\ Len(r) = n + 1 /\ r[n + 1] = g /\ \A k \in 1..n : r[k] = s[k]
  BY <1>1, <1>3
<1> HIDE DEF r
<1>6. stack'[w] = r /\ \A u \in Worker : u # w => stack'[u] = stack[u]
  BY <1>4 DEF Typed
<1>7. Typed'
  BY <1>4, <1>5 DEF Typed
<1>8. ASSUME NEW k \in 1..n
      PROVE  /\ stack'[w][k].d = stack[w][k].d /\ stack'[w][k].kind = stack[w][k].kind
             /\ stack'[w][k].waker = stack[w][k].waker /\ stack'[w][k].prev = stack[w][k].prev
             /\ stack'[w][k].pc = IF k = n THEN pc ELSE stack[w][k].pc
  BY <1>2, <1>3, <1>5, <1>6
<1> QED BY <1>5, <1>6, <1>7, <1>8

\* No frame is of the future of the frame on top.
LEMMA ChildIdle ==
  ASSUME IInv, NEW w \in Worker, stack[w] # <<>>, fut[Top(w).d] \in Driver,
         NEW u \in Worker, NEW m \in 1..Len(stack[u])
  PROVE  stack[u][m].d # fut[Top(w).d]
<1> DEFINE n == Len(stack[w])
           d == Top(w).d
<1> SUFFICES ASSUME stack[u][m].d = fut[d] PROVE FALSE
  OBVIOUS
<1>1. d = stack[w][n].d /\ d \in Driver /\ n \in 1..n /\ n \in Nat
  BY TopDriver, TopFacts DEF IInv
<1>2. Len(stack[u]) \in Nat /\ m \in Nat
  BY TopFacts DEF IInv
<1>3. m # 1
  BY <1>1 DEF IInv, Shape
<1>4. m - 1 \in 1..Len(stack[u]) /\ m - 1 < Len(stack[u]) /\ (m - 1) + 1 = m
  <2>1. m > 0 /\ m <= Len(stack[u])
    BY <1>2
  <2>2. m - 1 \in 1..m
    BY <1>2, <1>3, <2>1, Longer
  <2> QED BY <1>2, <2>1, <2>2
<1>5. fut[stack[u][m - 1].d] = fut[d]
  <2>1. stack[u][(m - 1) + 1].d = fut[stack[u][m - 1].d]
    BY <1>4 DEF IInv, Shape
  <2> QED BY <1>4, <2>1
<1>6. stack[u][m - 1].d \in Driver
  <2>1. stack[u][m - 1] \in FrameRec
    BY <1>4, TopFacts DEF IInv
  <2> QED BY <2>1 DEF FrameRec
<1>7. stack[u][m - 1].d = d
  BY <1>1, <1>5, <1>6 DEF IInv, Family
<1>8. u = w /\ m - 1 = n
  <2> DEFINE i == m - 1
  <2>1. i \in 1..Len(stack[u]) /\ stack[u][i].d = stack[w][n].d
    BY <1>1, <1>4, <1>7
  <2> HIDE DEF i
  <2>2. u = w /\ i = n
    BY <1>1, <2>1 DEF IInv, Once
  <2> QED BY <2>2 DEF i
<1> QED BY <1>4, <1>8

\* A poll or a drop of the future of the frame on top begins.
LEMMA EnterKeeps ==
  ASSUME IInv, NEW w \in Worker, stack[w] # <<>>, fut[Top(w).d] \in Driver,
         NEW pc \in {"polling", "dropping"}, NEW kind \in Either, NEW wk \in Driver \cup {None},
         Enter(w, pc, Frame(kind, fut[Top(w).d], wk)),
         pc = "polling" => Top(w).pc = "polling",
         pc = "dropping" => Top(w).kind = "drop" /\ co[Top(w).d] = "awaiting" /\ kind = "drop",
         kind = "poll" => wk = RootWaker(w) /\ driver' = driver,
         kind = "drop" => driver' = [driver EXCEPT ![fut[Top(w).d]] = "dropped"],
         doomed' \subseteq Driver, UNCHANGED <<vm, co, ops, fut, ready, waker, slot, queue>>
  PROVE  IInv'
<1> DEFINE n == Len(stack[w])
           d == Top(w).d
           c == fut[d]
           g == Frame(kind, c, wk)
<1>1. /\ d = stack[w][n].d /\ Top(w) = stack[w][n] /\ d \in Driver /\ Steady(Top(w))
      /\ n \in 1..n /\ n \in Nat
  BY TopDriver, TopFacts DEF IInv
<1>2. /\ g \in FrameRec /\ g.kind = kind /\ g.d = c /\ g.waker = wk /\ g.prev = None
      /\ g.pc = "begin"
  BY DEF FrameRec, Frame, PCs
<1>3. pc \in PCs /\ pc # "begin"
  BY DEF PCs
<1> HIDE DEF g
<1>4. /\ Typed' /\ Len(stack'[w]) = n + 1 /\ stack'[w][n + 1] = g
      /\ \A u \in Worker : u # w => stack'[u] = stack[u]
      /\ \A k \in 1..n :
           /\ stack'[w][k].d = stack[w][k].d /\ stack'[w][k].kind = stack[w][k].kind
           /\ stack'[w][k].waker = stack[w][k].waker /\ stack'[w][k].prev = stack[w][k].prev
           /\ stack'[w][k].pc = IF k = n THEN pc ELSE stack[w][k].pc
  <2>1. Enter(w, pc, g) /\ Typed
    BY DEF g, IInv
  <2> QED BY <1>2, <1>3, <2>1, EnterEdits
<1>5. \A e \in Driver : driver'[e] = driver[e] \/ (e = c /\ kind = "drop" /\ driver'[e] = "dropped")
  BY DEF IInv, TypeOK, Either
<1>6. driver[c] \in {"child", "dropped"} /\ vm[c] = vm[d] /\ c \in Driver
      /\ (kind = "drop" => driver'[c] = "dropped")
  BY <1>1 DEF IInv, Family, TypeOK
<1>7. \A u \in Worker : \A k \in 1..Len(stack[u]) :
        /\ stack[u][k].d \in Driver /\ stack[u][k].d # c
        /\ driver'[stack[u][k].d] = driver[stack[u][k].d]
  <2>1. \A u \in Worker : \A k \in 1..Len(stack[u]) : stack[u][k].d \in Driver
    BY TopFacts DEF FrameRec, IInv
  <2>2. \A u \in Worker : \A k \in 1..Len(stack[u]) : stack[u][k].d # c
    BY ChildIdle
  <2> QED BY <1>5, <2>1, <2>2
<1>8. \A u \in Worker :
        /\ stack'[u] # <<>> => 1 \in 1..Len(stack'[u])
        /\ \A k \in 1..Len(stack'[u]) :
             \/ /\ k \in 1..Len(stack[u])
                /\ stack'[u][k].d = stack[u][k].d /\ stack'[u][k].kind = stack[u][k].kind
                /\ stack'[u][k].waker = stack[u][k].waker /\ stack'[u][k].prev = stack[u][k].prev
                /\ stack'[u][k].pc = IF u = w /\ k = n THEN pc ELSE stack[u][k].pc
             \/ u = w /\ k = n + 1 /\ stack'[u][k] = g
  <2> SUFFICES ASSUME NEW u \in Worker
               PROVE  /\ stack'[u] # <<>> => 1 \in 1..Len(stack'[u])
                      /\ \A k \in 1..Len(stack'[u]) :
                           \/ /\ k \in 1..Len(stack[u])
                              /\ stack'[u][k].d = stack[u][k].d /\ stack'[u][k].kind = stack[u][k].kind
                              /\ stack'[u][k].waker = stack[u][k].waker /\ stack'[u][k].prev = stack[u][k].prev
                              /\ stack'[u][k].pc = IF u = w /\ k = n THEN pc ELSE stack[u][k].pc
                           \/ u = w /\ k = n + 1 /\ stack'[u][k] = g
    OBVIOUS
  <2>1. CASE u = w
    <3>1. \A k \in 1..(n + 1) : k \in 1..n \/ k = n + 1
      BY <1>1
    <3>2. 1 \in 1..(n + 1)
      BY <1>1
    <3> QED BY <1>4, <2>1, <3>1, <3>2
  <2>2. CASE u # w
    BY <1>4, <2>2, TopFacts DEF IInv
  <2> QED BY <2>1, <2>2
<1>9. \A u \in Worker : stack'[u] # <<>> <=> stack[u] # <<>>
  <2>1. stack'[w] # <<>>
    BY <1>1, <1>4
  <2> QED BY <1>4, <2>1
<1>10. \A u \in Worker : stack[u] # <<>> =>
         /\ Root(u)'.d = Root(u).d /\ Root(u)'.kind = Root(u).kind /\ RootWaker(u)' = RootWaker(u)
  <2>1. \A u \in Worker : stack[u] # <<>> =>
          stack'[u][1].d = stack[u][1].d /\ stack'[u][1].kind = stack[u][1].kind
    <3>1. 1 \in 1..n
      BY <1>1
    <3> QED BY <1>4, <3>1
  <2> QED BY <2>1 DEF Root, RootWaker
<1>11. \A u \in Worker : stack[u] # <<>> =>
         (Root(u).pc # "begin" <=> Root(u)'.pc # "begin") \/ RootWaker(u) = None
  <2>1. 1 \in 1..n
    BY <1>1
  <2>2. \A u \in Worker : u # w => Root(u)' = Root(u)
    BY <1>4 DEF Root
  <2>3. CASE n # 1
    BY <1>4, <2>1, <2>2, <2>3 DEF Root
  <2>4. CASE n = 1
    <3>1. Root(w)' .pc = pc /\ Root(w) = Top(w)
      BY <1>1, <1>4, <2>1, <2>4 DEF Root
    <3> QED BY <1>3, <2>2, <3>1 DEF RootWaker
  <2> QED BY <2>3, <2>4
<1>12. Shape'
  <2> SUFFICES ASSUME NEW u \in Worker, NEW k \in 1..Len(stack'[u])
               PROVE  /\ k < Len(stack'[u]) =>
                           /\ stack'[u][k].pc \in {"polling", "dropping"}
                           /\ stack'[u][k + 1].d = fut[stack'[u][k].d]
                           /\ stack'[u][k].pc = "dropping" => stack'[u][k + 1].kind = "drop"
                      /\ k = 1 => \A p \in Driver : fut[p] # stack'[u][k].d
                      /\ k = 1 /\ stack'[u][k].kind = "poll" => driver'[stack'[u][k].d] = "task"
                      /\ vm[stack'[u][k].d] = vm[Root(u)'.d]
    BY DEF Shape
  <2>1. CASE u # w
    <3>1. stack'[u] = stack[u] /\ Root(u)' = Root(u) /\ k \in 1..Len(stack[u])
      BY <1>4, <2>1 DEF Root
    <3> QED BY <1>7, <3>1 DEF IInv, Shape
  <2>2. CASE u = w /\ k # n + 1
    <3>1. k \in 1..n
      BY <1>1, <1>4, <2>2
    <3>2. k # n => k < n /\ k + 1 \in 1..n
      BY <1>1, <3>1
    <3>3. /\ stack'[u][k].pc \in {"polling", "dropping"}
          /\ stack'[u][k + 1].d = fut[stack'[u][k].d]
          /\ stack'[u][k].pc = "dropping" => stack'[u][k + 1].kind = "drop"
      <4>1. CASE k = n
        BY <1>1, <1>2, <1>4, <2>2, <4>1
      <4>2. CASE k # n
        <5>1. /\ stack[w][k].pc \in {"polling", "dropping"}
              /\ stack[w][k + 1].d = fut[stack[w][k].d]
              /\ stack[w][k].pc = "dropping" => stack[w][k + 1].kind = "drop"
          BY <3>1, <3>2, <4>2 DEF IInv, Shape
        <5> QED BY <1>4, <2>2, <3>1, <3>2, <4>2, <5>1
      <4> QED BY <4>1, <4>2
    <3>4. /\ stack'[u][k].d = stack[w][k].d /\ stack'[u][k].kind = stack[w][k].kind
          /\ driver'[stack[w][k].d] = driver[stack[w][k].d] /\ Root(u)'.d = Root(w).d
      BY <1>4, <1>7, <1>10, <2>2, <3>1
    <3> QED BY <2>2, <3>1, <3>3, <3>4 DEF IInv, Shape
  <2>3. CASE u = w /\ k = n + 1
    <3>1. k # 1 /\ ~(k < Len(stack'[u]))
      BY <1>1, <1>4, <2>3
    <3>2. vm[c] = vm[Root(w).d]
      BY <1>1, <1>6 DEF IInv, Shape
    <3> QED BY <1>2, <1>4, <1>10, <2>3, <3>1, <3>2
  <2> QED BY <2>1, <2>2, <2>3
<1>13. States'
  <2> SUFFICES ASSUME NEW u \in Worker, NEW k \in 1..Len(stack'[u])
               PROVE  Steady(stack[u][k])'
    BY DEF States
  <2>1. CASE u = w /\ k = n + 1
    BY <1>2, <1>4, <1>5, <1>6, <2>1 DEF Steady
  <2>2. CASE u = w /\ k = n
    BY <1>1, <1>4, <1>7, <2>2 DEF Steady
  <2>3. CASE u # w \/ (k # n + 1 /\ k # n)
    <3>1. /\ k \in 1..Len(stack[u])
          /\ stack'[u][k].d = stack[u][k].d /\ stack'[u][k].kind = stack[u][k].kind
          /\ stack'[u][k].pc = stack[u][k].pc
      BY <1>8, <2>3
    <3> QED BY <1>7, <3>1 DEF IInv, States, Steady
  <2> QED BY <2>1, <2>2, <2>3
<1>14. Once'
  <2> SUFFICES ASSUME NEW u \in Worker, NEW v \in Worker,
                      NEW k \in 1..Len(stack'[u]), NEW m \in 1..Len(stack'[v]),
                      stack'[u][k].d = stack'[v][m].d
               PROVE  u = v /\ k = m
    BY DEF Once
  <2>1. CASE k \in 1..Len(stack[u]) /\ m \in 1..Len(stack[v]) /\ stack'[u][k].d = stack[u][k].d
             /\ stack'[v][m].d = stack[v][m].d
    <3>1. stack[u][k].d = stack[v][m].d
      BY <2>1
    <3>2. Once
      BY DEF IInv
    <3> QED BY ONLY <2>1, <3>1, <3>2, u \in Worker, v \in Worker DEF Once
  <2> QED BY <1>2, <1>7, <1>8, <2>1
<1>15. Apart'
  BY <1>9, <1>10 DEF IInv, Apart
<1>16. Wakers'
  <2> SUFFICES ASSUME NEW u \in Worker, NEW k \in 1..Len(stack'[u]), stack'[u][k].kind = "poll"
               PROVE  /\ stack'[u][k].waker = RootWaker(u)'
                      /\ stack'[u][k].pc # "begin" =>
                           stack'[u][k].prev = IF k = 1 THEN None ELSE RootWaker(u)'
    BY DEF Wakers
  <2>1. stack[u] # <<>> /\ RootWaker(u)' = RootWaker(u)
    <3>1. stack'[u] # <<>>
      BY <1>4 DEF Typed
    <3> QED BY <1>9, <1>10, <3>1
  <2>2. CASE u = w /\ k = n + 1
    BY <1>2, <1>4, <2>1, <2>2
  <2>3. CASE u = w /\ k = n
    <3>1. stack[w][n].kind = "poll" /\ stack[w][n].pc # "begin"
      BY <1>1, <1>4, <2>3
    <3> QED BY <1>1, <1>4, <2>1, <2>3, <3>1 DEF IInv, Wakers
  <2>4. CASE u # w \/ (k # n + 1 /\ k # n)
    <3>1. /\ k \in 1..Len(stack[u]) /\ stack'[u][k].kind = stack[u][k].kind
          /\ stack'[u][k].pc = stack[u][k].pc
          /\ stack'[u][k].waker = stack[u][k].waker /\ stack'[u][k].prev = stack[u][k].prev
      BY <1>8, <2>4
    <3> QED BY <2>1, <3>1 DEF IInv, Wakers
  <2> QED BY <2>2, <2>3, <2>4
<1>17. Slots'
  BY <1>9, <1>10, <1>11 DEF IInv, Slots
<1>18. TypeOK'
  <2>1. driver' \in [Driver -> {"none", "task", "child", "dropped"}]
    BY DEF IInv, TypeOK, Either
  <2>2. queue' \subseteq {e \in Driver : driver'[e] = "task"}
    BY <1>5, <1>6 DEF IInv, TypeOK
  <2> QED BY <1>4, <2>1, <2>2, FramesTyped DEF IInv, TypeOK
<1>19. Made'
  BY <1>5, <1>6 DEF IInv, Made
<1>20. Family'
  <2>1. \A p \in Driver : fut[p] \in Driver => driver'[fut[p]] \in {"child", "dropped"}
    BY <1>5 DEF IInv, Family
  <2>2. \A e \in Driver : driver'[e] = "child" => driver[e] = "child"
    BY <1>5
  <2> QED BY <2>1, <2>2 DEF IInv, Family
<1> QED BY <1>4, <1>12, <1>13, <1>14, <1>15, <1>16, <1>17, <1>18, <1>19, <1>20 DEF IInv

\* The future polls or drops its AsyncThread, or the poller drops it.
LEMMA NestKeeps ==
  ASSUME IInv, NEW w \in Worker,
         \/ poll_child(w) \/ drop_child(w)
         \/ terminate_async(w) /\ co[Top(w).d] = "awaiting" /\ fut[Top(w).d] \in Driver
  PROVE  IInv'
<1> DEFINE d == Top(w).d
<1>1. stack[w] # <<>> /\ fut[d] \in Driver
  BY DEF poll_child, drop_child, terminate_async, At
<1>2. CASE poll_child(w)
  <2>1. /\ Enter(w, "polling", Frame("poll", fut[d], current_waker(w))) /\ Top(w).pc = "polling"
        /\ UNCHANGED <<driver, vm, co, ops, fut, ready, waker, slot, queue>>
        /\ doomed' \subseteq Driver
    BY <1>2 DEF poll_child, At, lua, IInv, TypeOK
  <2>2. Root(w).pc # "begin"
    <3>1. CASE Len(stack[w]) = 1
      BY <1>1, <2>1, <3>1, TopDriver DEF Root
    <3>2. CASE Len(stack[w]) # 1
      BY <1>1, <3>2, RootBusy DEF IInv
    <3> QED BY <3>1, <3>2
  <2>3. current_waker(w) = RootWaker(w) /\ current_waker(w) \in Driver \cup {None}
    <3>1. vm[d] = vm[Root(w).d] /\ vm[d] \in VM
      <4>1. Len(stack[w]) \in 1..Len(stack[w]) /\ d = stack[w][Len(stack[w])].d
        BY <1>1, TopFacts DEF IInv
      <4> QED BY <1>1, <4>1, TopDriver DEF IInv, Shape
    <3>2. slot[vm[d]] = RootWaker(w)
      BY <1>1, <2>2, <3>1 DEF IInv, Slots
    <3> QED BY <3>1, <3>2 DEF current_waker, IInv, TypeOK
  <2> HIDE DEF d
  <2>4. "polling" \in {"polling", "dropping"} /\ "poll" \in Either
    BY DEF Either
  <2> QED BY <1>1, <2>1, <2>3, <2>4, EnterKeeps DEF d
<1>3. CASE drop_child(w)
  <2>1. /\ Enter(w, "polling", Frame("drop", fut[d], None)) /\ Top(w).pc = "polling"
        /\ driver' = [driver EXCEPT ![fut[d]] = "dropped"] /\ doomed' \subseteq Driver
        /\ UNCHANGED <<vm, co, ops, fut, ready, waker, slot, queue>>
    BY <1>1, <1>3 DEF drop_child, Drops, At, IInv, TypeOK
  <2>2. "polling" \in {"polling", "dropping"} /\ "drop" \in Either /\ None \in Driver \cup {None}
    BY DEF Either
  <2> QED BY <1>1, <2>1, <2>2, EnterKeeps
<1>4. CASE terminate_async(w) /\ co[d] = "awaiting"
  <2>1. /\ Enter(w, "dropping", Frame("drop", fut[d], None)) /\ Top(w).kind = "drop"
        /\ driver' = [driver EXCEPT ![fut[d]] = "dropped"] /\ doomed' \subseteq Driver
        /\ UNCHANGED <<vm, co, ops, fut, ready, waker, slot, queue>>
    BY <1>1, <1>4, AsyncAssumption DEF terminate_async, Drops, At, IInv, TypeOK
  <2>2. "dropping" \in {"polling", "dropping"} /\ "drop" \in Either /\ None \in Driver \cup {None}
    BY DEF Either
  <2> QED BY <1>1, <1>4, <2>1, <2>2, EnterKeeps
<1> QED BY <1>2, <1>3, <1>4

\* call_async, given to the executor.
LEMMA SpawnKeeps == ASSUME IInv, NEW d \in Driver, NEW v \in VM, Spawn(d, v) PROVE IInv'
<1>1. /\ driver[d] = "none" /\ co[d] = "none" /\ fut[d] = None
      /\ queue' = queue \cup {d} /\ UNCHANGED <<ops, fut, ready, waker, slot, stack, doomed>>
  BY DEF Spawn, IInv, Made
<1>2. \A e \in Driver : /\ driver'[e] = IF e = d THEN "task" ELSE driver[e]
                        /\ vm'[e] = IF e = d THEN v ELSE vm[e]
                        /\ co'[e] = IF e = d THEN "fresh" ELSE co[e]
  BY DEF Spawn, IInv, TypeOK
<1>3. \A p \in Driver : fut[p] # d /\ (fut[p] \in Driver => p # d)
  BY <1>1, AsyncAssumption DEF IInv, Family
<1>4. \A u \in Worker : \A k \in 1..Len(stack[u]) :
        stack[u][k].d \in Driver /\ stack[u][k].d # d
  <2>1. \A u \in Worker : \A k \in 1..Len(stack[u]) : stack[u][k].d \in Driver
    BY TopFacts DEF FrameRec, IInv
  <2> QED BY <1>1, <2>1 DEF IInv, States, Steady
<1>5. \A u \in Worker : stack[u] # <<>> => Root(u).d \in Driver /\ Root(u).d # d
  BY <1>4, TopFacts DEF IInv, Root
<1>6. \A u \in Worker : Root(u)' = Root(u) /\ RootWaker(u)' = RootWaker(u)
  BY <1>1 DEF Root, RootWaker
<1>7. Typed' /\ Once' /\ Wakers'
  BY <1>1, <1>6 DEF IInv, Typed, Once, Wakers
<1>8. TypeOK'
  <2>1. /\ driver' \in [Driver -> {"none", "task", "child", "dropped"}]
        /\ vm' \in [Driver -> VM \cup {None}]
        /\ co' \in [Driver -> Resumable \cup {"none", "running", "parked", "finished", "broken"}]
    BY DEF Spawn, IInv, TypeOK, Resumable
  <2>2. queue' \subseteq {e \in Driver : driver'[e] = "task"}
    BY <1>1, <1>2 DEF IInv, TypeOK
  <2> QED BY <1>1, <1>7, <2>1, <2>2, FramesTyped DEF IInv, TypeOK
<1>9. Made'
  BY <1>1, <1>2 DEF IInv, Made
<1>10. Family'
  BY <1>1, <1>2, <1>3 DEF IInv, Family
<1>11. Shape'
  <2> SUFFICES ASSUME NEW u \in Worker, NEW k \in 1..Len(stack[u])
               PROVE  /\ k < Len(stack[u]) =>
                           /\ stack[u][k].pc \in {"polling", "dropping"}
                           /\ stack[u][k + 1].d = fut[stack[u][k].d]
                           /\ stack[u][k].pc = "dropping" => stack[u][k + 1].kind = "drop"
                      /\ k = 1 => \A p \in Driver : fut[p] # stack[u][k].d
                      /\ k = 1 /\ stack[u][k].kind = "poll" => driver'[stack[u][k].d] = "task"
                      /\ vm'[stack[u][k].d] = vm'[Root(u).d]
    BY <1>1, <1>6 DEF Shape
  <2>1. stack[u] # <<>>
    BY TopFacts DEF IInv
  <2>2. /\ vm'[stack[u][k].d] = vm[stack[u][k].d] /\ vm'[Root(u).d] = vm[Root(u).d]
        /\ driver'[stack[u][k].d] = driver[stack[u][k].d]
    BY <1>2, <1>4, <1>5, <2>1
  <2> QED BY <2>2 DEF IInv, Shape
<1>12. States'
  BY <1>1, <1>2, <1>4 DEF IInv, States, Steady
<1>13. Apart'
  BY <1>1, <1>2, <1>5, <1>6 DEF IInv, Apart
<1>14. Slots'
  BY <1>1, <1>2, <1>5, <1>6 DEF IInv, Slots
<1> QED BY <1>7, <1>8, <1>9, <1>10, <1>11, <1>12, <1>13, <1>14 DEF IInv

\* The event of a future happens, or nothing does.
LEMMA FireKeeps ==
  ASSUME IInv, UNCHANGED <<driver, doomed, vm, co, ops, fut, waker, slot, stack>>,
         ready' \in [Driver -> BOOLEAN], queue' \subseteq {d \in Driver : driver[d] = "task"}
  PROVE  IInv'
<1>1. \A u \in Worker : Root(u)' = Root(u) /\ RootWaker(u)' = RootWaker(u)
  BY DEF Root, RootWaker
<1>2. Typed' /\ Once' /\ Wakers' /\ Apart' /\ Slots'
  BY <1>1 DEF IInv, Typed, Once, Wakers, Apart, Slots
<1>3. Made' /\ Family'
  BY DEF IInv, Made, Family
<1>4. Shape' /\ States'
  BY <1>1 DEF IInv, Shape, States, Steady
<1>5. TypeOK'
  BY <1>2, FramesTyped DEF IInv, TypeOK
<1> QED BY <1>2, <1>3, <1>4, <1>5 DEF IInv

\* A worker takes up a task of a VM in which no other worker is.
LEMMA TakeKeeps ==
  ASSUME OneAtATime, IInv, NEW w \in Worker, NEW d \in Driver, NEW kind \in Either, Take(w, d, kind),
         driver' = IF kind = "poll" THEN driver ELSE [driver EXCEPT ![d] = "dropped"],
         doomed' \subseteq Driver, UNCHANGED <<vm, co, ops, fut, ready, waker, slot>>
  PROVE  IInv'
<1> DEFINE g == Frame(kind, d, d)
<1>1. /\ stack[w] = <<>> /\ driver[d] = "task" /\ stack' = [stack EXCEPT ![w] = <<g>>]
      /\ queue' = queue \ {d}
  BY DEF Take
<1>2. \A u \in Worker : \A k \in 1..Len(stack[u]) :
        stack[u][k].d \in Driver /\ stack[u][k].d # d /\ vm[stack[u][k].d] # vm[d]
  <2>1. \A u \in Worker : \A k \in 1..Len(stack[u]) :
          stack[u][k] \in InProgress(u) /\ stack[u][k] \in FrameRec
    BY TopFacts DEF IInv
  <2> QED BY <2>1 DEF Take, FrameRec
<1>3. /\ g \in FrameRec /\ g.kind = kind /\ g.d = d /\ g.waker = d /\ g.prev = None /\ g.pc = "begin"
  BY DEF FrameRec, Frame, PCs
<1> HIDE DEF g
<1>4. /\ Typed' /\ stack'[w] = <<g>> /\ \A u \in Worker : u # w => stack'[u] = stack[u]
  BY <1>1, <1>3 DEF IInv, Typed
<1>5. Len(stack'[w]) = 1 /\ stack'[w][1] = g /\ stack'[w] # <<>> /\ Root(w)' = g
  BY <1>4 DEF Root
<1>6. \A u \in Worker : u # w => Root(u)' = Root(u) /\ RootWaker(u)' = RootWaker(u)
  BY <1>4 DEF Root, RootWaker
<1>7. \A u \in Worker : stack[u] # <<>> => u # w /\ Root(u).d \in Driver /\ vm[Root(u).d] # vm[d]
  BY <1>1, <1>2, TopFacts DEF IInv, Root
<1>8. \A e \in Driver : driver'[e] = IF e = d /\ kind = "drop" THEN "dropped" ELSE driver[e]
  BY DEF IInv, TypeOK, Either
<1>9. \A u \in Worker : \A k \in 1..Len(stack'[u]) :
        \/ /\ u # w /\ k \in 1..Len(stack[u]) /\ stack'[u][k] = stack[u][k]
        \/ u = w /\ k = 1 /\ stack'[u][k] = g
  <2>1. \A k \in 1..Len(stack'[w]) : k = 1
    BY <1>5
  <2> QED BY <1>4, <1>5, <2>1
<1>10. \A p \in Driver : fut[p] # d
  BY <1>1 DEF IInv, Family
<1>11. vm[d] \in VM /\ slot[vm[d]] = None
  <2>1. vm[d] \in VM
    BY <1>1 DEF IInv, Made
  <2> QED BY <1>7, <2>1 DEF IInv, Slots
<1>12. Shape'
  <2> SUFFICES ASSUME NEW u \in Worker, NEW k \in 1..Len(stack'[u])
               PROVE  /\ k < Len(stack'[u]) =>
                           /\ stack'[u][k].pc \in {"polling", "dropping"}
                           /\ stack'[u][k + 1].d = fut[stack'[u][k].d]
                           /\ stack'[u][k].pc = "dropping" => stack'[u][k + 1].kind = "drop"
                      /\ k = 1 => \A p \in Driver : fut[p] # stack'[u][k].d
                      /\ k = 1 /\ stack'[u][k].kind = "poll" => driver'[stack'[u][k].d] = "task"
                      /\ vm[stack'[u][k].d] = vm[Root(u)'.d]
    BY DEF Shape
  <2>1. CASE u # w
    <3>1. stack'[u] = stack[u] /\ Root(u)' = Root(u) /\ k \in 1..Len(stack[u])
          /\ driver'[stack[u][k].d] = driver[stack[u][k].d]
      BY <1>2, <1>4, <1>6, <1>8, <2>1
    <3> QED BY <3>1 DEF IInv, Shape
  <2>2. CASE u = w
    BY <1>1, <1>3, <1>5, <1>8, <1>10, <2>2
  <2> QED BY <2>1, <2>2
<1>13. States'
  <2> SUFFICES ASSUME NEW u \in Worker, NEW k \in 1..Len(stack'[u]) PROVE Steady(stack[u][k])'
    BY DEF States
  <2>1. CASE u # w
    <3>1. stack'[u] = stack[u] /\ k \in 1..Len(stack[u])
          /\ driver'[stack[u][k].d] = driver[stack[u][k].d]
      BY <1>2, <1>4, <1>8, <2>1
    <3> QED BY <3>1 DEF IInv, States, Steady
  <2>2. CASE u = w
    BY <1>1, <1>3, <1>8, <1>9, <2>2 DEF Steady
  <2> QED BY <2>1, <2>2
<1>14. Once'
  <2> SUFFICES ASSUME NEW u \in Worker, NEW v \in Worker,
                      NEW k \in 1..Len(stack'[u]), NEW m \in 1..Len(stack'[v]),
                      stack'[u][k].d = stack'[v][m].d
               PROVE  u = v /\ k = m
    BY DEF Once
  <2>1. CASE u # w /\ v # w
    <3>1. /\ k \in 1..Len(stack[u]) /\ m \in 1..Len(stack[v]) /\ stack[u][k].d = stack[v][m].d
      BY <1>4, <2>1
    <3>2. Once
      BY DEF IInv
    <3> QED BY ONLY <3>1, <3>2, u \in Worker, v \in Worker DEF Once
  <2>2. CASE ~(u # w /\ v # w)
    <3>1. u = w \/ stack'[u][k].d # d
      BY <1>2, <1>9
    <3>2. v = w \/ stack'[v][m].d # d
      BY <1>2, <1>9
    <3> QED BY <1>3, <1>5, <1>9, <2>2, <3>1, <3>2
  <2> QED BY <2>1, <2>2
<1>15. Apart'
  <2> SUFFICES ASSUME NEW u \in Worker, NEW v \in Worker, u # v, stack'[u] # <<>>, stack'[v] # <<>>
               PROVE  vm[Root(u)'.d] # vm[Root(v)'.d]
    BY DEF Apart
  <2>1. CASE u # w /\ v # w
    BY <1>4, <1>6, <2>1 DEF IInv, Apart
  <2>2. CASE u = w
    BY <1>3, <1>4, <1>5, <1>6, <1>7, <2>2
  <2>3. CASE v = w
    BY <1>3, <1>4, <1>5, <1>6, <1>7, <2>3
  <2> QED BY <2>1, <2>2, <2>3
<1>16. Wakers'
  <2> SUFFICES ASSUME NEW u \in Worker, NEW k \in 1..Len(stack'[u]), stack'[u][k].kind = "poll"
               PROVE  /\ stack'[u][k].waker = RootWaker(u)'
                      /\ stack'[u][k].pc # "begin" =>
                           stack'[u][k].prev = IF k = 1 THEN None ELSE RootWaker(u)'
    BY DEF Wakers
  <2>1. CASE u # w
    <3>1. stack'[u] = stack[u] /\ k \in 1..Len(stack[u]) /\ RootWaker(u)' = RootWaker(u)
      BY <1>4, <1>6, <2>1
    <3> QED BY <3>1 DEF IInv, Wakers
  <2>2. CASE u = w
    BY <1>3, <1>5, <1>9, <2>2 DEF RootWaker
  <2> QED BY <2>1, <2>2
<1>17. Slots'
  <2>1. \A u \in Worker : stack'[u] # <<>> =>
          slot[vm[Root(u)'.d]] = IF Root(u)'.pc # "begin" THEN RootWaker(u)' ELSE None
    <3>1. slot[vm[Root(w)'.d]] = IF Root(w)'.pc # "begin" THEN RootWaker(w)' ELSE None
      BY <1>3, <1>5, <1>11
    <3>2. ASSUME NEW u \in Worker, u # w, stack'[u] # <<>>
          PROVE  slot[vm[Root(u)'.d]] = IF Root(u)'.pc # "begin" THEN RootWaker(u)' ELSE None
      BY <1>4, <1>6, <3>2 DEF IInv, Slots
    <3> QED BY <3>1, <3>2
  <2>2. \A x \in VM : (\A u \in Worker : stack'[u] # <<>> => vm[Root(u)'.d] # x) => slot[x] = None
    BY <1>4, <1>6, <1>7 DEF IInv, Slots
  <2> QED BY <2>1, <2>2 DEF Slots
<1>18. TypeOK'
  <2>1. driver' \in [Driver -> {"none", "task", "child", "dropped"}]
    BY DEF IInv, TypeOK, Either
  <2>2. queue' \subseteq {e \in Driver : driver'[e] = "task"}
    BY <1>1, <1>8 DEF IInv, TypeOK
  <2> QED BY <1>4, <2>1, <2>2, FramesTyped DEF IInv, TypeOK
<1>19. Made'
  BY <1>1, <1>8 DEF IInv, Made
<1>20. Family'
  <2>1. \A p \in Driver : fut[p] \in Driver => driver'[fut[p]] = driver[fut[p]]
    BY <1>8, <1>10
  <2>2. \A e \in Driver : driver'[e] = "child" => driver[e] = "child"
    BY <1>8
  <2> QED BY <2>1, <2>2 DEF IInv, Family
<1> QED BY <1>4, <1>12, <1>13, <1>14, <1>15, <1>16, <1>17, <1>18, <1>19, <1>20 DEF IInv

\* The stack without its top.
LEMMA BelowFacts ==
  ASSUME Typed, NEW w \in Worker, stack[w] # <<>>
  PROVE  /\ Below(w) \in Seq(FrameRec) /\ Len(Below(w)) = Len(stack[w]) - 1
         /\ \A k \in 1..(Len(stack[w]) - 1) : Below(w)[k] = stack[w][k]
         /\ Below(w) = <<>> <=> Len(stack[w]) = 1
         /\ Len(stack[w]) # 1 => /\ Len(stack[w]) - 1 \in 1..Len(stack[w])
                                 /\ Len(stack[w]) - 1 \in 1..(Len(stack[w]) - 1)
                                 /\ Last(Below(w)) = stack[w][Len(stack[w]) - 1]
<1> DEFINE n == Len(stack[w])
<1>1. stack[w] \in Seq(FrameRec) /\ n \in Nat /\ n > 0
  BY TopFacts
<1>2. Below(w) = SubSeq(stack[w], 1, n - 1)
  BY DEF Below, Front
<1>3. CASE n = 1
  <2>1. Below(w) = <<>>
    BY <1>1, <1>2, <1>3
  <2>2. <<>> \in Seq(FrameRec) /\ Len(<<>>) = 0
    OBVIOUS
  <2> QED BY <1>3, <2>1, <2>2
<1>4. CASE n # 1
  <2>1. n - 1 \in 1..n /\ n - 1 \in 1..(n - 1) /\ n - 1 \in Nat
    BY <1>1, <1>4, Longer
  <2>2. Below(w) \in Seq(FrameRec) /\ Len(Below(w)) = n - 1
        /\ \A k \in 1..(n - 1) : Below(w)[k] = stack[w][k]
    BY <1>1, <1>2, <2>1
  <2>3. Below(w) # <<>>
    BY <2>1, <2>2
  <2> QED BY <1>4, <2>1, <2>2, <2>3 DEF Last
<1> QED BY <1>3, <1>4

\* The frame below goes on.
LEMMA ContinueEdits ==
  ASSUME Typed, NEW w \in Worker, stack[w] # <<>>, Len(stack[w]) # 1, NEW pc \in PCs, Continue(w, pc)
  PROVE  /\ Typed' /\ Len(stack'[w]) = Len(stack[w]) - 1
         /\ \A u \in Worker : u # w => stack'[u] = stack[u]
         /\ \A k \in 1..(Len(stack[w]) - 1) :
              /\ stack'[w][k].d = stack[w][k].d /\ stack'[w][k].kind = stack[w][k].kind
              /\ stack'[w][k].waker = stack[w][k].waker /\ stack'[w][k].prev = stack[w][k].prev
              /\ stack'[w][k].pc = IF k = Len(stack[w]) - 1 THEN pc ELSE stack[w][k].pc
<1> DEFINE b == Below(w)
           m == Len(b)
           e == [b[m] EXCEPT !.pc = pc]
           s == [b EXCEPT ![m] = e]
<1>1. /\ b \in Seq(FrameRec) /\ m = Len(stack[w]) - 1 /\ m \in Nat /\ m \in 1..m
      /\ \A k \in 1..m : b[k] = stack[w][k]
  BY BelowFacts
<1>2. stack' = [stack EXCEPT ![w] = s]
  BY DEF Continue
<1> HIDE DEF b
<1>3. /\ e \in FrameRec /\ e.pc = pc /\ e.d = b[m].d /\ e.kind = b[m].kind
      /\ e.waker = b[m].waker /\ e.prev = b[m].prev
  <2>1. b[m] \in FrameRec
    BY <1>1
  <2> QED BY <2>1 DEF FrameRec
<1>4. s \in Seq(FrameRec) /\ Len(s) = m /\ \A k \in 1..m : s[k] = IF k = m THEN e ELSE b[k]
  BY <1>1, <1>3
<1> HIDE DEF e, s
<1>5. stack'[w] = s /\ \A u \in Worker : u # w => stack'[u] = stack[u]
  BY <1>2 DEF Typed
<1>6. Typed'
  BY <1>2, <1>4 DEF Typed
<1>7. ASSUME NEW k \in 1..m
      PROVE  /\ stack'[w][k].d = stack[w][k].d /\ stack'[w][k].kind = stack[w][k].kind
             /\ stack'[w][k].waker = stack[w][k].waker /\ stack'[w][k].prev = stack[w][k].prev
             /\ stack'[w][k].pc = IF k = m THEN pc ELSE stack[w][k].pc
  BY <1>1, <1>3, <1>4, <1>5
<1> HIDE DEF m
<1> QED BY <1>1, <1>4, <1>5, <1>6, <1>7

\* The end of the poll or of the drop of a task.
LEMMA FinishKeeps ==
  ASSUME IInv, NEW w \in Worker, Return(w), Len(stack[w]) = 1
  PROVE  IInv'
<1> DEFINE f == Top(w)
           d == f.d
           v == vm[d]
<1>1. /\ stack[w] # <<>> /\ f.pc = "ended"
      /\ slot' = IF f.kind = "poll" THEN [slot EXCEPT ![v] = f.prev] ELSE slot
      /\ driver' = IF Complete(w) THEN [driver EXCEPT ![d] = "dropped"] ELSE driver
      /\ queue' = IF Complete(w) THEN queue \ {d} ELSE queue
      /\ UNCHANGED <<vm, ops, ready, waker, doomed>>
  BY DEF Return, At, Restored
<1>2. stack' = [stack EXCEPT ![w] = <<>>] /\ UNCHANGED <<co, fut>>
  <2>1. Below(w) = <<>>
    BY <1>1, BelowFacts DEF IInv
  <2> QED BY <2>1 DEF Return
<1>3. /\ f = stack[w][1] /\ f = Root(w) /\ f \in FrameRec /\ d \in Driver /\ Steady(f) /\ v \in VM
      /\ 1 \in 1..Len(stack[w])
  BY <1>1, TopDriver DEF Root
<1>4. Typed' /\ stack'[w] = <<>> /\ \A u \in Worker : u # w => stack'[u] = stack[u]
  BY <1>2 DEF IInv, Typed
<1>5. \A u \in Worker : u # w => Root(u)' = Root(u) /\ RootWaker(u)' = RootWaker(u)
  BY <1>4 DEF Root, RootWaker
<1>6. \A e \in Driver : driver'[e] = driver[e] \/ (e = d /\ driver'[e] = "dropped" /\ Complete(w))
  BY <1>1 DEF IInv, TypeOK
<1>7. \A u \in Worker : \A k \in 1..Len(stack[u]) : u # w =>
        /\ stack[u][k].d \in Driver /\ driver'[stack[u][k].d] = driver[stack[u][k].d]
  <2>1. \A u \in Worker : \A k \in 1..Len(stack[u]) : stack[u][k].d \in Driver
    BY TopFacts DEF FrameRec, IInv
  <2>2. \A u \in Worker : \A k \in 1..Len(stack[u]) : u # w => stack[u][k].d # d
    <3> SUFFICES ASSUME NEW u \in Worker, NEW k \in 1..Len(stack[u]), stack[u][k].d = stack[w][1].d
                 PROVE  u = w
      BY <1>3
    <3>1. Once
      BY DEF IInv
    <3> QED BY <1>3, <3>1 DEF Once
  <2> QED BY <1>6, <2>1, <2>2
<1>8. \A u \in Worker : \A k \in 1..Len(stack'[u]) :
        u # w /\ k \in 1..Len(stack[u]) /\ stack'[u][k] = stack[u][k]
  <2>1. Len(stack'[w]) = 0
    BY <1>4
  <2> QED BY <1>4, <2>1
<1>9. \A u \in Worker : u # w /\ stack[u] # <<>> => vm[Root(u).d] # v
  BY <1>1, <1>3 DEF IInv, Apart
<1>10. \A x \in VM : slot'[x] = IF x = v THEN None ELSE slot[x]
  <2>1. slot[v] = RootWaker(w)
    BY <1>1, <1>3 DEF IInv, Slots
  <2>2. CASE f.kind = "poll"
    <3>1. f.prev = None
      BY <1>1, <1>3, <2>2 DEF IInv, Wakers
    <3> QED BY <1>1, <2>2, <3>1 DEF IInv, TypeOK
  <2>3. CASE f.kind # "poll"
    BY <1>1, <1>3, <2>1, <2>3 DEF RootWaker
  <2> QED BY <2>2, <2>3
<1>11. Shape'
  BY <1>2, <1>1, <1>4, <1>5, <1>7, <1>8 DEF IInv, Shape
<1>12. States'
  BY <1>2, <1>7, <1>8 DEF IInv, States, Steady
<1>13. Once'
  <2> SUFFICES ASSUME NEW u \in Worker, NEW x \in Worker,
                      NEW k \in 1..Len(stack'[u]), NEW m \in 1..Len(stack'[x]),
                      stack'[u][k].d = stack'[x][m].d
               PROVE  u = x /\ k = m
    BY DEF Once
  <2>1. /\ k \in 1..Len(stack[u]) /\ m \in 1..Len(stack[x]) /\ stack[u][k].d = stack[x][m].d
    BY <1>8
  <2>2. Once
    BY DEF IInv
  <2> QED BY ONLY <2>1, <2>2, u \in Worker, x \in Worker DEF Once
<1>14. Apart'
  BY <1>1, <1>4, <1>5 DEF IInv, Apart
<1>15. Wakers'
  BY <1>5, <1>8 DEF IInv, Wakers
<1>16. Slots'
  <2>1. ASSUME NEW u \in Worker, stack'[u] # <<>>
        PROVE  slot'[vm[Root(u)'.d]] = IF Root(u)'.pc # "begin" THEN RootWaker(u)' ELSE None
    <3>1. u # w /\ stack[u] # <<>>
      BY <1>4, <2>1
    <3>2. slot'[vm[Root(u).d]] = slot[vm[Root(u).d]]
      BY <1>9, <1>10, <3>1, RootVM
    <3> QED BY <1>5, <3>1, <3>2 DEF IInv, Slots
  <2>2. \A x \in VM : (\A u \in Worker : stack'[u] # <<>> => vm[Root(u)'.d] # x) => slot'[x] = None
    BY <1>3, <1>4, <1>5, <1>10 DEF IInv, Slots
  <2> QED BY <1>1, <2>1, <2>2 DEF Slots
<1>17. TypeOK'
  <2>1. /\ driver' \in [Driver -> {"none", "task", "child", "dropped"}]
        /\ slot' \in [VM -> Driver \cup {None}]
    BY <1>1, <1>3 DEF IInv, TypeOK, FrameRec
  <2>2. queue' \subseteq {e \in Driver : driver'[e] = "task"}
    BY <1>1, <1>6 DEF IInv, TypeOK
  <2> QED BY <1>1, <1>2, <1>4, <2>1, <2>2, FramesTyped DEF IInv, TypeOK
<1>18. Made'
  BY <1>1, <1>2, <1>6, <1>3 DEF IInv, Made, Steady
<1>19. Family'
  <2>1. \A p \in Driver : fut[p] # d
    BY <1>3 DEF IInv, Shape
  <2>2. \A e \in Driver : driver'[e] = "child" => driver[e] = "child"
    BY <1>6
  <2> QED BY <1>1, <1>2, <1>6, <2>1, <2>2 DEF IInv, Family
<1> QED BY <1>4, <1>11, <1>12, <1>13, <1>14, <1>15, <1>16, <1>17, <1>18, <1>19 DEF IInv

\* The end of a nested poll or drop: the parent's poller goes on.
LEMMA PopKeeps ==
  ASSUME IInv, NEW w \in Worker, Return(w), Len(stack[w]) # 1
  PROVE  IInv'
<1> DEFINE n == Len(stack[w])
           m == n - 1
           f == Top(w)
           d == f.d
           p == stack[w][m]
           a == p.d
           v == vm[d]
<1>1. /\ stack[w] # <<>> /\ f.pc = "ended"
      /\ slot' = IF f.kind = "poll" THEN [slot EXCEPT ![v] = f.prev] ELSE slot
      /\ driver' = IF Complete(w) THEN [driver EXCEPT ![d] = "dropped"] ELSE driver
      /\ queue' = IF Complete(w) THEN queue \ {d} ELSE queue
      /\ UNCHANGED <<vm, ops, ready, waker, doomed>>
  BY DEF Return, At, Restored
<1>2. /\ f = stack[w][n] /\ f \in FrameRec /\ d \in Driver /\ Steady(f) /\ v \in VM
      /\ n \in Nat /\ n > 0 /\ n \in 1..n
  BY <1>1, TopDriver, TopFacts DEF IInv
<1>3. /\ m \in Nat /\ m \in 1..n /\ m \in 1..m /\ m < n /\ m + 1 = n /\ 1 \in 1..m /\ 1 \in 1..n
  BY <1>2, Longer
<1>4. \A k \in 1..m : k \in 1..n /\ k # n
  BY <1>2
<1>5. /\ p \in FrameRec /\ a \in Driver /\ Steady(p)
      /\ p.pc \in {"polling", "dropping"} /\ d = fut[a] /\ (p.pc = "dropping" => f.kind = "drop")
      /\ Below(w) # <<>> /\ Last(Below(w)) = p
  <2>1. p \in FrameRec /\ Steady(p)
    BY <1>1, <1>3, TopFacts DEF IInv, States
  <2>2. /\ p.pc \in {"polling", "dropping"} /\ stack[w][m + 1].d = fut[a]
        /\ (p.pc = "dropping" => stack[w][m + 1].kind = "drop")
    BY <1>3 DEF IInv, Shape
  <2>3. Below(w) # <<>> /\ Last(Below(w)) = p
    BY <1>1, BelowFacts DEF IInv
  <2> QED BY <1>2, <1>3, <2>1, <2>2, <2>3 DEF FrameRec
<1>6. slot' = slot
  <2>1. slot[v] = RootWaker(w)
    <3>1. vm[d] = vm[Root(w).d]
      BY <1>2 DEF IInv, Shape
    <3>2. Root(w).pc # "begin"
      BY <1>1, RootBusy DEF IInv
    <3> QED BY <1>1, <3>1, <3>2 DEF IInv, Slots
  <2>2. f.kind = "poll" => f.prev = RootWaker(w)
    BY <1>1, <1>2 DEF IInv, Wakers
  <2> QED BY <1>1, <1>2, <2>1, <2>2 DEF IInv, TypeOK
<1>7. \A e \in Driver : driver'[e] = driver[e] \/ (e = d /\ driver'[e] = "dropped" /\ Complete(w))
  BY <1>1 DEF IInv, TypeOK
<1>8. f.kind = "drop" \/ Complete(w) => driver'[d] = "dropped"
  BY <1>1, <1>2 DEF Steady, IInv, TypeOK
<1>9. driver[d] \in {"child", "dropped"}
  BY <1>2, <1>5 DEF IInv, Family
<1>10. \E pc \in {"running", "ended"} :
         /\ Continue(w, pc)
         /\ \A e \in Driver : e # a => fut'[e] = fut[e] /\ co'[e] = co[e]
         /\ fut'[a] = fut[a] \/ (fut'[a] = None /\ driver'[d] = "dropped")
         /\ co'[a] \in {"running", "awaiting", "broken", "parked"}
         /\ co'[a] = "parked" => fut'[a] = None /\ driver[a] = "dropped"
         /\ pc = "running" => co'[a] = "running" /\ fut'[a] = None
         /\ fut' \in [Driver -> Futures \cup Driver \cup {None}]
         /\ co' \in [Driver -> Resumable \cup {"none", "running", "parked", "finished", "broken"}]
  <2>1. \/ /\ p.pc = "polling" /\ (f.kind = "drop" \/ Complete(w))
           /\ fut' = [fut EXCEPT ![a] = None]
           /\ Continue(w, "running")
           /\ UNCHANGED co
        \/ /\ p.pc = "polling" /\ f.kind = "poll" /\ ~Complete(w)
           /\ \E where \in {"awaiting", "broken"} : co' = [co EXCEPT ![a] = where]
           /\ Continue(w, "ended")
           /\ UNCHANGED fut
        \/ /\ p.pc = "dropping"
           /\ fut' = [fut EXCEPT ![a] = None]
           /\ \E where \in {"parked", "broken"} : co' = [co EXCEPT ![a] = where]
           /\ Continue(w, "ended")
    BY <1>5 DEF Return, Parks
  <2>2. TypeOK
    BY DEF IInv
  <2>3. CASE /\ p.pc = "polling" /\ (f.kind = "drop" \/ Complete(w))
             /\ fut' = [fut EXCEPT ![a] = None] /\ Continue(w, "running") /\ UNCHANGED co
    BY <1>5, <1>8, <2>2, <2>3 DEF Steady, TypeOK
  <2>4. CASE /\ p.pc = "polling" /\ f.kind = "poll" /\ ~Complete(w)
             /\ \E where \in {"awaiting", "broken"} : co' = [co EXCEPT ![a] = where]
             /\ Continue(w, "ended") /\ UNCHANGED fut
    BY <1>5, <2>2, <2>4 DEF TypeOK, Resumable
  <2>5. CASE /\ p.pc = "dropping" /\ fut' = [fut EXCEPT ![a] = None]
             /\ \E where \in {"parked", "broken"} : co' = [co EXCEPT ![a] = where]
             /\ Continue(w, "ended")
    BY <1>5, <1>8, <2>2, <2>5 DEF Steady, TypeOK
  <2> QED BY <2>1, <2>3, <2>4, <2>5
<1>11. PICK pc \in {"running", "ended"} :
         /\ Continue(w, pc)
         /\ \A e \in Driver : e # a => fut'[e] = fut[e] /\ co'[e] = co[e]
         /\ fut'[a] = fut[a] \/ (fut'[a] = None /\ driver'[d] = "dropped")
         /\ co'[a] \in {"running", "awaiting", "broken", "parked"}
         /\ co'[a] = "parked" => fut'[a] = None /\ driver[a] = "dropped"
         /\ pc = "running" => co'[a] = "running" /\ fut'[a] = None
         /\ fut' \in [Driver -> Futures \cup Driver \cup {None}]
         /\ co' \in [Driver -> Resumable \cup {"none", "running", "parked", "finished", "broken"}]
  BY <1>10
<1>12. /\ Typed' /\ Len(stack'[w]) = m
       /\ \A u \in Worker : u # w => stack'[u] = stack[u]
       /\ \A k \in 1..m :
            /\ stack'[w][k].d = stack[w][k].d /\ stack'[w][k].kind = stack[w][k].kind
            /\ stack'[w][k].waker = stack[w][k].waker /\ stack'[w][k].prev = stack[w][k].prev
            /\ stack'[w][k].pc = IF k = m THEN pc ELSE stack[w][k].pc
  <2>1. pc \in PCs /\ Continue(w, pc) /\ Typed
    BY <1>11 DEF PCs, IInv
  <2> QED BY <1>1, <2>1, ContinueEdits
<1>13. \A u \in Worker : \A k \in 1..Len(stack'[u]) :
         /\ k \in 1..Len(stack[u])
         /\ stack'[u][k].d = stack[u][k].d /\ stack'[u][k].kind = stack[u][k].kind
         /\ stack'[u][k].waker = stack[u][k].waker /\ stack'[u][k].prev = stack[u][k].prev
         /\ stack'[u][k].pc = IF u = w /\ k = m THEN pc ELSE stack[u][k].pc
  BY <1>4, <1>12
<1>14. \A u \in Worker : \A k \in 1..Len(stack'[u]) :
         /\ stack[u][k].d \in Driver /\ stack[u][k].d # d
         /\ driver'[stack[u][k].d] = driver[stack[u][k].d]
         /\ u # w \/ k # m => stack[u][k].d # a
  <2> SUFFICES ASSUME NEW u \in Worker, NEW k \in 1..Len(stack'[u])
               PROVE  /\ stack[u][k].d \in Driver /\ stack[u][k].d # d
                      /\ u # w \/ k # m => stack[u][k].d # a
    BY <1>7
  <2>1. k \in 1..Len(stack[u]) /\ (u = w => k # n)
    BY <1>4, <1>12, <1>13
  <2>2. stack[u][k].d \in Driver
    BY <2>1, TopFacts DEF FrameRec, IInv
  <2>3. Once
    BY DEF IInv
  <2>4. stack[u][k].d # stack[w][n].d
    BY ONLY <1>2, <2>1, <2>3, u \in Worker, w \in Worker DEF Once
  <2> HIDE DEF m
  <2>5. u # w \/ k # m => stack[u][k].d # stack[w][m].d
    BY ONLY <1>3, <2>1, <2>3, u \in Worker, w \in Worker DEF Once
  <2> QED BY <1>2, <2>2, <2>4, <2>5
<1>15. \A u \in Worker : stack'[u] # <<>> <=> stack[u] # <<>>
  <2>1. stack'[w] # <<>>
    BY <1>3, <1>12 DEF Typed
  <2> QED BY <1>1, <1>12, <2>1
<1>16. \A u \in Worker : stack[u] # <<>> =>
         /\ Root(u)'.d = Root(u).d /\ Root(u)'.kind = Root(u).kind /\ RootWaker(u)' = RootWaker(u)
         /\ Root(u)'.pc # "begin" <=> Root(u).pc # "begin"
  <2>1. CASE m = 1
    BY <1>3, <1>5, <1>12, <2>1 DEF Root, RootWaker
  <2>2. CASE m # 1
    BY <1>3, <1>12, <2>2 DEF Root, RootWaker
  <2> QED BY <2>1, <2>2
<1> HIDE DEF m
<1>17. Shape'
  <2> SUFFICES ASSUME NEW u \in Worker, NEW k \in 1..Len(stack'[u])
               PROVE  /\ k < Len(stack'[u]) =>
                           /\ stack'[u][k].pc \in {"polling", "dropping"}
                           /\ stack'[u][k + 1].d = fut'[stack'[u][k].d]
                           /\ stack'[u][k].pc = "dropping" => stack'[u][k + 1].kind = "drop"
                      /\ k = 1 => \A x \in Driver : fut'[x] # stack'[u][k].d
                      /\ k = 1 /\ stack'[u][k].kind = "poll" => driver'[stack'[u][k].d] = "task"
                      /\ vm[stack'[u][k].d] = vm[Root(u)'.d]
    BY <1>1 DEF Shape
  <2>1. /\ k \in 1..Len(stack[u]) /\ stack'[u][k].d = stack[u][k].d
        /\ stack'[u][k].kind = stack[u][k].kind /\ stack[u][k].d \in Driver
        /\ driver'[stack[u][k].d] = driver[stack[u][k].d]
    BY <1>13, <1>14
  <2>2. stack[u] # <<>> /\ Root(u)'.d = Root(u).d
    BY <1>16, <2>1, TopFacts DEF IInv
  <2>3. ASSUME k < Len(stack'[u])
        PROVE  /\ stack'[u][k].pc \in {"polling", "dropping"}
               /\ stack'[u][k + 1].d = fut'[stack'[u][k].d]
               /\ stack'[u][k].pc = "dropping" => stack'[u][k + 1].kind = "drop"
    <3>1. (u # w \/ k # m) /\ k + 1 \in 1..Len(stack'[u]) /\ Len(stack[u]) \in Nat /\ k < Len(stack[u])
      <4>1. Len(stack'[u]) \in Nat /\ Len(stack[u]) \in Nat
        BY <1>12 DEF Typed, IInv
      <4>2. Len(stack'[u]) \in 1..Len(stack[u])
        <5>1. Len(stack'[u]) \in 1..Len(stack'[u])
          BY <4>1
        <5> QED BY <1>13, <5>1
      <4> QED BY <1>12, <2>3, <4>1, <4>2
    <3>2. /\ stack[u][k].pc \in {"polling", "dropping"} /\ stack[u][k + 1].d = fut[stack[u][k].d]
          /\ stack[u][k].pc = "dropping" => stack[u][k + 1].kind = "drop"
      BY <2>1, <3>1 DEF IInv, Shape
    <3>3. fut'[stack[u][k].d] = fut[stack[u][k].d]
      BY <1>11, <1>14, <2>1, <3>1
    <3> QED BY <1>13, <3>1, <3>2, <3>3
  <2>4. k = 1 => \A x \in Driver : fut'[x] # stack'[u][k].d
    <3>1. k = 1 => \A x \in Driver : fut[x] # stack[u][k].d
      BY <2>1 DEF IInv, Shape
    <3>2. \A x \in Driver : fut'[x] = fut[x] \/ fut'[x] = None
      BY <1>11
    <3> QED BY <2>1, <3>1, <3>2, AsyncAssumption
  <2>5. /\ k = 1 /\ stack[u][k].kind = "poll" => driver[stack[u][k].d] = "task"
        /\ vm[stack[u][k].d] = vm[Root(u).d]
    BY <2>1 DEF IInv, Shape
  <2> QED BY <2>1, <2>2, <2>3, <2>4, <2>5
<1>18. States'
  <2> SUFFICES ASSUME NEW u \in Worker, NEW k \in 1..Len(stack'[u]) PROVE Steady(stack[u][k])'
    BY DEF States
  <2>1. /\ k \in 1..Len(stack[u]) /\ stack'[u][k].d = stack[u][k].d
        /\ stack'[u][k].kind = stack[u][k].kind /\ stack[u][k].d \in Driver
        /\ driver'[stack[u][k].d] = driver[stack[u][k].d]
    BY <1>13, <1>14
  <2>2. CASE u = w /\ k = m
    <3>1. stack'[u][k].pc = pc /\ stack'[u][k].d = a /\ stack'[u][k].kind = p.kind
      BY <1>13, <2>1, <2>2
    <3>2. driver'[a] = driver[a]
      BY <2>1, <2>2
    <3> QED BY <1>5, <1>11, <3>1, <3>2 DEF Steady
  <2>3. CASE u # w \/ k # m
    <3>1. /\ stack'[u][k].pc = stack[u][k].pc
          /\ fut'[stack[u][k].d] = fut[stack[u][k].d] /\ co'[stack[u][k].d] = co[stack[u][k].d]
      BY <1>11, <1>13, <1>14, <2>1, <2>3
    <3> QED BY <2>1, <3>1 DEF IInv, States, Steady
  <2> QED BY <2>2, <2>3
<1>19. Once'
  <2> SUFFICES ASSUME NEW u \in Worker, NEW x \in Worker,
                      NEW k \in 1..Len(stack'[u]), NEW j \in 1..Len(stack'[x]),
                      stack'[u][k].d = stack'[x][j].d
               PROVE  u = x /\ k = j
    BY DEF Once
  <2>1. /\ k \in 1..Len(stack[u]) /\ j \in 1..Len(stack[x]) /\ stack[u][k].d = stack[x][j].d
    BY <1>13
  <2>2. Once
    BY DEF IInv
  <2> QED BY ONLY <2>1, <2>2, u \in Worker, x \in Worker DEF Once
<1>20. Apart'
  BY <1>1, <1>15, <1>16 DEF IInv, Apart
<1>21. Wakers'
  <2> SUFFICES ASSUME NEW u \in Worker, NEW k \in 1..Len(stack'[u]), stack'[u][k].kind = "poll"
               PROVE  /\ stack'[u][k].waker = RootWaker(u)'
                      /\ stack'[u][k].pc # "begin" =>
                           stack'[u][k].prev = IF k = 1 THEN None ELSE RootWaker(u)'
    BY DEF Wakers
  <2>1. /\ k \in 1..Len(stack[u]) /\ stack'[u][k].kind = stack[u][k].kind
        /\ stack'[u][k].waker = stack[u][k].waker /\ stack'[u][k].prev = stack[u][k].prev
        /\ stack'[u][k].pc # "begin" => stack[u][k].pc # "begin"
    BY <1>5, <1>13
  <2>2. stack[u] # <<>> /\ RootWaker(u)' = RootWaker(u)
    BY <1>16, <2>1, TopFacts DEF IInv
  <2> QED BY <2>1, <2>2 DEF IInv, Wakers
<1>22. Slots'
  BY <1>1, <1>6, <1>15, <1>16 DEF IInv, Slots
<1>23. TypeOK'
  <2>1. driver' \in [Driver -> {"none", "task", "child", "dropped"}]
    BY <1>1 DEF IInv, TypeOK
  <2>2. queue' \subseteq {e \in Driver : driver'[e] = "task"}
    BY <1>1, <1>7 DEF IInv, TypeOK
  <2> QED BY <1>1, <1>6, <1>11, <1>12, <2>1, <2>2, FramesTyped DEF IInv, TypeOK
<1>24. Made'
  <2>1. \A e \in Driver : driver'[e] = "none" <=> driver[e] = "none"
    BY <1>7, <1>9
  <2>2. driver[a] # "none"
    BY <1>5 DEF Steady
  <2>3. ASSUME NEW e \in Driver
        PROVE  /\ driver'[e] = "none" => co'[e] = "none"
               /\ driver'[e] # "none" => vm[e] \in VM
               /\ co'[e] \in {"none", "fresh", "yielded", "parked", "finished"} => fut'[e] = None
               /\ co'[e] = "parked" => driver'[e] = "dropped"
    <3>1. CASE e = a
      BY <1>7, <1>11, <2>1, <2>2, <3>1 DEF IInv, Made
    <3>2. CASE e # a
      BY <1>7, <1>11, <2>1, <3>2 DEF IInv, Made
    <3> QED BY <3>1, <3>2
  <2> QED BY <1>1, <2>3 DEF Made
<1>25. Family'
  <2>1. \A x \in Driver : fut'[x] \in Driver => fut'[x] = fut[x]
    BY <1>11, AsyncAssumption
  <2>2. \A x \in Driver : fut'[x] \in Driver =>
          driver'[fut'[x]] \in {"child", "dropped"} /\ vm[fut'[x]] = vm[x]
    BY <1>7, <2>1 DEF IInv, Family
  <2>3. \A x, y \in Driver : fut'[x] \in Driver /\ fut'[x] = fut'[y] => x = y
    BY <2>1 DEF IInv, Family
  <2>4. ASSUME NEW e \in Driver, driver'[e] = "child" PROVE \E x \in Driver : fut'[x] = e
    <3>1. PICK x \in Driver : fut[x] = e
      BY <1>7, <2>4 DEF IInv, Family
    <3>2. CASE x # a
      BY <1>11, <3>1, <3>2
    <3>3. CASE x = a
      BY <1>5, <1>11, <2>4, <3>1, <3>3
    <3> QED BY <3>2, <3>3
  <2> QED BY <1>1, <2>2, <2>3, <2>4 DEF Family
<1> QED BY <1>12, <1>17, <1>18, <1>19, <1>20, <1>21, <1>22, <1>23, <1>24, <1>25 DEF IInv

\* Initially nothing has been made and no worker is in a poll.
LEMMA InitKeeps == Init => IInv
<1> SUFFICES ASSUME Init PROVE IInv
  OBVIOUS
<1>1. Typed /\ \A w \in Worker : stack[w] = <<>> /\ Len(stack[w]) = 0
  BY DEF Init, Typed
<1>2. \A w \in Worker : InProgress(w) = {}
  BY DEF Init, InProgress
<1>3. TypeOK
  BY <1>2, AsyncAssumption DEF Init, TypeOK
<1>4. Made /\ Family
  BY AsyncAssumption DEF Init, Made, Family
<1>5. Shape /\ States /\ Once /\ Wakers
  BY <1>1 DEF Shape, States, Once, Wakers
<1>6. Apart /\ Slots
  BY <1>1 DEF Init, Apart, Slots
<1> QED BY <1>1, <1>3, <1>4, <1>5, <1>6 DEF IInv

\* Every step keeps the inductive invariant.
LEMMA NextKeeps == ASSUME OneAtATime, IInv, [Next]_vars PROVE IInv'
<1>1. ASSUME NEW d \in Driver, NEW v \in VM, Spawn(d, v) PROVE IInv'
  BY <1>1, SpawnKeeps
<1>2. ASSUME NEW w \in Worker, NEW d \in Driver, Schedule(w, d) PROVE IInv'
  <2>1. /\ Take(w, d, "poll") /\ driver' = IF "poll" = "poll" THEN driver ELSE [driver EXCEPT ![d] = "dropped"]
        /\ UNCHANGED <<vm, co, ops, fut, ready, waker, slot>> /\ "poll" \in Either
        /\ doomed' \subseteq Driver
    BY <1>2 DEF Schedule, lua, Either, IInv, TypeOK
  <2> QED BY <2>1, TakeKeeps
<1>3. ASSUME NEW w \in Worker, NEW d \in Driver, Cancel(w, d) PROVE IInv'
  <2>1. /\ Take(w, d, "drop") /\ driver' = IF "drop" = "poll" THEN driver ELSE [driver EXCEPT ![d] = "dropped"]
        /\ UNCHANGED <<vm, co, ops, fut, ready, waker, slot>> /\ "drop" \in Either
        /\ doomed' \subseteq Driver
    BY <1>3 DEF Cancel, Drops, Either, IInv, TypeOK
  <2> QED BY <2>1, TakeKeeps
<1>4. ASSUME NEW d \in Driver, Fire(d) PROVE IInv'
  <2>1. ready' \in [Driver -> BOOLEAN] /\ TypeOK
    BY <1>4 DEF Fire, IInv, TypeOK
  <2>2. queue' \subseteq {e \in Driver : driver[e] = "task"}
    BY <1>4, <2>1, WokenTasks DEF Fire
  <2> QED BY <1>4, <2>1, <2>2, FireKeeps DEF Fire
<1>5. ASSUME NEW w \in Worker, Work(w) PROVE IInv'
  <2>1. CASE set_current_waker(w)
    BY <2>1, SetKeeps
  <2>2. CASE resume_for_async(w)
    BY <2>2, ResumeKeeps
  <2>3. CASE terminate_async(w)
    BY <2>3, TerminateKeeps, NestKeeps
  <2>4. CASE LuaEnds(w) \/ LuaYields(w) \/ Interrupted(w) \/ poll_io(w) \/ poll_values(w)
    BY <2>4, LuaKeeps
  <2>5. CASE \E k \in {"io", "values"} \cup Driver : get_future(w, k)
    BY <2>5, FutureKeeps
  <2>6. CASE poll_child(w) \/ drop_child(w)
    BY <2>6, NestKeeps
  <2>7. CASE Return(w)
    BY <2>7, FinishKeeps, PopKeeps
  <2> QED BY <1>5, <2>1, <2>2, <2>3, <2>4, <2>5, <2>6, <2>7 DEF Work
<1>6. ASSUME UNCHANGED vars PROVE IInv'
  <2>1. ready' \in [Driver -> BOOLEAN] /\ queue' \subseteq {e \in Driver : driver[e] = "task"}
    BY <1>6 DEF vars, lua, IInv, TypeOK
  <2> QED BY <1>6, <2>1, FireKeeps DEF vars, lua
<1> QED BY <1>1, <1>2, <1>3, <1>4, <1>5, <1>6 DEF Next

\* The inductive invariant holds always.
THEOREM Inductive == ASSUME OneAtATime PROVE Spec => []IInv
<1>1. Init => IInv
  BY InitKeeps
<1>2. IInv /\ [Next]_vars => IInv'
  BY NextKeeps
<1> QED BY <1>1, <1>2, PTL DEF Spec

\* A worker's frames are well formed, only tasks are woken, and all the state of
\* AsyncThread and AsyncVmState has its type.
THEOREM TypeCorrect == ASSUME OneAtATime PROVE Spec => []TypeOK
<1>1. IInv => TypeOK
  BY DEF IInv
<1> QED BY <1>1, Inductive, PTL

\* Among the indices of a stack there is a largest one.
LEMMA Largest ==
  ASSUME NEW n \in Nat, NEW S, S \subseteq 1..n, S # {}
  PROVE  \E i \in S : \A j \in S : j <= i
<1> DEFINE T == {n - i : i \in S}
<1>1. T \subseteq Nat /\ T # {}
  <2>1. \A i \in S : i \in 1..n /\ n - i \in Nat
    OBVIOUS
  <2>2. PICK i \in S : TRUE
    OBVIOUS
  <2>3. n - i \in T
    BY <2>2
  <2> QED BY <2>1, <2>3
<1> DEFINE R == OpToRel(<, Nat)
<1>2. IsWellFoundedOn(R, Nat)
  BY NatLessThanWellFounded
<1> HIDE DEF T, R
<1>3. PICK x \in T : \A y \in T : ~(<<y, x>> \in R)
  BY <1>1, <1>2, WFMin
<1>4. \A y \in T : x <= y
  <2> SUFFICES ASSUME NEW y \in T, y < x PROVE FALSE
    BY <1>1
  <2>1. <<y, x>> \in R
    BY <1>1 DEF R, OpToRel
  <2> QED BY <1>3, <2>1
<1>5. PICK i \in S : x = n - i
  BY DEF T
<1>6. \A j \in S : j <= i
  <2> SUFFICES ASSUME NEW j \in S PROVE j <= i
    OBVIOUS
  <2>1. n - j \in T
    BY DEF T
  <2>2. x <= n - j
    BY <1>4, <2>1
  <2> QED BY <1>5, <2>2
<1> QED BY <1>6

\* No waker is left in the slot of a VM when no poll is on there, and while polls
\* nest it is that of the innermost (WakerGuard puts the former one back).
THEOREM WakerScopedCorrect == ASSUME OneAtATime PROVE Spec => []WakerScoped
<1>1. ASSUME IInv PROVE WakerScoped
  <2> SUFFICES ASSUME NEW v \in VM
               PROVE  LET Polls(w) == {i \in DOMAIN stack[w] :
                                         /\ stack[w][i].kind = "poll" /\ stack[w][i].pc # "begin"
                                         /\ vm[stack[w][i].d] = v}
                      IN \/ \E w \in Worker : \E i \in Polls(w) :
                              (\A j \in Polls(w) : j <= i) /\ slot[v] = stack[w][i].waker
                         \/ slot[v] = None /\ \A w \in Worker : Polls(w) = {}
    BY DEF WakerScoped
  <2> DEFINE Polls(w) == {i \in DOMAIN stack[w] :
                            /\ stack[w][i].kind = "poll" /\ stack[w][i].pc # "begin"
                            /\ vm[stack[w][i].d] = v}
  <2> USE <1>1
  <2>1. \A w \in Worker : Polls(w) \subseteq 1..Len(stack[w]) /\ Len(stack[w]) \in Nat
    BY DEF IInv, Typed
  <2>2. \A w \in Worker : \A i \in Polls(w) : stack[w] # <<>> /\ vm[Root(w).d] = v
    <3> SUFFICES ASSUME NEW w \in Worker, NEW i \in Polls(w) PROVE stack[w] # <<>> /\ vm[Root(w).d] = v
      OBVIOUS
    <3>1. i \in 1..Len(stack[w]) /\ vm[stack[w][i].d] = v
      BY <2>1
    <3> QED BY <3>1, TopFacts DEF IInv, Shape
  <2>3. CASE \E w \in Worker : Polls(w) # {}
    <3>1. PICK w \in Worker : Polls(w) # {}
      BY <2>3
    <3>2. PICK i \in Polls(w) : \A j \in Polls(w) : j <= i
      <4> DEFINE S == Polls(w)
                 n == Len(stack[w])
      <4>1. S \subseteq 1..n /\ n \in Nat /\ S # {}
        BY <2>1, <3>1
      <4> HIDE DEF S, n
      <4>2. \E i \in S : \A j \in S : j <= i
        BY <4>1, Largest
      <4> QED BY <4>2 DEF S
    <3>3. /\ i \in 1..Len(stack[w]) /\ stack[w][i].kind = "poll" /\ stack[w][i].pc # "begin"
          /\ stack[w] # <<>> /\ vm[Root(w).d] = v
      BY <2>1, <2>2
    <3>4. stack[w][i].waker = RootWaker(w)
      BY <3>3 DEF IInv, Wakers
    <3>5. Root(w).pc # "begin"
      <4>1. CASE Len(stack[w]) = 1
        <5>1. i = 1
          BY <3>3, <4>1
        <5> QED BY <3>3, <5>1 DEF Root
      <4>2. CASE Len(stack[w]) # 1
        BY <3>3, <4>2, RootBusy DEF IInv
      <4> QED BY <4>1, <4>2
    <3>6. slot[v] = RootWaker(w)
      BY <3>3, <3>5 DEF IInv, Slots
    <3> QED BY <3>2, <3>4, <3>6
  <2>4. CASE \A w \in Worker : Polls(w) = {}
    <3>1. CASE \E w \in Worker : stack[w] # <<>> /\ vm[Root(w).d] = v
      <4>1. PICK w \in Worker : stack[w] # <<>> /\ vm[Root(w).d] = v
        BY <3>1
      <4>2. slot[v] = IF Root(w).pc # "begin" THEN RootWaker(w) ELSE None
        BY <4>1 DEF IInv, Slots
      <4>3. 1 \in DOMAIN stack[w] /\ Root(w) = stack[w][1]
        BY <4>1, TopFacts DEF IInv, Typed, Root
      <4>4. 1 \notin Polls(w)
        BY <2>4
      <4>5. Root(w).kind # "poll" \/ Root(w).pc = "begin"
        BY <4>1, <4>3, <4>4
      <4> QED BY <2>4, <4>2, <4>5 DEF RootWaker
    <3>2. CASE \A w \in Worker : stack[w] # <<>> => vm[Root(w).d] # v
      BY <2>4, <3>2 DEF IInv, Slots
    <3> QED BY <3>1, <3>2
  <2> QED BY <2>3, <2>4
<1> QED BY <1>1, Inductive, PTL

-----------------------------------------------------------------------------
(***************************************************************************)
(* Wake-ups.                                                               *)
(***************************************************************************)
InFrame(w) == {stack[w][k].d : k \in 1..Len(stack[w])}

\* What d awaits has registered the waker of t for an event to come.
Waits(d, t) ==
  \E e \in Awaited(d) : fut[e] = "io" /\ co[e] = "awaiting" /\ ~ready[e] /\ waker[e] = t

\* A task that nobody polls is woken or waits.
Waiting ==
  \A t \in Driver :
    driver[t] = "task" /\ t \notin queue /\ (\A w \in Worker : t \notin InFrame(w)) => Waits(t, t)

\* A poll that is about to return Pending has seen to it that its task is woken.
EndedAt(w) ==
  \A d, t \in Driver :
    /\ stack[w] # <<>> /\ Top(w).kind = "poll" /\ Top(w).pc = "ended"
    /\ Top(w).d = d /\ RootWaker(w) = t /\ co[d] \notin {"finished", "broken"}
    => t \in queue \/ Waits(d, t)
Ended == \A w \in Worker : EndedAt(w)

WInv == Waiting /\ Ended

\* What is awaited is the least set that is closed under fut.
LEMMA AwaitedIn ==
  ASSUME NEW d, NEW S \in SUBSET Driver, d \in S, \A x \in S : fut[x] \in Driver => fut[x] \in S
  PROVE  Awaited(d) \subseteq S
BY DEF Awaited

\* It is closed, and has the coroutine itself.
LEMMA AwaitedClosed ==
  ASSUME NEW d \in Driver
  PROVE  /\ d \in Awaited(d) /\ Awaited(d) \subseteq Driver
         /\ \A x \in Awaited(d) : fut[x] \in Driver => fut[x] \in Awaited(d)
BY DEF Awaited

\* What a child awaits, its parent awaits.
LEMMA AwaitedChild ==
  ASSUME NEW p \in Driver, fut[p] \in Driver
  PROVE  Awaited(fut[p]) \subseteq Awaited(p)
BY AwaitedClosed, AwaitedIn

\* A step that changes none of the futures awaited only adds to them.
LEMMA AwaitedKept ==
  ASSUME NEW d \in Driver, \A x \in Awaited(d) : fut'[x] = fut[x]
  PROVE  Awaited(d) \subseteq Awaited(d)'
<1> SUFFICES ASSUME NEW e \in Awaited(d), NEW S \in SUBSET Driver, d \in S,
                    \A x \in S : fut'[x] \in Driver => fut'[x] \in S
             PROVE  e \in Driver /\ e \in S
  BY DEF Awaited
<1> DEFINE T == S \cap Awaited(d)
<1>1. T \in SUBSET Driver /\ d \in T
  BY AwaitedClosed
<1>2. \A x \in T : fut[x] \in Driver => fut[x] \in T
  BY AwaitedClosed
<1>3. Awaited(d) \subseteq T
  BY <1>1, <1>2, AwaitedIn
<1> QED BY <1>3

\* A step that leaves alone what d awaits leaves it waiting.
LEMMA WaitsKept ==
  ASSUME NEW d \in Driver, NEW t, Waits(d, t),
         \A x \in Awaited(d) :
           /\ fut'[x] = fut[x]
           /\ co[x] = "awaiting" /\ fut[x] = "io" /\ ~ready[x] =>
                co'[x] = co[x] /\ ready'[x] = ready[x] /\ waker'[x] = waker[x]
  PROVE  Waits(d, t)'
<1>1. PICK e \in Awaited(d) : fut[e] = "io" /\ co[e] = "awaiting" /\ ~ready[e] /\ waker[e] = t
  BY DEF Waits
<1>2. e \in Awaited(d)'
  BY AwaitedKept
<1>3. fut'[e] = "io" /\ co'[e] = "awaiting" /\ ~ready'[e] /\ waker'[e] = t
  BY <1>1
<1> QED BY <1>2, <1>3 DEF Waits

\* The drivers that are in no frame await only such drivers.
LEMMA IdleClosed ==
  ASSUME IInv, NEW x \in Driver, fut[x] \in Driver, \A u \in Worker : x \notin InFrame(u)
  PROVE  \A u \in Worker : fut[x] \notin InFrame(u)
<1> SUFFICES ASSUME NEW u \in Worker, NEW m \in 1..Len(stack[u]), stack[u][m].d = fut[x] PROVE FALSE
  BY DEF InFrame
<1>1. Len(stack[u]) \in Nat /\ m \in Nat /\ m > 0 /\ m <= Len(stack[u])
  BY TopFacts DEF IInv
<1>2. m # 1
  BY DEF IInv, Shape
<1> DEFINE i == m - 1
<1>3. i \in 1..Len(stack[u]) /\ i < Len(stack[u]) /\ i + 1 = m
  <2>1. m - 1 \in 1..m
    BY <1>1, <1>2, Longer
  <2> QED BY <1>1, <2>1
<1> HIDE DEF i
<1>4. stack[u][i + 1].d = fut[stack[u][i].d]
  BY <1>3 DEF IInv, Shape
<1>5. stack[u][i].d \in Driver /\ stack[u][i].d \in InFrame(u)
  <2>1. stack[u][i] \in FrameRec
    BY <1>3, TopFacts DEF IInv
  <2> QED BY <1>3, <2>1 DEF FrameRec, InFrame
<1>6. fut[stack[u][i].d] = fut[x]
  BY <1>3, <1>4
<1>7. stack[u][i].d = x
  BY <1>5, <1>6 DEF IInv, Family
<1> QED BY <1>5, <1>7

\* So it is with all that they await.
LEMMA AwaitedIdle ==
  ASSUME IInv, NEW d \in Driver, \A u \in Worker : d \notin InFrame(u)
  PROVE  \A x \in Awaited(d) : \A u \in Worker : x \notin InFrame(u)
<1> DEFINE S == {x \in Driver : \A u \in Worker : x \notin InFrame(u)}
<1>1. \A x \in S : fut[x] \in Driver => fut[x] \in S
  BY IdleClosed
<1>2. d \in S /\ S \in SUBSET Driver
  OBVIOUS
<1>3. Awaited(d) \subseteq S
  BY ONLY <1>1, <1>2, AwaitedIn
<1> QED BY <1>3

\* Of what the driver on top awaits, only itself is in a frame.
LEMMA AwaitedTop ==
  ASSUME IInv, NEW w \in Worker, stack[w] # <<>>
  PROVE  \A x \in Awaited(Top(w).d) : x = Top(w).d \/ \A u \in Worker : x \notin InFrame(u)
<1> DEFINE d == Top(w).d
           S == {x \in Driver : x = d \/ \A u \in Worker : x \notin InFrame(u)}
<1>1. d \in Driver
  BY TopDriver
<1>2. fut[d] \in Driver => \A u \in Worker : fut[d] \notin InFrame(u)
  BY ChildIdle DEF InFrame
<1>3. \A x \in S : fut[x] \in Driver => fut[x] \in S
  BY <1>2, IdleClosed
<1>4. d \in S /\ S \in SUBSET Driver
  BY <1>1
<1> HIDE DEF d
<1>5. Awaited(d) \subseteq S
  BY ONLY <1>3, <1>4, AwaitedIn
<1> QED BY <1>5 DEF d

\* The first frame and the one on top are frames of the worker.
LEMMA FrameDrivers ==
  ASSUME IInv, NEW w \in Worker, stack[w] # <<>>
  PROVE  /\ Root(w).d \in InFrame(w) /\ Top(w).d \in InFrame(w) /\ InFrame(w) \subseteq Driver
         /\ \A u \in Worker : u # w => InFrame(w) \cap InFrame(u) = {}
         /\ RootWaker(w) # None => RootWaker(w) = Root(w).d /\ driver[Root(w).d] = "task"
<1>1. /\ 1 \in 1..Len(stack[w]) /\ Len(stack[w]) \in 1..Len(stack[w])
      /\ Top(w) = stack[w][Len(stack[w])] /\ \A k \in 1..Len(stack[w]) : stack[w][k] \in FrameRec
  BY TopFacts DEF IInv
<1>2. Root(w).d \in InFrame(w) /\ Top(w).d \in InFrame(w) /\ InFrame(w) \subseteq Driver
  BY <1>1 DEF InFrame, Root, FrameRec
<1>3. \A u \in Worker : u # w => InFrame(w) \cap InFrame(u) = {}
  BY DEF InFrame, IInv, Once
<1>4. RootWaker(w) # None => RootWaker(w) = Root(w).d /\ driver[Root(w).d] = "task"
  BY <1>1 DEF RootWaker, Root, IInv, Shape
<1> QED BY <1>2, <1>3, <1>4

\* What a step of worker w has to show for the tasks that wait.
LEMMA WakeStep ==
  ASSUME IInv, IInv', WInv, NEW w \in Worker,
         \A u \in Worker : u # w => stack'[u] = stack[u],
         \A x \in Driver : x \notin InFrame(w) =>
           /\ fut'[x] = fut[x]
           /\ co[x] \in {"awaiting", "finished", "broken"} => co'[x] = co[x]
           /\ co[x] = "awaiting" => ready'[x] = ready[x] /\ waker'[x] = waker[x],
         \A t \in Driver : driver'[t] = "task" => driver[t] = "task" /\ (t \in queue => t \in queue'),
         \A t \in InFrame(w) :
           driver'[t] = "task" => t \in InFrame(w)' \/ t \in queue' \/ Waits(t, t)',
         EndedAt(w)'
  PROVE  WInv'
<1>1. \A u \in Worker : u # w => InFrame(u)' = InFrame(u) /\ Top(u)' = Top(u) /\ RootWaker(u)' = RootWaker(u)
  BY DEF InFrame, Top, RootWaker, Root
<1>2. Waiting'
  <2> SUFFICES ASSUME NEW t \in Driver, driver'[t] = "task", t \notin queue',
                      \A u \in Worker : t \notin InFrame(u)'
               PROVE  Waits(t, t)'
    BY DEF Waiting
  <2>1. driver[t] = "task" /\ t \notin queue
    OBVIOUS
  <2>2. CASE t \in InFrame(w)
    BY <2>2
  <2>3. CASE t \notin InFrame(w)
    <3>1. \A u \in Worker : t \notin InFrame(u)
      BY <1>1, <2>3
    <3>2. Waits(t, t)
      BY <2>1, <3>1 DEF WInv, Waiting
    <3>3. \A x \in Awaited(t) : x \notin InFrame(w) /\ x \in Driver
      BY <3>1, AwaitedIdle, AwaitedClosed
    <3> QED BY <3>2, <3>3, WaitsKept
  <2> QED BY <2>2, <2>3
<1>3. Ended'
  <2> SUFFICES ASSUME NEW u \in Worker, u # w, NEW d \in Driver, NEW t \in Driver,
                      stack'[u] # <<>>, Top(u)'.kind = "poll", Top(u)'.pc = "ended",
                      Top(u)'.d = d, RootWaker(u)' = t, co'[d] \notin {"finished", "broken"}
               PROVE  t \in queue' \/ Waits(d, t)'
    BY DEF Ended, EndedAt
  <2>1. /\ stack[u] # <<>> /\ Top(u)' = Top(u) /\ RootWaker(u) = t /\ Top(u).d = d /\ t # None
    BY <1>1, AsyncAssumption
  <2>2. d \notin InFrame(w) /\ driver'[t] = "task"
    <3>1. /\ d \in InFrame(u) /\ InFrame(u) \cap InFrame(w) = {} /\ t = Root(u).d
      BY <2>1, FrameDrivers
    <3>2. driver'[Root(u).d] = "task"
      <4>1. 1 \in 1..Len(stack'[u]) /\ stack'[u] = stack[u]
        BY <2>1, TopFacts DEF IInv
      <4>2. stack'[u][1].kind = "poll"
        BY <4>1, <2>1 DEF RootWaker, Root
      <4> QED BY <4>1, <4>2 DEF IInv, Shape, Root
    <3> QED BY <3>1, <3>2
  <2>3. co[d] \notin {"finished", "broken"}
    BY <2>2
  <2>4. t \in queue \/ Waits(d, t)
    BY <2>1, <2>3 DEF WInv, Ended, EndedAt
  <2>5. \A x \in Awaited(d) : x \in Driver /\ x \notin InFrame(w)
    <3>1. \A x \in Awaited(d) : x = d \/ x \notin InFrame(w)
      BY <2>1, AwaitedTop
    <3> QED BY <2>2, <3>1, AwaitedClosed
  <2>6. Waits(d, t) => Waits(d, t)'
    BY <2>5, WaitsKept
  <2>7. t \in queue => t \in queue'
    BY <2>2
  <2> QED BY <2>4, <2>6, <2>7
<1> QED BY <1>2, <1>3 DEF WInv

\* A step that edits the frame on top and changes its coroutine.
LEMMA EditWake ==
  ASSUME IInv, IInv', WInv, NEW w \in Worker, TopEdit(w),
         \A u \in Worker : u # w => stack'[u] = stack[u],
         \A x \in Driver : x # Top(w).d =>
           /\ fut'[x] = fut[x] /\ ready'[x] = ready[x] /\ waker'[x] = waker[x]
           /\ co[x] # "none" => co'[x] = co[x],
         \A t \in Driver : driver'[t] = "task" => driver[t] = "task",
         queue \subseteq queue',
         stack'[w][Len(stack[w])].pc # "ended" \/
           \A d, t \in Driver :
             /\ Top(w).kind = "poll" /\ Top(w).d = d /\ RootWaker(w) = t
             /\ co'[d] \notin {"finished", "broken"}
             => t \in queue' \/ Waits(d, t)'
  PROVE  WInv'
<1> DEFINE n == Len(stack[w])
<1>1. /\ stack[w] # <<>> /\ Len(stack'[w]) = n /\ n \in 1..n /\ n \in Nat /\ 1 \in 1..n
      /\ \A k \in 1..n : stack'[w][k].d = stack[w][k].d /\ stack'[w][k].kind = stack[w][k].kind
      /\ Top(w) = stack[w][n]
  BY TopFacts DEF TopEdit, IInv
<1>2. InFrame(w)' = InFrame(w)
  BY <1>1 DEF InFrame
<1>3. Top(w).d \in InFrame(w)
  BY <1>1, FrameDrivers
<1>4. Top(w)' = stack'[w][n] /\ RootWaker(w)' = RootWaker(w)
  BY <1>1 DEF Top, Last, RootWaker, Root
<1>5. EndedAt(w)'
  <2> SUFFICES ASSUME NEW d \in Driver, NEW t \in Driver,
                      stack'[w] # <<>>, Top(w)'.kind = "poll", Top(w)'.pc = "ended",
                      Top(w)'.d = d, RootWaker(w)' = t, co'[d] \notin {"finished", "broken"}
               PROVE  t \in queue' \/ Waits(d, t)'
    BY DEF EndedAt
  <2>1. Top(w).kind = "poll" /\ Top(w).d = d /\ RootWaker(w) = t /\ stack'[w][n].pc = "ended"
    BY <1>1, <1>4
  <2> QED BY <2>1
<1>6. \A x \in Driver : x \notin InFrame(w) =>
        /\ fut'[x] = fut[x]
        /\ co[x] \in {"awaiting", "finished", "broken"} => co'[x] = co[x]
        /\ co[x] = "awaiting" => ready'[x] = ready[x] /\ waker'[x] = waker[x]
  BY <1>3
<1>7. /\ \A t \in Driver : driver'[t] = "task" => driver[t] = "task" /\ (t \in queue => t \in queue')
      /\ \A t \in InFrame(w) :
           driver'[t] = "task" => t \in InFrame(w)' \/ t \in queue' \/ Waits(t, t)'
  BY <1>2
<1> QED BY <1>5, <1>6, <1>7, WakeStep

\* The slot of the VM has the worker's waker once a poll is past its first step.
LEMMA CurrentWaker ==
  ASSUME IInv, NEW w \in Worker, stack[w] # <<>>, Top(w).pc # "begin"
  PROVE  current_waker(w) = RootWaker(w)
<1>1. Root(w).pc # "begin"
  <2>1. CASE Len(stack[w]) = 1
    BY <2>1, TopDriver DEF Root
  <2>2. CASE Len(stack[w]) # 1
    BY <2>2, RootBusy DEF IInv
  <2> QED BY <2>1, <2>2
<1>2. vm[Top(w).d] = vm[Root(w).d]
  <2>1. Len(stack[w]) \in 1..Len(stack[w]) /\ Top(w).d = stack[w][Len(stack[w])].d
    BY TopFacts DEF IInv
  <2> QED BY <2>1 DEF IInv, Shape
<1> QED BY <1>1, <1>2 DEF current_waker, IInv, Slots

\* The steps after which no poll is about to return.
LEMMA QuietWake ==
  ASSUME IInv, IInv', WInv, NEW w \in Worker,
         \/ set_current_waker(w) \/ resume_for_async(w)
         \/ \E k \in {"io", "values"} \cup Driver : get_future(w, k)
  PROVE  WInv'
<1> DEFINE d == Top(w).d
           n == Len(stack[w])
<1>1. stack[w] # <<>> /\ queue' = queue
  BY DEF set_current_waker, resume_for_async, get_future, At
<1>2. d \in Driver /\ driver[d] # "none" /\ TypeOK /\ n \in 1..n
  BY <1>1, TopDriver, TopFacts DEF IInv, Steady
<1>3. CASE set_current_waker(w)
  <2>1. /\ UNCHANGED lua
        /\ stack' = [stack EXCEPT ![w] = [stack[w] EXCEPT ![n] =
                       [stack[w][n] EXCEPT !.prev = slot[vm[d]], !.pc = "set"]]]
    BY <1>2, <1>3 DEF set_current_waker, IInv, Typed
  <2>2. (\A u \in Worker : u # w => stack'[u] = stack[u]) /\ stack'[w][n].pc = "set"
        /\ Len(stack'[w]) = n
        /\ \A k \in 1..n : /\ stack'[w][k].d = stack[w][k].d /\ stack'[w][k].kind = stack[w][k].kind
                           /\ stack'[w][k].waker = stack[w][k].waker
                           /\ k # n => stack'[w][k] = stack[w][k]
    <3> DEFINE g == [stack[w][n] EXCEPT !.prev = slot[vm[d]], !.pc = "set"]
               s == [stack[w] EXCEPT ![n] = g]
    <3>1. stack[w][n] \in FrameRec /\ stack[w] \in Seq(FrameRec)
      BY <1>2, TopFacts DEF IInv
    <3>2. g.pc = "set" /\ g.d = stack[w][n].d /\ g.kind = stack[w][n].kind /\ g.waker = stack[w][n].waker
      BY <3>1 DEF FrameRec
    <3> HIDE DEF g
    <3>3. Len(s) = n /\ \A k \in 1..n : s[k] = IF k = n THEN g ELSE stack[w][k]
      BY <1>2, <3>1
    <3>4. stack' = [stack EXCEPT ![w] = s]
      BY <2>1 DEF g
    <3> HIDE DEF s
    <3>5. stack'[w] = s /\ \A u \in Worker : u # w => stack'[u] = stack[u]
      BY <3>4 DEF IInv, Typed
    <3> QED BY <1>2, <3>2, <3>3, <3>5
  <2>3. TopEdit(w)
    BY <1>1, <2>2 DEF TopEdit, IInv
  <2> QED BY <1>1, <2>1, <2>2, <2>3, EditWake DEF lua
<1>4. CASE resume_for_async(w)
  <2> DEFINE pc == IF co[d] = "awaiting" THEN "polling" ELSE "running"
  <2>1. /\ co' = [co EXCEPT ![d] = "running"] /\ Goto(w, pc)
        /\ UNCHANGED <<driver, vm, ops, fut, ready, waker, slot, queue>>
    BY <1>4 DEF resume_for_async
  <2>2. pc \in PCs /\ pc # "ended"
    BY DEF PCs
  <2> HIDE DEF pc
  <2>3. TopEdit(w) /\ stack'[w][n].pc = pc /\ \A u \in Worker : u # w => stack'[u] = stack[u]
    BY <1>1, <2>1, <2>2, GotoEdits DEF IInv, Goto, Typed
  <2> QED BY <1>1, <1>2, <2>1, <2>2, <2>3, EditWake DEF TypeOK
<1>5. CASE \E k \in {"io", "values"} \cup Driver : get_future(w, k)
  <2>1. PICK k \in {"io", "values"} \cup Driver : get_future(w, k)
    BY <1>5
  <2>2. /\ fut' = [fut EXCEPT ![d] = k] /\ ready' = [ready EXCEPT ![d] = FALSE]
        /\ waker' = [waker EXCEPT ![d] = None] /\ Goto(w, "polling")
    BY <2>1 DEF get_future
  <2>3. /\ \A t \in Driver : driver'[t] = "task" => driver[t] = "task"
        /\ \A x \in Driver : co[x] # "none" => co'[x] = co[x]
    BY <1>2, <2>1 DEF get_future, TypeOK, IInv, Made
  <2>4. "polling" \in PCs /\ Typed
    BY DEF PCs, IInv
  <2>5. TopEdit(w) /\ stack'[w][n].pc = "polling" /\ \A u \in Worker : u # w => stack'[u] = stack[u]
    BY <1>1, <2>2, <2>4, GotoEdits DEF Goto, Typed
  <2>6. \A x \in Driver : x # d => fut'[x] = fut[x] /\ ready'[x] = ready[x] /\ waker'[x] = waker[x]
    BY <1>2, <2>2 DEF TypeOK
  <2> QED BY <1>1, <2>3, <2>5, <2>6, EditWake
<1> QED BY <1>3, <1>4, <1>5

\* Yielded wakes the task that a worker polls.
LEMMA YieldedWakes ==
  ASSUME IInv, NEW w \in Worker, stack[w] # <<>>, Top(w).kind = "poll", Yielded(w)
  PROVE  \A t \in Driver : RootWaker(w) = t => t \in queue'
<1> SUFFICES ASSUME NEW t \in Driver, RootWaker(w) = t PROVE t \in queue'
  OBVIOUS
<1>1. driver[t] = "task"
  BY FrameDrivers, AsyncAssumption
<1>2. Top(w).waker = t
  <2>1. Len(stack[w]) \in 1..Len(stack[w]) /\ Top(w) = stack[w][Len(stack[w])]
    BY TopFacts DEF IInv
  <2> QED BY <2>1 DEF IInv, Wakers
<1> QED BY <1>1, <1>2 DEF Yielded, Woken

\* A coroutine that is left pending waits for an event, or its task is woken.
LEMMA LuaWake ==
  ASSUME IInv, IInv', WInv, NEW w \in Worker,
         \/ LuaEnds(w) \/ LuaYields(w) \/ Interrupted(w) \/ poll_io(w) \/ poll_values(w)
         \/ terminate_async(w) /\ (co[Top(w).d] # "awaiting" \/ fut[Top(w).d] \notin Driver)
  PROVE  WInv'
<1> DEFINE d == Top(w).d
           n == Len(stack[w])
<1> USE DEF At, Leave
<1>1. stack[w] # <<>>
  BY DEF LuaEnds, LuaYields, Interrupted, poll_io, poll_values, terminate_async
<1>2. d \in Driver /\ TypeOK
  BY <1>1, TopDriver DEF IInv
<1>3. /\ driver' = driver /\ queue \subseteq queue'
      /\ \A x \in Driver : x # d => /\ fut'[x] = fut[x] /\ ready'[x] = ready[x] /\ waker'[x] = waker[x]
                                    /\ co'[x] = co[x]
  <2>1. CASE LuaEnds(w)
    BY <1>2, <2>1 DEF LuaEnds, TypeOK
  <2>2. CASE LuaYields(w)
    BY <1>2, <2>2 DEF LuaYields, Yielded, Woken, TypeOK
  <2>3. CASE poll_io(w)
    BY <1>2, <2>3 DEF poll_io, Pending, TypeOK
  <2>4. CASE poll_values(w)
    BY <1>2, <2>4 DEF poll_values, Yielded, Woken, TypeOK
  <2>5. CASE terminate_async(w) /\ (co[d] # "awaiting" \/ fut[d] \notin Driver)
    BY <1>2, <2>5 DEF terminate_async, Parks, TypeOK
  <2>6. CASE Interrupted(w)
    BY <1>2, <2>6 DEF Interrupted, TypeOK
  <2> QED BY <2>1, <2>2, <2>3, <2>4, <2>5, <2>6
<1>4. PICK pc \in {"running", "ended"} : Goto(w, pc)
  BY DEF LuaEnds, LuaYields, Interrupted, poll_io, poll_values, Pending, terminate_async
<1>5. TopEdit(w) /\ \A u \in Worker : u # w => stack'[u] = stack[u]
  <2>1. pc \in PCs /\ Typed
    BY DEF PCs, IInv
  <2> QED BY <1>1, <1>4, <2>1, GotoEdits DEF Goto, Typed
<1>6. ASSUME stack'[w][n].pc = "ended", NEW e \in Driver, NEW t \in Driver,
             Top(w).kind = "poll", Top(w).d = e, RootWaker(w) = t, co'[e] \notin {"finished", "broken"}
      PROVE  t \in queue' \/ Waits(e, t)'
  <2>1. CASE LuaEnds(w)
    BY <1>2, <1>6, <2>1 DEF LuaEnds, TypeOK
  <2>2. CASE LuaYields(w)
    BY <1>1, <1>6, <2>2, YieldedWakes DEF LuaYields
  <2>3. CASE poll_io(w)
    <3>1. ~ready[d]
      <4>1. ASSUME ready[d] PROVE FALSE
        <5>1. Goto(w, "running") /\ "running" \in PCs /\ Typed
          BY <2>3, <4>1 DEF poll_io, PCs, IInv
        <5>2. stack'[w][n].pc = "running"
          BY <1>1, <5>1, GotoEdits
        <5> QED BY <1>6, <5>2
      <4> QED BY <4>1
    <3>2. /\ fut[d] = "io" /\ waker' = [waker EXCEPT ![d] = current_waker(w)] /\ fut' = fut /\ ready' = ready
          /\ Top(w).pc = "polling"
      BY <2>3, <3>1 DEF poll_io
    <3>3. co'[d] = "awaiting"
      BY <1>2, <1>6, <2>3, <3>1 DEF poll_io, Pending, TypeOK
    <3>4. waker'[d] = t
      BY <1>1, <1>2, <1>6, <3>2, CurrentWaker DEF TypeOK
    <3>5. e \in Awaited(e)'
      BY DEF Awaited
    <3>6. fut'[e] = "io" /\ co'[e] = "awaiting" /\ ~ready'[e] /\ waker'[e] = t
      BY <1>6, <3>1, <3>2, <3>3, <3>4
    <3> QED BY <3>5, <3>6 DEF Waits
  <2>4. CASE poll_values(w)
    <3>1. CASE fut[d] = "values"
      BY <1>1, <1>6, <2>4, <3>1, YieldedWakes DEF poll_values
    <3>2. CASE fut[d] = "sent"
      <4>1. Goto(w, "running") /\ "running" \in PCs /\ Typed
        BY <2>4, <3>2 DEF poll_values, PCs, IInv
      <4>2. stack'[w][n].pc = "running"
        BY <1>1, <4>1, GotoEdits
      <4> QED BY <1>6, <4>2
    <3> QED BY <2>4, <3>1, <3>2 DEF poll_values
  <2>5. CASE terminate_async(w)
    BY <1>6, <2>5 DEF terminate_async
  <2>6. CASE Interrupted(w)
    BY <1>2, <1>6, <2>6 DEF Interrupted, TypeOK
  <2> QED BY <2>1, <2>2, <2>3, <2>4, <2>5, <2>6
<1> QED BY <1>3, <1>5, <1>6, EditWake

\* The worker goes on with a child.
LEMMA NestWake ==
  ASSUME IInv, IInv', WInv, NEW w \in Worker,
         \/ poll_child(w) \/ drop_child(w)
         \/ terminate_async(w) /\ co[Top(w).d] = "awaiting" /\ fut[Top(w).d] \in Driver
  PROVE  WInv'
<1> DEFINE n == Len(stack[w])
           d == Top(w).d
<1>1. /\ stack[w] # <<>> /\ fut[d] \in Driver
      /\ UNCHANGED <<fut, co, ready, waker, queue>>
      /\ driver' = driver \/ driver' = [driver EXCEPT ![fut[d]] = "dropped"]
  BY AsyncAssumption DEF poll_child, drop_child, terminate_async, Drops, At, lua
<1>2. \E pc \in PCs, kind \in Either, wk \in Driver \cup {None} : Enter(w, pc, Frame(kind, fut[d], wk))
  <2>1. CASE poll_child(w)
    <3>1. current_waker(w) \in Driver \cup {None}
      BY <1>1, TopDriver DEF current_waker, IInv, TypeOK
    <3> QED BY <2>1, <3>1 DEF poll_child, PCs, Either
  <2>2. CASE drop_child(w)
    BY <2>2 DEF drop_child, PCs, Either
  <2>3. CASE terminate_async(w) /\ co[d] = "awaiting"
    BY <1>1, <2>3, AsyncAssumption DEF terminate_async, PCs, Either
  <2> QED BY <2>1, <2>2, <2>3
<1>3. PICK pc \in PCs, kind \in Either, wk \in Driver \cup {None} : Enter(w, pc, Frame(kind, fut[d], wk))
  BY <1>2
<1> DEFINE g == Frame(kind, fut[d], wk)
<1>4. g \in FrameRec /\ g.pc = "begin"
  BY <1>1 DEF FrameRec, Frame, PCs
<1> HIDE DEF g
<1>5. /\ Len(stack'[w]) = n + 1 /\ stack'[w][n + 1] = g
      /\ \A u \in Worker : u # w => stack'[u] = stack[u]
      /\ \A k \in 1..n : stack'[w][k].d = stack[w][k].d
  <2>1. Enter(w, pc, g) /\ Typed
    BY <1>3 DEF g, IInv
  <2> QED BY <1>1, <1>4, <2>1, EnterEdits
<1>6. InFrame(w) \subseteq InFrame(w)'
  <2>1. n \in Nat
    BY TopFacts DEF IInv
  <2> QED BY <1>5, <2>1 DEF InFrame
<1>7. EndedAt(w)'
  <2>1. Top(w)'.pc = "begin"
    BY <1>4, <1>5 DEF Top, Last
  <2> QED BY <2>1 DEF EndedAt
<1>8. \A t \in Driver : driver'[t] = "task" => driver[t] = "task"
  BY <1>1 DEF IInv, TypeOK
<1> QED BY <1>1, <1>5, <1>6, <1>7, <1>8, WakeStep

\* A poll or a drop of a task ends: the task is over, woken or waits.
LEMMA FinishWake ==
  ASSUME IInv, IInv', WInv, NEW w \in Worker, Return(w), Len(stack[w]) = 1
  PROVE  WInv'
<1> DEFINE f == Top(w)
           d == f.d
<1>1. /\ stack[w] # <<>> /\ f.pc = "ended"
      /\ driver' = IF Complete(w) THEN [driver EXCEPT ![d] = "dropped"] ELSE driver
      /\ queue' = IF Complete(w) THEN queue \ {d} ELSE queue
      /\ UNCHANGED <<ready, waker>>
  BY DEF Return, At
<1>2. stack' = [stack EXCEPT ![w] = <<>>] /\ UNCHANGED <<co, fut>>
  <2>1. Below(w) = <<>>
    BY <1>1, BelowFacts DEF IInv
  <2> QED BY <2>1 DEF Return
<1>3. /\ f = Root(w) /\ f \in FrameRec /\ d \in Driver /\ Steady(f) /\ TypeOK /\ InFrame(w) = {d}
  <2>1. f = stack[w][1] /\ f \in FrameRec /\ d \in Driver /\ Steady(f) /\ TypeOK
    BY <1>1, TopDriver DEF IInv
  <2> QED BY <2>1 DEF Root, InFrame
<1>4. stack'[w] = <<>> /\ \A u \in Worker : u # w => stack'[u] = stack[u]
  BY <1>2 DEF IInv, Typed
<1>5. \A t \in Driver : driver'[t] = "task" => driver[t] = "task" /\ (t \in queue => t \in queue')
  BY <1>1, <1>3 DEF TypeOK
<1>6. ASSUME NEW e \in Driver, e = d, driver'[e] = "task" PROVE e \in queue' \/ Waits(e, e)'
  <2>1. ~Complete(w) /\ driver' = driver /\ queue' = queue
    BY <1>1, <1>3, <1>6 DEF TypeOK
  <2>2. f.kind = "poll"
    BY <1>3, <1>6, <2>1 DEF Steady, FrameRec, Either
  <2>3. RootWaker(w) = e /\ co[e] \notin {"finished", "broken"}
    BY <1>3, <1>6, <2>1, <2>2 DEF RootWaker, Complete
  <2>4. e \in queue \/ Waits(e, e)
    BY <1>1, <1>6, <2>2, <2>3 DEF WInv, Ended, EndedAt
  <2>5. Waits(e, e) => Waits(e, e)'
    BY <1>1, <1>2, WaitsKept
  <2> QED BY <2>1, <2>4, <2>5
<1>7. EndedAt(w)'
  BY <1>4 DEF EndedAt
<1>8. \A t \in InFrame(w) : driver'[t] = "task" => t \in InFrame(w)' \/ t \in queue' \/ Waits(t, t)'
  BY <1>3, <1>6
<1> QED BY <1>1, <1>2, <1>4, <1>5, <1>7, <1>8, WakeStep

\* A nested poll or drop ends: a parent that is left pending waits for what its
\* child waits for.
LEMMA PopWake ==
  ASSUME IInv, IInv', WInv, NEW w \in Worker, Return(w), Len(stack[w]) # 1
  PROVE  WInv'
<1> DEFINE n == Len(stack[w])
           m == n - 1
           f == Top(w)
           d == f.d
           p == stack[w][m]
           a == p.d
<1>1. /\ stack[w] # <<>> /\ f.pc = "ended"
      /\ driver' = IF Complete(w) THEN [driver EXCEPT ![d] = "dropped"] ELSE driver
      /\ queue' = IF Complete(w) THEN queue \ {d} ELSE queue
      /\ UNCHANGED <<ready, waker>>
  BY DEF Return, At
<1>2. /\ f = stack[w][n] /\ f \in FrameRec /\ d \in Driver /\ Steady(f) /\ TypeOK
      /\ n \in Nat /\ n > 0 /\ n \in 1..n
  BY <1>1, TopDriver, TopFacts DEF IInv
<1>3. /\ m \in Nat /\ m \in 1..n /\ m \in 1..m /\ m < n /\ m + 1 = n /\ 1 \in 1..m
  BY <1>2, Longer
<1>4. /\ p \in FrameRec /\ a \in Driver /\ a \in InFrame(w) /\ d = fut[a] /\ a # d
      /\ (p.pc = "dropping" => f.kind = "drop" /\ p.kind = "drop")
      /\ Below(w) # <<>> /\ Last(Below(w)) = p
  <2>1. p \in FrameRec /\ Steady(p) /\ a \in InFrame(w)
    BY <1>1, <1>3, TopFacts DEF IInv, States, InFrame
  <2>2. stack[w][m + 1].d = fut[a] /\ (p.pc = "dropping" => stack[w][m + 1].kind = "drop")
    BY <1>3 DEF IInv, Shape
  <2>3. Below(w) # <<>> /\ Last(Below(w)) = p
    BY <1>1, BelowFacts DEF IInv
  <2>4. a # d
    <3>1. Once
      BY DEF IInv
    <3>2. m # n
      BY <1>3
    <3> HIDE DEF m
    <3>3. stack[w][m].d # stack[w][n].d
      BY <1>2, <1>3, <3>1, <3>2 DEF Once
    <3> QED BY <1>2, <3>3
  <2> QED BY <1>2, <1>3, <2>1, <2>2, <2>3, <2>4 DEF FrameRec, Steady
<1>5. driver[d] \in {"child", "dropped"}
  BY <1>2, <1>4 DEF IInv, Family
<1>6. \E pc \in {"running", "ended"} :
        /\ Continue(w, pc)
        /\ \A e \in Driver : e # a => fut'[e] = fut[e] /\ co'[e] = co[e]
        /\ pc = "ended" /\ p.kind = "poll" => fut' = fut /\ f.kind = "poll" /\ ~Complete(w)
  <2>1. \/ /\ p.pc = "polling" /\ fut' = [fut EXCEPT ![a] = None]
           /\ Continue(w, "running") /\ UNCHANGED co
        \/ /\ p.pc = "polling" /\ f.kind = "poll" /\ ~Complete(w)
           /\ \E where \in {"awaiting", "broken"} : co' = [co EXCEPT ![a] = where]
           /\ Continue(w, "ended") /\ UNCHANGED fut
        \/ /\ p.pc = "dropping" /\ fut' = [fut EXCEPT ![a] = None]
           /\ \E where \in {"parked", "broken"} : co' = [co EXCEPT ![a] = where]
           /\ Continue(w, "ended")
    BY <1>4 DEF Return, Parks
  <2> QED BY <1>2, <1>4, <2>1 DEF TypeOK
<1>7. PICK pc \in {"running", "ended"} :
        /\ Continue(w, pc)
        /\ \A e \in Driver : e # a => fut'[e] = fut[e] /\ co'[e] = co[e]
        /\ pc = "ended" /\ p.kind = "poll" => fut' = fut /\ f.kind = "poll" /\ ~Complete(w)
  BY <1>6
<1>8. /\ Len(stack'[w]) = m /\ \A u \in Worker : u # w => stack'[u] = stack[u]
      /\ \A k \in 1..m :
           /\ stack'[w][k].d = stack[w][k].d /\ stack'[w][k].kind = stack[w][k].kind
           /\ stack'[w][k].pc = IF k = m THEN pc ELSE stack[w][k].pc
  <2>1. pc \in PCs /\ Continue(w, pc) /\ Typed
    BY <1>7 DEF PCs, IInv
  <2> QED BY <1>1, <2>1, ContinueEdits
<1>9. /\ Top(w)'.d = a /\ Top(w)'.kind = p.kind /\ Top(w)'.pc = pc /\ RootWaker(w)' = RootWaker(w)
  <2>1. Top(w)' = stack'[w][m] /\ Root(w)'.d = Root(w).d /\ Root(w)'.kind = Root(w).kind
    BY <1>3, <1>8 DEF Top, Last, Root
  <2> QED BY <1>3, <1>8, <2>1 DEF RootWaker
<1>10. \A t \in Driver : driver'[t] = "task" => driver[t] = "task" /\ (t \in queue => t \in queue')
  BY <1>1, <1>2 DEF TypeOK
<1>11. \A t \in InFrame(w) : driver'[t] = "task" => t \in InFrame(w)'
  <2> SUFFICES ASSUME NEW k \in 1..n, driver'[stack[w][k].d] = "task" PROVE stack[w][k].d \in InFrame(w)'
    BY DEF InFrame
  <2>1. stack[w][k].d \in Driver
    BY TopFacts DEF IInv, FrameRec
  <2>2. k # n
    BY <1>2, <1>5, <1>10, <2>1
  <2>3. k \in 1..m
    BY <1>2, <2>2
  <2> QED BY <1>8, <2>3 DEF InFrame
<1>12. EndedAt(w)'
  <2> SUFFICES ASSUME NEW e \in Driver, NEW t \in Driver,
                      stack'[w] # <<>>, Top(w)'.kind = "poll", Top(w)'.pc = "ended",
                      Top(w)'.d = e, RootWaker(w)' = t, co'[e] \notin {"finished", "broken"}
               PROVE  t \in queue' \/ Waits(e, t)'
    BY DEF EndedAt
  <2>1. e = a /\ RootWaker(w) = t /\ f.kind = "poll" /\ fut' = fut /\ ~Complete(w) /\ queue' = queue
    BY <1>1, <1>7, <1>9
  <2>2. PICK c \in Driver : c = d
    BY <1>2
  <2>3. t \in queue \/ Waits(c, t)
    <3>1. co[c] \notin {"finished", "broken"}
      BY <2>1, <2>2 DEF Complete
    <3> QED BY <1>1, <2>1, <2>2, <3>1 DEF WInv, Ended, EndedAt
  <2>4. ASSUME Waits(c, t) PROVE Waits(e, t)'
    <3>1. fut[e] = c
      BY <1>4, <2>1, <2>2
    <3>2. PICK x \in Awaited(c) : fut[x] = "io" /\ co[x] = "awaiting" /\ ~ready[x] /\ waker[x] = t
      BY <2>4 DEF Waits
    <3>3. x \in Awaited(e)
      BY <3>1, <3>2, AwaitedChild
    <3>4. x \in Awaited(e)'
      BY <2>1, <3>3, AwaitedKept
    <3>5. x # a /\ x \in Driver
      <4>1. x = d \/ x \notin InFrame(w)
        BY <1>1, <2>2, AwaitedTop
      <4> QED BY <1>4, <4>1, AwaitedClosed
    <3>6. fut'[x] = "io" /\ co'[x] = "awaiting" /\ ~ready'[x] /\ waker'[x] = t
      BY <1>1, <1>7, <3>2, <3>5
    <3> QED BY <3>4, <3>6 DEF Waits
  <2> QED BY <2>1, <2>3, <2>4
<1>13. \A x \in Driver : x \notin InFrame(w) => fut'[x] = fut[x] /\ co'[x] = co[x]
  BY <1>4, <1>7
<1> QED BY <1>1, <1>8, <1>10, <1>11, <1>12, <1>13, WakeStep

\* A step of the executor that takes up no task.
LEMMA ExecutorWake ==
  ASSUME IInv, IInv', WInv, UNCHANGED <<stack, fut, waker>>,
         \A x \in Driver : co[x] # "none" => co'[x] = co[x],
         queue \subseteq queue',
         \A t \in Driver : driver'[t] = "task" => driver[t] = "task" \/ t \in queue',
         \A x \in Driver : fut[x] = "io" /\ ~ready[x] =>
           ready'[x] = ready[x] \/ (waker[x] \in Driver /\ driver[waker[x]] = "task" => waker[x] \in queue')
  PROVE  WInv'
<1>1. \A w \in Worker : InFrame(w)' = InFrame(w) /\ Top(w)' = Top(w) /\ RootWaker(w)' = RootWaker(w)
  BY DEF InFrame, Top, RootWaker, Root
<1>2. ASSUME NEW d \in Driver, NEW t \in Driver, driver[t] = "task", Waits(d, t)
      PROVE  t \in queue' \/ Waits(d, t)'
  <2>1. PICK e \in Awaited(d) : fut[e] = "io" /\ co[e] = "awaiting" /\ ~ready[e] /\ waker[e] = t
    BY <1>2 DEF Waits
  <2>2. e \in Awaited(d)' /\ e \in Driver
    BY AwaitedKept, AwaitedClosed
  <2>3. CASE ready'[e] = ready[e]
    BY <2>1, <2>2, <2>3 DEF Waits
  <2>4. CASE ready'[e] # ready[e]
    BY <1>2, <2>1, <2>2, <2>4
  <2> QED BY <2>3, <2>4
<1>3. Waiting'
  BY <1>1, <1>2 DEF WInv, Waiting
<1>4. Ended'
  <2> SUFFICES ASSUME NEW u \in Worker, NEW d \in Driver, NEW t \in Driver,
                      stack'[u] # <<>>, Top(u)'.kind = "poll", Top(u)'.pc = "ended",
                      Top(u)'.d = d, RootWaker(u)' = t, co'[d] \notin {"finished", "broken"}
               PROVE  t \in queue' \/ Waits(d, t)'
    BY DEF Ended, EndedAt
  <2>1. stack[u] # <<>> /\ Top(u) = Top(u)' /\ RootWaker(u) = t
    BY <1>1
  <2>2. driver[t] = "task"
    BY <2>1, FrameDrivers, AsyncAssumption
  <2>3. co[d] \notin {"finished", "broken"}
    OBVIOUS
  <2>4. t \in queue \/ Waits(d, t)
    BY <2>1, <2>3 DEF WInv, Ended, EndedAt
  <2> QED BY <1>2, <2>2, <2>4
<1> QED BY <1>3, <1>4 DEF WInv

\* A worker takes up a task.
LEMMA TakeWake ==
  ASSUME IInv, IInv', WInv, NEW w \in Worker, NEW d \in Driver, NEW kind \in Either, Take(w, d, kind),
         driver' = IF kind = "poll" THEN driver ELSE [driver EXCEPT ![d] = "dropped"],
         UNCHANGED <<vm, co, ops, fut, ready, waker, slot>>
  PROVE  WInv'
<1> DEFINE g == Frame(kind, d, d)
<1>1. /\ stack[w] = <<>> /\ stack' = [stack EXCEPT ![w] = <<g>>] /\ queue' = queue \ {d}
  BY DEF Take
<1>2. g.d = d /\ g.pc = "begin"
  BY DEF Frame
<1> HIDE DEF g
<1>3. /\ stack'[w] = <<g>> /\ \A u \in Worker : u # w => stack'[u] = stack[u]
  BY <1>1 DEF IInv, Typed
<1>4. \A u \in Worker : u # w => InFrame(u)' = InFrame(u) /\ Top(u)' = Top(u) /\ RootWaker(u)' = RootWaker(u)
  BY <1>3 DEF InFrame, Top, RootWaker, Root
<1>5. InFrame(w) = {} /\ d \in InFrame(w)' /\ Top(w)'.pc = "begin"
  <2>1. InFrame(w) = {}
    BY <1>1 DEF InFrame
  <2>2. Len(stack'[w]) = 1 /\ stack'[w][1] = g
    BY <1>3
  <2>3. Top(w)' = g
    BY <2>2 DEF Top, Last
  <2>4. 1 \in 1..1
    OBVIOUS
  <2>5. d \in InFrame(w)'
    BY <1>2, <2>2, <2>4 DEF InFrame
  <2> QED BY <1>2, <2>1, <2>3, <2>5
<1>6. \A t \in Driver : driver'[t] = "task" => driver[t] = "task"
  BY DEF IInv, TypeOK
<1>7. ASSUME NEW e \in Driver, NEW t, Waits(e, t) PROVE Waits(e, t)'
  BY <1>7, WaitsKept
<1>8. Waiting'
  BY <1>1, <1>4, <1>5, <1>6, <1>7 DEF WInv, Waiting
<1>9. Ended'
  <2> SUFFICES ASSUME NEW u \in Worker, NEW e \in Driver, NEW t \in Driver,
                      stack'[u] # <<>>, Top(u)'.kind = "poll", Top(u)'.pc = "ended",
                      Top(u)'.d = e, RootWaker(u)' = t, co'[e] \notin {"finished", "broken"}
               PROVE  t \in queue' \/ Waits(e, t)'
    BY DEF Ended, EndedAt
  <2>1. u # w
    BY <1>5
  <2>2. stack[u] # <<>> /\ Top(u)' = Top(u) /\ RootWaker(u) = t
    BY <1>3, <1>4, <2>1
  <2>3. t \in queue \/ Waits(e, t)
    BY <2>2 DEF WInv, Ended, EndedAt
  <2>4. t # d
    <3>1. t = Root(u).d
      BY <2>2, FrameDrivers, AsyncAssumption
    <3>2. Root(u) \in InProgress(u)
      BY <2>2, TopFacts DEF IInv, Root
    <3> QED BY <3>1, <3>2 DEF Take
  <2> QED BY <1>1, <1>7, <2>3, <2>4
<1> QED BY <1>8, <1>9 DEF WInv

\* Every step keeps the tasks awake.
LEMMA NextWake == ASSUME OneAtATime, IInv, IInv', WInv, [Next]_vars PROVE WInv'
<1>1. ASSUME NEW d \in Driver, NEW v \in VM, Spawn(d, v) PROVE WInv'
  <2>1. /\ driver[d] = "none" /\ driver' = [driver EXCEPT ![d] = "task"] /\ co' = [co EXCEPT ![d] = "fresh"]
        /\ queue' = queue \cup {d} /\ UNCHANGED <<stack, fut, waker, ready>>
    BY <1>1 DEF Spawn
  <2>2. co[d] = "none"
    BY <2>1 DEF IInv, Made
  <2>3. \A x \in Driver : co[x] # "none" => co'[x] = co[x]
    BY <2>1, <2>2 DEF IInv, TypeOK
  <2>4. \A t \in Driver : driver'[t] = "task" => driver[t] = "task" \/ t \in queue'
    BY <2>1 DEF IInv, TypeOK
  <2> QED BY <2>1, <2>3, <2>4, ExecutorWake
<1>2. ASSUME NEW w \in Worker, NEW d \in Driver, Schedule(w, d) PROVE WInv'
  <2>1. /\ Take(w, d, "poll") /\ driver' = IF "poll" = "poll" THEN driver ELSE [driver EXCEPT ![d] = "dropped"]
        /\ UNCHANGED <<vm, co, ops, fut, ready, waker, slot>> /\ "poll" \in Either
    BY <1>2 DEF Schedule, lua, Either
  <2> QED BY <2>1, TakeWake
<1>3. ASSUME NEW w \in Worker, NEW d \in Driver, Cancel(w, d) PROVE WInv'
  <2>1. /\ Take(w, d, "drop") /\ driver' = IF "drop" = "poll" THEN driver ELSE [driver EXCEPT ![d] = "dropped"]
        /\ UNCHANGED <<vm, co, ops, fut, ready, waker, slot>> /\ "drop" \in Either
    BY <1>3 DEF Cancel, Drops, Either
  <2> QED BY <2>1, TakeWake
<1>4. ASSUME NEW d \in Driver, Fire(d) PROVE WInv'
  <2>1. /\ ready' = [ready EXCEPT ![d] = TRUE] /\ queue' = Woken(waker[d])
        /\ UNCHANGED <<driver, co, fut, waker, stack>>
    BY <1>4 DEF Fire
  <2>2. queue \subseteq queue' /\ (waker[d] \in Driver /\ driver[waker[d]] = "task" => waker[d] \in queue')
    BY <2>1 DEF Woken
  <2>3. \A x \in Driver : x # d => ready'[x] = ready[x]
    BY <2>1 DEF IInv, TypeOK
  <2> QED BY <2>1, <2>2, <2>3, ExecutorWake
<1>5. ASSUME NEW w \in Worker, Work(w) PROVE WInv'
  <2>1. CASE set_current_waker(w) \/ resume_for_async(w)
             \/ \E k \in {"io", "values"} \cup Driver : get_future(w, k)
    BY <2>1, QuietWake
  <2>2. CASE LuaEnds(w) \/ LuaYields(w) \/ Interrupted(w) \/ poll_io(w) \/ poll_values(w)
    BY <2>2, LuaWake
  <2>3. CASE terminate_async(w)
    BY <2>3, LuaWake, NestWake
  <2>4. CASE poll_child(w) \/ drop_child(w)
    BY <2>4, NestWake
  <2>5. CASE Return(w)
    BY <2>5, FinishWake, PopWake
  <2> QED BY <1>5, <2>1, <2>2, <2>3, <2>4, <2>5 DEF Work
<1>6. ASSUME UNCHANGED vars PROVE WInv'
  BY <1>6, ExecutorWake DEF vars, lua
<1> QED BY <1>1, <1>2, <1>3, <1>4, <1>5, <1>6 DEF Next

\* No wake-up is lost between the poll of a future, the yield of the poller and the
\* return of the polls around it: a pending task that nobody polls is in the queue,
\* or an event to come has its waker.
THEOREM NoLostWakeCorrect == ASSUME OneAtATime PROVE Spec => []NoLostWake
<1>1. Init => WInv
  <2> SUFFICES ASSUME Init PROVE WInv
    OBVIOUS
  <2>1. \A w \in Worker : stack[w] = <<>>
    BY DEF Init
  <2>2. \A t \in Driver : driver[t] # "task"
    BY DEF Init
  <2> QED BY <2>1, <2>2 DEF WInv, Waiting, Ended, EndedAt
<1>2. IInv /\ IInv' /\ WInv /\ [Next]_vars => WInv'
  BY NextWake
<1>3. ASSUME IInv, WInv PROVE NoLostWake
  <2> SUFFICES ASSUME NEW t \in Driver, driver[t] = "task", t \notin queue,
                      ~ \E w \in Worker : \E f \in InProgress(w) : f.d = t
               PROVE  \E d \in Awaited(t) :
                        fut[d] = "io" /\ co[d] = "awaiting" /\ ~ready[d] /\ waker[d] = t
    BY DEF NoLostWake
  <2>1. \A w \in Worker : t \notin InFrame(w)
    BY <1>3, TopFacts DEF InFrame, IInv
  <2>2. Waits(t, t)
    BY <1>3, <2>1 DEF WInv, Waiting
  <2> QED BY <2>2 DEF Waits
<1> QED BY <1>1, <1>2, <1>3, Inductive, PTL DEF Spec

-----------------------------------------------------------------------------
(***************************************************************************)
(* Drops.                                                                  *)
(***************************************************************************)
\* A future owns an AsyncThread until its drop is over.
Owned ==
  \A q \in Driver : fut[q] \in Driver /\ driver[fut[q]] = "dropped" =>
    \E w \in Worker : fut[q] \in InFrame(w)

\* What a frame knows of drops: it does not poll what is dropped, and a drop
\* that begins with a future in flight does not run Lua code.
Marked(f) ==
  /\ f.kind = "poll" => driver[f.d] # "dropped"
  /\ f.d \in doomed => /\ f.pc \in {"begin", "dropping", "ended"}
                       /\ f.pc = "begin" => fut[f.d] # None

\* The coroutine has left its future for good.
Over(d) == (co[d] = "parked" /\ fut[d] = None) \/ co[d] = "broken"

Ending(d) ==
  \E w \in Worker : \E k \in 1..Len(stack[w]) :
    stack[w][k].d = d /\ stack[w][k].pc \in {"begin", "dropping"}

DInv ==
  /\ Owned
  /\ \A w \in Worker : \A k \in 1..Len(stack[w]) : Marked(stack[w][k])
  /\ \A d \in doomed : driver[d] = "dropped" /\ (Over(d) \/ Ending(d))

\* A step that only edits the frame on top of w's stack.
LEMMA EditDrop ==
  ASSUME IInv, IInv', DInv, NEW w \in Worker, NEW d \in Driver, d = Top(w).d,
         TopEdit(w), doomed' = doomed,
         \A e \in Driver : driver'[e] = "dropped" <=> driver[e] = "dropped",
         \A e \in Driver : e # d /\ driver[e] # "none" => fut'[e] = fut[e] /\ co'[e] = co[e],
         \A e \in Driver : fut'[e] \in Driver /\ driver[fut'[e]] = "dropped" => fut'[e] = fut[e],
         d \in doomed => stack'[w][Len(stack[w])].pc = "ended" /\ Over(d)'
  PROVE  DInv'
<1> DEFINE n == Len(stack[w])
<1>1. /\ stack[w] # <<>> /\ n \in 1..n /\ d = stack[w][n].d
      /\ \A u \in Worker : \A k \in 1..Len(stack[u]) : stack[u][k].d \in Driver
  BY TopDriver, TopFacts DEF TopEdit, IInv, FrameRec
<1>2. \A u \in Worker : InFrame(u)' = InFrame(u)
  <2> SUFFICES ASSUME NEW u \in Worker PROVE InFrame(u)' = InFrame(u)
    OBVIOUS
  <2>1. /\ Len(stack'[u]) = Len(stack[u])
        /\ \A k \in 1..Len(stack[u]) : stack'[u][k].d = stack[u][k].d
    BY DEF TopEdit
  <2> QED BY <2>1 DEF InFrame
<1>3. Owned'
  BY <1>2 DEF DInv, Owned
<1>4. \A u \in Worker : \A k \in 1..Len(stack[u]) : u # w \/ k # n =>
        stack'[u][k] = stack[u][k] /\ stack[u][k].d # d /\ driver[stack[u][k].d] # "none"
  BY <1>1 DEF TopEdit, IInv, Once, States, Steady
<1>5. ASSUME NEW u \in Worker, NEW k \in 1..Len(stack[u]) PROVE Marked(stack[u][k])'
  <2>1. CASE u = w /\ k = n
    <3>1. stack'[w][n].d = d /\ stack'[w][n].kind = stack[w][n].kind
      BY <1>1 DEF TopEdit
    <3> QED BY <1>1, <2>1, <3>1 DEF DInv, Marked
  <2>2. CASE u # w \/ k # n
    <3>1. Marked(stack[u][k])
      BY DEF DInv
    <3> QED BY <1>1, <1>4, <2>2, <3>1 DEF Marked
  <2> QED BY <2>1, <2>2
<1>6. ASSUME NEW e \in doomed PROVE driver'[e] = "dropped" /\ (Over(e)' \/ Ending(e)')
  <2>1. e \in Driver /\ driver[e] = "dropped" /\ (Over(e) \/ Ending(e))
    BY DEF DInv, IInv, TypeOK
  <2>2. CASE e = d
    BY <2>1, <2>2
  <2>3. CASE e # d
    <3>1. fut'[e] = fut[e] /\ co'[e] = co[e]
      BY <2>1, <2>3
    <3>2. CASE Over(e)
      BY <2>1, <3>1, <3>2 DEF Over
    <3>3. CASE Ending(e)
      <4>0. PICK u \in Worker : \E k \in 1..Len(stack[u]) :
              stack[u][k].d = e /\ stack[u][k].pc \in {"begin", "dropping"}
        BY <3>3 DEF Ending
      <4>1. PICK k \in 1..Len(stack[u]) :
              stack[u][k].d = e /\ stack[u][k].pc \in {"begin", "dropping"}
        BY <4>0
      <4>2. stack'[u][k] = stack[u][k] /\ Len(stack'[u]) = Len(stack[u])
        BY <1>1, <1>4, <2>3, <4>1 DEF TopEdit
      <4> QED BY <2>1, <4>1, <4>2 DEF Ending
    <3> QED BY <2>1, <3>2, <3>3
  <2> QED BY <2>2, <2>3
<1>7. \A u \in Worker : Len(stack'[u]) = Len(stack[u])
  BY DEF TopEdit
<1> QED BY <1>3, <1>5, <1>6, <1>7 DEF DInv

\* The steps that make no frame and end none.
LEMMA WorkDrop ==
  ASSUME IInv, IInv', DInv, NEW w \in Worker,
         \/ resume_for_async(w) \/ LuaEnds(w) \/ LuaYields(w) \/ Interrupted(w)
         \/ poll_io(w) \/ poll_values(w)
         \/ terminate_async(w) /\ (co[Top(w).d] # "awaiting" \/ fut[Top(w).d] \notin Driver)
  PROVE  DInv'
<1> DEFINE n == Len(stack[w])
<1> USE DEF At, Leave
<1>1. stack[w] # <<>> /\ UNCHANGED <<driver, doomed>>
  BY DEF resume_for_async, LuaEnds, LuaYields, Interrupted, poll_io, poll_values, terminate_async
<1>0. PICK d \in Driver : d = Top(w).d
  BY <1>1, TopDriver
<1>2. TypeOK /\ Steady(Top(w)) /\ Top(w) = stack[w][n] /\ n \in 1..n
  BY <1>1, TopDriver, TopFacts DEF IInv
<1>3. Marked(Top(w))
  BY <1>2 DEF DInv
<1>4. \A e \in Driver : e # d => fut'[e] = fut[e] /\ co'[e] = co[e]
  <2>1. CASE resume_for_async(w) \/ LuaEnds(w) \/ LuaYields(w) \/ Interrupted(w)
    <3>1. fut' = fut /\ \E c : co' = [co EXCEPT ![d] = c]
      BY <1>0, <2>1 DEF resume_for_async, LuaEnds, LuaYields, Interrupted
    <3> QED BY <1>0, <1>2, <3>1 DEF TypeOK
  <2>2. CASE poll_io(w)
    BY <1>0, <1>2, <2>2 DEF poll_io, Pending, TypeOK
  <2>3. CASE poll_values(w)
    BY <1>0, <1>2, <2>3 DEF poll_values, TypeOK
  <2>4. CASE terminate_async(w) /\ (co[d] # "awaiting" \/ fut[d] \notin Driver)
    BY <1>0, <1>2, <2>4 DEF terminate_async, Parks, TypeOK
  <2> QED BY <1>0, <2>1, <2>2, <2>3, <2>4
<1>5. fut'[d] \in Driver => fut'[d] = fut[d]
  <2>1. CASE resume_for_async(w) \/ LuaEnds(w) \/ LuaYields(w) \/ Interrupted(w)
    BY <2>1 DEF resume_for_async, LuaEnds, LuaYields, Interrupted
  <2>2. CASE poll_io(w)
    BY <1>0, <1>2, <2>2, AsyncAssumption DEF poll_io, TypeOK
  <2>3. CASE poll_values(w)
    BY <1>0, <1>2, <2>3, AsyncAssumption DEF poll_values, TypeOK, Futures
  <2>4. CASE terminate_async(w) /\ (co[d] # "awaiting" \/ fut[d] \notin Driver)
    BY <1>0, <1>2, <2>4, AsyncAssumption DEF terminate_async, Parks, TypeOK
  <2> QED BY <1>0, <2>1, <2>2, <2>3, <2>4
<1>6. \E pc \in PCs : Goto(w, pc) /\ (d \in doomed => pc = "ended" /\ Over(d)')
  <2>1. CASE d \notin doomed
    <3>1. \E pc \in {"running", "polling", "ended"} : Goto(w, pc)
      BY DEF resume_for_async, LuaEnds, LuaYields, Interrupted, poll_io, poll_values, Pending,
             terminate_async
    <3> QED BY <2>1, <3>1 DEF PCs
  <2>2. CASE d \in doomed
    <3>1. Top(w).pc \in {"begin", "dropping", "ended"} /\ (Top(w).pc = "begin" => fut[d] # None)
      BY <1>0, <1>3, <2>2 DEF Marked
    <3>2. CASE Interrupted(w)
      BY <1>0, <1>2, <3>2 DEF Interrupted, Over, PCs, TypeOK
    <3>3. CASE terminate_async(w) /\ (co[d] # "awaiting" \/ fut[d] \notin Driver)
      <4>1. co[d] \notin {"fresh", "yielded"}
        BY <1>0, <1>2, <3>1, <3>3 DEF terminate_async, IInv, Made
      <4>2. Parks(d) /\ Goto(w, "ended")
        BY <1>0, <3>3, <4>1 DEF terminate_async
      <4> QED BY <1>0, <1>2, <4>2 DEF Parks, Over, PCs, TypeOK
    <3> QED BY <1>0, <3>1, <3>2, <3>3
          DEF resume_for_async, LuaEnds, LuaYields, poll_io, poll_values
  <2> QED BY <2>1, <2>2
<1>7. PICK pc \in PCs : Goto(w, pc) /\ (d \in doomed => pc = "ended" /\ Over(d)')
  BY <1>6
<1>8. TopEdit(w) /\ stack'[w][n].pc = pc
  BY <1>1, <1>7, GotoEdits DEF IInv
<1> QED BY <1>0, <1>1, <1>4, <1>5, <1>7, <1>8, EditDrop

\* A poll begins to use its waker, or an async function is called.
LEMMA FutureDrop ==
  ASSUME IInv, IInv', DInv, NEW w \in Worker,
         set_current_waker(w) \/ \E k \in {"io", "values"} \cup Driver : get_future(w, k)
  PROVE  DInv'
<1> DEFINE n == Len(stack[w])
<1>1. stack[w] # <<>> /\ doomed' = doomed
  BY DEF set_current_waker, get_future, At, lua
<1>2. PICK d \in Driver : d = Top(w).d
  BY <1>1, TopDriver
<1>3. /\ TypeOK /\ Typed /\ Top(w) = stack[w][n] /\ n \in 1..n /\ Marked(Top(w))
      /\ d \in doomed => driver[d] = "dropped"
      /\ stack[w] \in Seq(FrameRec) /\ stack[w][n] \in FrameRec
  BY <1>1, TopDriver, TopFacts DEF IInv, DInv
<1>4. d \notin doomed
  <2>1. CASE set_current_waker(w)
    BY <1>1, <1>2, <1>3, <2>1 DEF set_current_waker, At, Marked, DInv
  <2>2. CASE \E k \in {"io", "values"} \cup Driver : get_future(w, k)
    BY <1>2, <1>3, <2>2 DEF get_future, At, Marked
  <2> QED BY <2>1, <2>2
<1>5. CASE set_current_waker(w)
  <2> DEFINE g == [stack[w][n] EXCEPT !.prev = slot[vm[d]], !.pc = "set"]
             s == [stack[w] EXCEPT ![n] = g]
  <2>1. UNCHANGED lua /\ stack' = [stack EXCEPT ![w] = s]
    BY <1>2, <1>3, <1>5 DEF set_current_waker, Typed
  <2>2. /\ g.d = stack[w][n].d /\ g.kind = stack[w][n].kind /\ g.waker = stack[w][n].waker
    BY <1>3 DEF FrameRec
  <2> HIDE DEF g
  <2>3. Len(s) = n /\ \A k \in 1..n : s[k] = IF k = n THEN g ELSE stack[w][k]
    BY <1>3
  <2> HIDE DEF s
  <2>4. stack'[w] = s /\ \A u \in Worker : u # w => stack'[u] = stack[u]
    BY <1>3, <2>1 DEF Typed
  <2>5. TopEdit(w)
    BY <1>1, <2>2, <2>3, <2>4 DEF TopEdit, IInv
  <2> QED BY <1>1, <1>2, <1>4, <2>1, <2>5, EditDrop DEF lua
<1>6. CASE \E k \in {"io", "values"} \cup Driver : get_future(w, k)
  <2>1. PICK k \in {"io", "values"} \cup Driver : get_future(w, k)
    BY <1>6
  <2>2. fut' = [fut EXCEPT ![d] = k] /\ Goto(w, "polling") /\ "polling" \in PCs
    BY <1>2, <2>1 DEF get_future, PCs
  <2>3. TopEdit(w)
    BY <1>1, <1>3, <2>2, GotoEdits
  <2>4. /\ k \in Driver => driver[k] = "none"
        /\ \A e \in Driver : driver'[e] = "dropped" <=> driver[e] = "dropped"
        /\ \A e \in Driver : driver[e] # "none" => co'[e] = co[e]
    BY <1>3, <2>1 DEF get_future, TypeOK
  <2>5. \A e \in Driver : fut'[e] = IF e = d THEN k ELSE fut[e]
    BY <1>3, <2>2 DEF TypeOK
  <2> QED BY <1>1, <1>2, <1>4, <2>3, <2>4, <2>5, EditDrop
<1> QED BY <1>5, <1>6

\* A child that is polled or dropped from its future has not been dropped.
LEMMA ChildAlive ==
  ASSUME IInv, DInv, NEW w \in Worker, stack[w] # <<>>, fut[Top(w).d] \in Driver
  PROVE  /\ driver[fut[Top(w).d]] = "child" /\ fut[Top(w).d] \notin doomed
         /\ \A u \in Worker : fut[Top(w).d] \notin InFrame(u)
<1>1. \A u \in Worker : fut[Top(w).d] \notin InFrame(u)
  BY ChildIdle DEF InFrame
<1>2. Top(w).d \in Driver
  BY TopDriver
<1>3. driver[fut[Top(w).d]] \in {"child", "dropped"}
  BY <1>2 DEF IInv, Family
<1>4. driver[fut[Top(w).d]] # "dropped"
  BY <1>1, <1>2 DEF DInv, Owned
<1> QED BY <1>1, <1>3, <1>4 DEF DInv

\* The future polls or drops its AsyncThread, or the poller drops it.
LEMMA NestDrop ==
  ASSUME IInv, IInv', DInv, NEW w \in Worker,
         \/ poll_child(w) \/ drop_child(w)
         \/ terminate_async(w) /\ co[Top(w).d] = "awaiting" /\ fut[Top(w).d] \in Driver
  PROVE  DInv'
<1> DEFINE n == Len(stack[w])
<1>1. stack[w] # <<>> /\ fut[Top(w).d] \in Driver /\ UNCHANGED <<fut, co>>
  BY AsyncAssumption DEF poll_child, drop_child, terminate_async, At, lua
<1>2. PICK d \in Driver : d = Top(w).d
  BY <1>1, TopDriver
<1>3. PICK c \in Driver : c = fut[d]
  BY <1>1, <1>2
<1>4. /\ TypeOK /\ Typed /\ Top(w) = stack[w][n] /\ n \in 1..n /\ n \in Nat /\ Marked(Top(w))
      /\ driver[c] = "child" /\ c \notin doomed /\ \A u \in Worker : c \notin InFrame(u)
  BY <1>1, <1>2, <1>3, TopDriver, TopFacts, ChildAlive DEF IInv, DInv
<1>5. \E pc \in {"polling", "dropping"}, kind \in Either, wk \in Driver \cup {None} :
        /\ Enter(w, pc, Frame(kind, c, wk))
        /\ kind = "poll" => UNCHANGED <<driver, doomed>>
        /\ kind = "drop" => Drops(c)
        /\ d \in doomed => pc = "dropping"
  <2>1. CASE poll_child(w)
    <3>1. current_waker(w) \in Driver \cup {None}
      BY <1>1, TopDriver DEF current_waker, IInv, TypeOK
    <3>2. d \notin doomed
      BY <1>2, <1>4, <2>1 DEF poll_child, At, Marked
    <3> QED BY <1>2, <1>3, <2>1, <3>1, <3>2 DEF poll_child, lua, Either
  <2>2. CASE drop_child(w)
    <3>1. d \notin doomed
      BY <1>2, <1>4, <2>2 DEF drop_child, At, Marked
    <3> QED BY <1>2, <1>3, <2>2, <3>1 DEF drop_child, Either
  <2>3. CASE terminate_async(w) /\ co[Top(w).d] = "awaiting"
    BY <1>1, <1>2, <1>3, <2>3, AsyncAssumption DEF terminate_async, Either
  <2> QED BY <2>1, <2>2, <2>3
<1>6. PICK pc \in {"polling", "dropping"}, kind \in Either, wk \in Driver \cup {None} :
        /\ Enter(w, pc, Frame(kind, c, wk))
        /\ kind = "poll" => UNCHANGED <<driver, doomed>>
        /\ kind = "drop" => Drops(c)
        /\ d \in doomed => pc = "dropping"
  BY <1>5
<1> DEFINE g == Frame(kind, c, wk)
<1>7. g \in FrameRec /\ g.pc = "begin" /\ g.d = c /\ g.kind = kind
  BY <1>6 DEF FrameRec, Frame, PCs
<1> HIDE DEF g
<1>8. /\ Len(stack'[w]) = n + 1 /\ stack'[w][n + 1] = g
      /\ \A u \in Worker : u # w => stack'[u] = stack[u]
      /\ \A k \in 1..n : /\ stack'[w][k].d = stack[w][k].d /\ stack'[w][k].kind = stack[w][k].kind
                         /\ stack'[w][k].pc = IF k = n THEN pc ELSE stack[w][k].pc
  <2>1. Enter(w, pc, g) /\ pc \in PCs
    BY <1>6 DEF g, PCs
  <2> QED BY <1>1, <1>4, <1>7, <2>1, EnterEdits
<1>9. /\ \A e \in Driver : e # c => driver'[e] = driver[e] /\ (e \in doomed' <=> e \in doomed)
      /\ kind = "drop" => driver'[c] = "dropped" /\ (c \in doomed' => fut[c] # None)
      /\ kind = "poll" => driver'[c] = "child" /\ c \notin doomed'
      /\ doomed' \subseteq Driver
  BY <1>4, <1>6 DEF Drops, Either, TypeOK
<1>10. \A u \in Worker : \A k \in 1..Len(stack[u]) : stack[u][k].d \in Driver /\ stack[u][k].d # c
  BY <1>4, TopFacts DEF InFrame, FrameRec
<1>11. \A u \in Worker : InFrame(u) \subseteq InFrame(u)'
  BY <1>4, <1>8 DEF InFrame
<1>12. c \in InFrame(w)'
  BY <1>4, <1>7, <1>8 DEF InFrame
<1>13. Owned'
  BY <1>1, <1>9, <1>11, <1>12 DEF DInv, Owned
<1>14. ASSUME NEW u \in Worker, NEW k \in 1..Len(stack'[u]) PROVE Marked(stack[u][k])'
  <2>1. CASE u = w /\ k = n + 1
    BY <1>1, <1>7, <1>8, <1>9, <2>1 DEF Marked, Either
  <2>2. CASE u = w /\ k = n
    <3>1. stack[w][n].d = d /\ Marked(stack[w][n]) /\ d # c
      BY <1>2, <1>4, <1>10
    <3> QED BY <1>1, <1>4, <1>6, <1>8, <1>9, <2>2, <3>1 DEF Marked
  <2>3. CASE u # w \/ (k # n + 1 /\ k # n)
    <3>1. /\ k \in 1..Len(stack[u]) /\ stack'[u][k].d = stack[u][k].d
          /\ stack'[u][k].kind = stack[u][k].kind /\ stack'[u][k].pc = stack[u][k].pc
      BY <1>4, <1>8, <2>3
    <3>2. Marked(stack[u][k]) /\ stack[u][k].d # c /\ stack[u][k].d \in Driver
      BY <1>10, <3>1 DEF DInv
    <3> QED BY <1>1, <1>9, <3>1, <3>2 DEF Marked
  <2> QED BY <2>1, <2>2, <2>3
<1>15. ASSUME NEW e \in doomed' PROVE driver'[e] = "dropped" /\ (Over(e)' \/ Ending(e)')
  <2>1. CASE e = c
    <3>1. Ending(e)'
      BY <1>4, <1>7, <1>8, <2>1 DEF Ending
    <3> QED BY <1>9, <1>6, <2>1, <3>1 DEF Either
  <2>2. CASE e # c
    <3>1. e \in Driver /\ e \in doomed /\ driver'[e] = "dropped" /\ (Over(e) \/ Ending(e))
      BY <1>9, <2>2 DEF DInv
    <3>2. CASE Over(e)
      BY <1>1, <3>1, <3>2 DEF Over
    <3>3. CASE Ending(e)
      <4>1. PICK u \in Worker : \E k \in 1..Len(stack[u]) :
              stack[u][k].d = e /\ stack[u][k].pc \in {"begin", "dropping"}
        BY <3>3 DEF Ending
      <4>2. PICK k \in 1..Len(stack[u]) :
              stack[u][k].d = e /\ stack[u][k].pc \in {"begin", "dropping"}
        BY <4>1
      <4>3. /\ k \in 1..Len(stack'[u]) /\ stack'[u][k].d = e
            /\ stack'[u][k].pc = stack[u][k].pc \/ stack'[u][k].pc = "dropping"
        BY <1>2, <1>4, <1>6, <1>8, <3>1, <4>2
      <4> QED BY <3>1, <4>2, <4>3 DEF Ending
    <3> QED BY <3>1, <3>2, <3>3
  <2> QED BY <2>1, <2>2
<1> QED BY <1>13, <1>14, <1>15 DEF DInv

\* A worker takes up a task.
LEMMA TakeDrop ==
  ASSUME IInv, IInv', DInv, NEW w \in Worker, NEW d \in Driver, NEW kind \in Either, Take(w, d, kind),
         kind = "poll" => UNCHANGED <<driver, doomed>>,
         kind = "drop" => Drops(d),
         UNCHANGED <<fut, co>>
  PROVE  DInv'
<1> DEFINE g == Frame(kind, d, d)
<1>1. stack[w] = <<>> /\ driver[d] = "task" /\ stack' = [stack EXCEPT ![w] = <<g>>]
  BY DEF Take
<1>2. g.pc = "begin" /\ g.d = d /\ g.kind = kind
  BY DEF Frame
<1> HIDE DEF g
<1>3. /\ stack'[w] = <<g>> /\ Len(stack'[w]) = 1 /\ stack'[w][1] = g
      /\ \A u \in Worker : u # w => stack'[u] = stack[u]
  BY <1>1 DEF IInv, Typed
<1>4. d \notin doomed /\ TypeOK
  BY <1>1 DEF DInv, IInv
<1>5. /\ \A e \in Driver : e # d => driver'[e] = driver[e] /\ (e \in doomed' <=> e \in doomed)
      /\ kind = "drop" => driver'[d] = "dropped" /\ (d \in doomed' => fut[d] # None)
      /\ kind = "poll" => driver'[d] = "task" /\ d \notin doomed'
      /\ doomed' \subseteq Driver
  BY <1>1, <1>4 DEF Drops, Either, TypeOK
<1>6. \A u \in Worker : \A k \in 1..Len(stack[u]) :
        u # w /\ stack[u][k].d \in Driver /\ stack[u][k].d # d
  <2>1. \A u \in Worker : \A k \in 1..Len(stack[u]) :
          stack[u][k] \in InProgress(u) /\ stack[u][k] \in FrameRec
    BY TopFacts DEF IInv
  <2>2. Len(stack[w]) = 0
    BY <1>1
  <2> QED BY <2>1, <2>2 DEF Take, FrameRec
<1>7. \A u \in Worker : InFrame(u) \subseteq InFrame(u)'
  <2>1. InFrame(w) = {}
    BY <1>6 DEF InFrame
  <2>2. \A u \in Worker : u # w => InFrame(u)' = InFrame(u)
    BY <1>3 DEF InFrame
  <2> QED BY <2>1, <2>2
<1>8. \A q \in Driver : fut[q] # d
  BY <1>1 DEF IInv, Family
<1>9. Owned'
  BY <1>5, <1>7, <1>8 DEF DInv, Owned
<1>10. ASSUME NEW u \in Worker, NEW k \in 1..Len(stack'[u]) PROVE Marked(stack[u][k])'
  <2>1. CASE u = w
    <3>1. k = 1
      <4>1. Len(stack'[u]) = 1
        BY <1>3, <2>1
      <4> QED BY <4>1
    <3> QED BY <1>2, <1>3, <1>5, <2>1, <3>1 DEF Marked, Either
  <2>2. CASE u # w
    <3>1. k \in 1..Len(stack[u]) /\ stack'[u][k] = stack[u][k]
      BY <1>3, <2>2
    <3>2. Marked(stack[u][k]) /\ stack[u][k].d # d /\ stack[u][k].d \in Driver
      BY <1>6, <3>1 DEF DInv
    <3> QED BY <1>5, <3>1, <3>2 DEF Marked
  <2> QED BY <2>1, <2>2
<1>11. ASSUME NEW e \in doomed' PROVE driver'[e] = "dropped" /\ (Over(e)' \/ Ending(e)')
  <2>1. CASE e = d
    <3>1. Ending(e)'
      BY <1>2, <1>3, <2>1 DEF Ending
    <3> QED BY <1>5, <2>1, <3>1 DEF Either
  <2>2. CASE e # d
    <3>1. e \in Driver /\ e \in doomed /\ driver'[e] = "dropped" /\ (Over(e) \/ Ending(e))
      BY <1>5, <2>2 DEF DInv
    <3>2. Over(e) => Over(e)'
      BY DEF Over
    <3>3. ASSUME Ending(e) PROVE Ending(e)'
      <4>1. PICK u \in Worker : \E k \in 1..Len(stack[u]) :
              stack[u][k].d = e /\ stack[u][k].pc \in {"begin", "dropping"}
        BY <3>3 DEF Ending
      <4>2. stack'[u] = stack[u]
        BY <1>3, <1>6, <4>1
      <4> QED BY <4>1, <4>2 DEF Ending
    <3> QED BY <3>1, <3>2, <3>3
  <2> QED BY <2>1, <2>2
<1> QED BY <1>9, <1>10, <1>11 DEF DInv

\* A drop that is at its end has ended the future.
LEMMA EndedOver ==
  ASSUME IInv, DInv, NEW w \in Worker, stack[w] # <<>>, Top(w).pc = "ended", Top(w).d \in doomed
  PROVE  Over(Top(w).d)
<1>1. Len(stack[w]) \in 1..Len(stack[w]) /\ Top(w) = stack[w][Len(stack[w])]
  BY TopFacts DEF IInv
<1>2. ASSUME Ending(Top(w).d) PROVE FALSE
  <2>1. PICK u \in Worker : \E k \in 1..Len(stack[u]) :
          stack[u][k].d = Top(w).d /\ stack[u][k].pc \in {"begin", "dropping"}
    BY <1>2 DEF Ending
  <2>2. PICK k \in 1..Len(stack[u]) :
          stack[u][k].d = Top(w).d /\ stack[u][k].pc \in {"begin", "dropping"}
    BY <2>1
  <2>3. u = w /\ k = Len(stack[w])
    BY <1>1, <2>2 DEF IInv, Once
  <2> QED BY <1>1, <2>2, <2>3
<1> QED BY <1>2 DEF DInv

\* A poll or a drop of a task ends.
LEMMA FinishDrop ==
  ASSUME IInv, IInv', DInv, NEW w \in Worker, Return(w), Len(stack[w]) = 1
  PROVE  DInv'
<1>1. /\ stack[w] # <<>> /\ Top(w).pc = "ended" /\ doomed' = doomed
      /\ driver' = IF Complete(w) THEN [driver EXCEPT ![Top(w).d] = "dropped"] ELSE driver
  BY DEF Return, At
<1>2. stack' = [stack EXCEPT ![w] = <<>>] /\ UNCHANGED <<co, fut>>
  <2>1. Below(w) = <<>>
    BY <1>1, BelowFacts DEF IInv
  <2> QED BY <2>1 DEF Return
<1>3. PICK d \in Driver : d = Top(w).d
  BY <1>1, TopDriver
<1>4. Top(w) = stack[w][1] /\ 1 \in 1..Len(stack[w])
  BY <1>1, TopFacts DEF IInv
<1>5. stack'[w] = <<>> /\ Len(stack'[w]) = 0 /\ \A u \in Worker : u # w => stack'[u] = stack[u]
  BY <1>2 DEF IInv, Typed
<1>6. \A u \in Worker : \A k \in 1..Len(stack[u]) :
        stack[u][k].d \in Driver /\ (u # w => stack[u][k].d # d) /\ (u = w => stack[u][k].d = d)
  <2>1. \A u \in Worker : \A k \in 1..Len(stack[u]) : stack[u][k] \in FrameRec
    BY TopFacts DEF IInv
  <2>2. \A k \in 1..Len(stack[w]) : k = 1
    OBVIOUS
  <2> QED BY <1>3, <1>4, <2>1, <2>2 DEF IInv, Once, FrameRec
<1>7. \A e \in Driver : /\ e # d => driver'[e] = driver[e]
                        /\ driver[e] = "dropped" => driver'[e] = "dropped"
  BY <1>1, <1>3 DEF IInv, TypeOK
<1>8. \A q \in Driver : fut[q] # d
  BY <1>3, <1>4 DEF IInv, Shape
<1>9. Owned'
  <2> SUFFICES ASSUME NEW q \in Driver, fut[q] \in Driver, driver'[fut[q]] = "dropped"
               PROVE  \E u \in Worker : fut[q] \in InFrame(u)'
    BY <1>2 DEF Owned
  <2>1. PICK u \in Worker : fut[q] \in InFrame(u)
    BY <1>7, <1>8 DEF DInv, Owned
  <2>2. u # w
    BY <1>6, <1>8, <2>1 DEF InFrame
  <2>3. InFrame(u)' = InFrame(u)
    BY <1>5, <2>2 DEF InFrame
  <2> QED BY <2>1, <2>3
<1>10. ASSUME NEW u \in Worker, NEW k \in 1..Len(stack'[u]) PROVE Marked(stack[u][k])'
  <2>1. u # w
    BY <1>5, <1>10
  <2>2. k \in 1..Len(stack[u]) /\ stack'[u][k] = stack[u][k]
    BY <1>5, <2>1
  <2>3. Marked(stack[u][k]) /\ stack[u][k].d # d /\ stack[u][k].d \in Driver
    BY <1>6, <2>1, <2>2 DEF DInv
  <2> QED BY <1>1, <1>2, <1>7, <2>2, <2>3 DEF Marked
<1>11. ASSUME NEW e \in doomed' PROVE driver'[e] = "dropped" /\ (Over(e)' \/ Ending(e)')
  <2>1. e \in Driver /\ e \in doomed /\ driver'[e] = "dropped" /\ (Over(e) \/ Ending(e))
    BY <1>1, <1>7, <1>11 DEF DInv, IInv, TypeOK
  <2>2. Over(e) => Over(e)'
    BY <1>2 DEF Over
  <2>3. e = d => Over(e)
    BY <1>1, <1>3, <2>1, EndedOver
  <2>4. e # d /\ Ending(e) => Ending(e)'
    BY <1>5, <1>6 DEF Ending
  <2> QED BY <2>1, <2>2, <2>3, <2>4
<1> QED BY <1>9, <1>10, <1>11 DEF DInv

\* The end of a nested poll or drop: the parent's poller goes on.
LEMMA PopDrop ==
  ASSUME IInv, IInv', DInv, NEW w \in Worker, Return(w), Len(stack[w]) # 1
  PROVE  DInv'
<1> DEFINE n == Len(stack[w])
           m == n - 1
<1>1. /\ stack[w] # <<>> /\ Top(w).pc = "ended" /\ doomed' = doomed
      /\ driver' = IF Complete(w) THEN [driver EXCEPT ![Top(w).d] = "dropped"] ELSE driver
  BY DEF Return, At
<1>2. PICK d \in Driver : d = Top(w).d
  BY <1>1, TopDriver
<1>3. /\ TypeOK /\ Typed /\ Top(w) = stack[w][n] /\ n \in 1..n /\ n \in Nat /\ n > 0 /\ Top(w).kind \in Either
      /\ \A u \in Worker : \A k \in 1..Len(stack[u]) : stack[u][k].d \in Driver
  BY <1>1, TopDriver, TopFacts DEF IInv, FrameRec
<1>4. /\ m \in Nat /\ m \in 1..n /\ m \in 1..m /\ m # n /\ m < n /\ m + 1 = n
  <2>1. n \in Nat /\ n > 0
    BY <1>3
  <2> HIDE DEF n
  <2>2. n # 1
    BY DEF n
  <2> QED BY <2>1, <2>2
<1>5. PICK a \in Driver : a = stack[w][m].d
  BY <1>3, <1>4
<1>6. /\ stack[w][m].pc \in {"polling", "dropping"} /\ d = fut[a]
      /\ (stack[w][m].pc = "dropping" => Top(w).kind = "drop")
      /\ Below(w) # <<>> /\ Last(Below(w)) = stack[w][m] /\ Marked(stack[w][m]) /\ Marked(Top(w))
  <2>1. /\ stack[w][m].pc \in {"polling", "dropping"} /\ stack[w][m + 1].d = fut[a]
        /\ (stack[w][m].pc = "dropping" => stack[w][m + 1].kind = "drop")
    BY <1>4, <1>5 DEF IInv, Shape
  <2>2. Below(w) # <<>> /\ Last(Below(w)) = stack[w][m]
    BY <1>1, BelowFacts DEF IInv
  <2> QED BY <1>2, <1>3, <1>4, <2>1, <2>2 DEF DInv
<1>7. a # d
  <2> HIDE DEF m
  <2> QED BY <1>2, <1>3, <1>4, <1>5 DEF IInv, Once
<1>8. \E pc \in {"running", "ended"} :
        /\ Continue(w, pc)
        /\ \A e \in Driver : e # a => fut'[e] = fut[e] /\ co'[e] = co[e]
        /\ fut'[a] = None \/ (fut'[a] = d /\ Top(w).kind = "poll" /\ ~Complete(w))
        /\ a \in doomed => pc = "ended" /\ Over(a)'
  <2>1. \/ /\ stack[w][m].pc = "polling" /\ fut' = [fut EXCEPT ![a] = None]
           /\ Continue(w, "running") /\ UNCHANGED co
        \/ /\ stack[w][m].pc = "polling" /\ Top(w).kind = "poll" /\ ~Complete(w)
           /\ \E where \in {"awaiting", "broken"} : co' = [co EXCEPT ![a] = where]
           /\ Continue(w, "ended") /\ UNCHANGED fut
        \/ /\ stack[w][m].pc = "dropping" /\ fut' = [fut EXCEPT ![a] = None]
           /\ \E where \in {"parked", "broken"} : co' = [co EXCEPT ![a] = where]
           /\ Continue(w, "ended")
    BY <1>5, <1>6 DEF Return, Parks
  <2>2. a \in doomed => stack[w][m].pc # "polling"
    BY <1>5, <1>6 DEF Marked
  <2> QED BY <1>3, <1>6, <2>1, <2>2 DEF TypeOK, Over
<1>9. PICK pc \in {"running", "ended"} :
        /\ Continue(w, pc)
        /\ \A e \in Driver : e # a => fut'[e] = fut[e] /\ co'[e] = co[e]
        /\ fut'[a] = None \/ (fut'[a] = d /\ Top(w).kind = "poll" /\ ~Complete(w))
        /\ a \in doomed => pc = "ended" /\ Over(a)'
  BY <1>8
<1>10. /\ Len(stack'[w]) = m /\ \A u \in Worker : u # w => stack'[u] = stack[u]
       /\ \A k \in 1..m :
            /\ stack'[w][k].d = stack[w][k].d /\ stack'[w][k].kind = stack[w][k].kind
            /\ stack'[w][k].pc = IF k = m THEN pc ELSE stack[w][k].pc
  <2>1. pc \in PCs
    BY DEF PCs
  <2> QED BY <1>1, <1>3, <1>9, <2>1, ContinueEdits
<1>11. \A u \in Worker : \A k \in 1..Len(stack[u]) :
         /\ stack[u][k].d = d <=> u = w /\ k = n
         /\ stack[u][k].d = a <=> u = w /\ k = m
  <2> HIDE DEF m
  <2> QED BY <1>2, <1>3, <1>4, <1>5 DEF IInv, Once
<1>12. \A e \in Driver : /\ e # d => driver'[e] = driver[e]
                         /\ driver[e] = "dropped" => driver'[e] = "dropped"
                         /\ ~Complete(w) => driver'[e] = driver[e]
  BY <1>1, <1>2, <1>3 DEF TypeOK
<1>13. Owned'
  <2> SUFFICES ASSUME NEW q \in Driver, fut'[q] \in Driver, driver'[fut'[q]] = "dropped"
               PROVE  \E u \in Worker : fut'[q] \in InFrame(u)'
    BY DEF Owned
  <2>1. q # a
    BY <1>2, <1>6, <1>9, <1>12, AsyncAssumption DEF Marked
  <2>2. fut'[q] = fut[q] /\ fut[q] # d
    BY <1>6, <1>9, <2>1 DEF IInv, Family
  <2>3. PICK u \in Worker : fut[q] \in InFrame(u)
    BY <1>12, <2>2 DEF DInv, Owned
  <2>4. PICK k \in 1..Len(stack[u]) : fut[q] = stack[u][k].d
    BY <2>3 DEF InFrame
  <2>5. k \in 1..Len(stack'[u]) /\ stack'[u][k].d = fut[q]
    <3>1. u # w \/ k # n
      BY <1>11, <2>2, <2>4
    <3> QED BY <1>3, <1>10, <2>4, <3>1
  <2> QED BY <2>2, <2>5 DEF InFrame
<1>14. ASSUME NEW u \in Worker, NEW k \in 1..Len(stack'[u]) PROVE Marked(stack[u][k])'
  <2>1. /\ k \in 1..Len(stack[u]) /\ (u # w \/ k # n)
        /\ stack'[u][k].d = stack[u][k].d /\ stack'[u][k].kind = stack[u][k].kind
        /\ u # w \/ k # m => stack'[u][k].pc = stack[u][k].pc
        /\ u = w /\ k = m => stack'[u][k].pc = pc
    <3>1. CASE u = w
      <4>1. k \in 1..m /\ k \in 1..n /\ k # n
        <5>1. Len(stack'[u]) = m
          BY <1>10, <3>1
        <5> QED BY <1>3, <5>1
      <4> QED BY <1>10, <3>1, <4>1
    <3>2. CASE u # w
      BY <1>10, <3>2
    <3> QED BY <3>1, <3>2
  <2>2. Marked(stack[u][k]) /\ stack[u][k].d \in Driver /\ stack[u][k].d # d
    BY <1>3, <1>11, <2>1 DEF DInv
  <2>3. CASE u = w /\ k = m
    <3>1. stack[u][k].d = a
      BY <1>5, <2>3
    <3>2. driver'[a] = driver[a]
      BY <1>7, <1>12
    <3> QED BY <1>1, <1>9, <2>1, <2>2, <2>3, <3>1, <3>2 DEF Marked
  <2>4. CASE u # w \/ k # m
    <3>1. stack[u][k].d # a
      BY <1>11, <2>1, <2>4
    <3>2. driver'[stack[u][k].d] = driver[stack[u][k].d] /\ fut'[stack[u][k].d] = fut[stack[u][k].d]
      BY <1>9, <1>12, <2>2, <3>1
    <3> QED BY <1>1, <2>1, <2>2, <2>4, <3>2 DEF Marked
  <2> QED BY <2>3, <2>4
<1>15. ASSUME NEW e \in doomed' PROVE driver'[e] = "dropped" /\ (Over(e)' \/ Ending(e)')
  <2>1. e \in Driver /\ e \in doomed /\ driver'[e] = "dropped" /\ (Over(e) \/ Ending(e))
    BY <1>1, <1>3, <1>12, <1>15 DEF DInv, TypeOK
  <2>2. CASE e = a
    BY <1>9, <2>1, <2>2
  <2>3. CASE e # a
    <3>1. Over(e) => Over(e)'
      BY <1>9, <2>1, <2>3 DEF Over
    <3>2. e = d => Over(e)
      BY <1>1, <1>2, <2>1, EndedOver
    <3>3. ASSUME e # d, Ending(e) PROVE Ending(e)'
      <4>1. PICK u \in Worker : \E k \in 1..Len(stack[u]) :
              stack[u][k].d = e /\ stack[u][k].pc \in {"begin", "dropping"}
        BY <3>3 DEF Ending
      <4>2. PICK k \in 1..Len(stack[u]) :
              stack[u][k].d = e /\ stack[u][k].pc \in {"begin", "dropping"}
        BY <4>1
      <4>3. u # w \/ (k # n /\ k # m)
        BY <1>11, <2>3, <3>3, <4>2
      <4>4. k \in 1..Len(stack'[u]) /\ stack'[u][k].d = e /\ stack'[u][k].pc = stack[u][k].pc
        <5>1. CASE u = w
          <6>1. k \in 1..m /\ k # m /\ Len(stack'[w]) = m
            BY <1>3, <1>10, <4>3, <5>1
          <6> QED BY <1>10, <4>2, <5>1, <6>1
        <5>2. CASE u # w
          BY <1>10, <4>2, <5>2
        <5> QED BY <5>1, <5>2
      <4> QED BY <4>2, <4>4 DEF Ending
    <3> QED BY <2>1, <3>1, <3>2, <3>3
  <2> QED BY <2>2, <2>3
<1> QED BY <1>13, <1>14, <1>15 DEF DInv

\* A task is spawned, an event happens, or nothing does.
LEMMA ExecutorDrop ==
  ASSUME IInv, DInv, UNCHANGED <<stack, fut, doomed>>,
         \A e \in Driver : driver'[e] = "dropped" <=> driver[e] = "dropped",
         \A e \in Driver : driver[e] # "none" => co'[e] = co[e]
  PROVE  DInv'
<1>1. Owned'
  BY DEF DInv, Owned, InFrame
<1>2. \A u \in Worker : \A k \in 1..Len(stack[u]) : stack[u][k].d \in Driver
  BY TopFacts DEF IInv, FrameRec
<1>3. \A u \in Worker : \A k \in 1..Len(stack[u]) : Marked(stack[u][k])'
  BY <1>2 DEF DInv, Marked
<1>4. ASSUME NEW e \in doomed PROVE driver'[e] = "dropped" /\ (Over(e)' \/ Ending(e)')
  <2>1. e \in Driver /\ driver[e] = "dropped" /\ (Over(e) \/ Ending(e))
    BY DEF DInv, IInv, TypeOK
  <2> QED BY <2>1 DEF Over, Ending
<1> QED BY <1>1, <1>3, <1>4 DEF DInv

\* Every step keeps what is known of drops.
LEMMA NextDrop == ASSUME IInv, IInv', DInv, [Next]_vars PROVE DInv'
<1>1. ASSUME NEW d \in Driver, NEW v \in VM, Spawn(d, v) PROVE DInv'
  <2>1. /\ UNCHANGED <<stack, fut, doomed>> /\ driver[d] = "none"
        /\ driver' = [driver EXCEPT ![d] = "task"] /\ co' = [co EXCEPT ![d] = "fresh"]
    BY <1>1 DEF Spawn
  <2>2. /\ \A e \in Driver : driver'[e] = "dropped" <=> driver[e] = "dropped"
        /\ \A e \in Driver : driver[e] # "none" => co'[e] = co[e]
    BY <2>1 DEF IInv, TypeOK
  <2> QED BY <2>1, <2>2, ExecutorDrop
<1>2. ASSUME NEW w \in Worker, NEW d \in Driver, Schedule(w, d) PROVE DInv'
  <2>1. Take(w, d, "poll") /\ UNCHANGED <<driver, doomed, fut, co>> /\ "poll" \in Either
    BY <1>2 DEF Schedule, lua, Either
  <2> QED BY <2>1, TakeDrop
<1>3. ASSUME NEW w \in Worker, NEW d \in Driver, Cancel(w, d) PROVE DInv'
  <2>1. Take(w, d, "drop") /\ Drops(d) /\ UNCHANGED <<fut, co>> /\ "drop" \in Either
    BY <1>3 DEF Cancel, Either
  <2> QED BY <2>1, TakeDrop
<1>4. ASSUME NEW d \in Driver, Fire(d) PROVE DInv'
  BY <1>4, ExecutorDrop DEF Fire
<1>5. ASSUME NEW w \in Worker, Work(w) PROVE DInv'
  <2>1. CASE set_current_waker(w) \/ \E k \in {"io", "values"} \cup Driver : get_future(w, k)
    BY <2>1, FutureDrop
  <2>2. CASE \/ resume_for_async(w) \/ LuaEnds(w) \/ LuaYields(w) \/ Interrupted(w)
             \/ poll_io(w) \/ poll_values(w)
    BY <2>2, WorkDrop
  <2>3. CASE terminate_async(w)
    BY <2>3, WorkDrop, NestDrop
  <2>4. CASE poll_child(w) \/ drop_child(w)
    BY <2>4, NestDrop
  <2>5. CASE Return(w)
    BY <2>5, FinishDrop, PopDrop
  <2> QED BY <1>5, <2>1, <2>2, <2>3, <2>4, <2>5 DEF Work
<1>6. ASSUME UNCHANGED vars PROVE DInv'
  BY <1>6, ExecutorDrop DEF vars, lua
<1> QED BY <1>1, <1>2, <1>3, <1>4, <1>5, <1>6 DEF Next

\* A driver that is dropped with a future in flight (AsyncThread::drop) ends the
\* future: when the drop is over the coroutine is parked without it, unless it was
\* interrupted, and no AsyncThread outlives the future that owns it undropped.
THEOREM DroppedWholeCorrect == ASSUME OneAtATime PROVE Spec => []DroppedWhole
<1>1. Init => DInv
  <2> SUFFICES ASSUME Init PROVE DInv
    OBVIOUS
  <2>1. \A w \in Worker : stack[w] = <<>> /\ Len(stack[w]) = 0
    BY DEF Init
  <2>2. doomed = {} /\ \A q \in Driver : fut[q] \notin Driver
    BY AsyncAssumption DEF Init
  <2> QED BY <2>1, <2>2 DEF DInv, Owned
<1>2. IInv /\ IInv' /\ DInv /\ [Next]_vars => DInv'
  BY NextDrop
<1>3. ASSUME IInv, DInv PROVE DroppedWhole
  <2>1. ASSUME NEW d \in doomed
        PROVE  \/ \E w \in Worker : \E f \in InProgress(w) : f.kind = "drop" /\ f.d = d
               \/ co[d] = "parked" /\ fut[d] = None
               \/ co[d] = "broken"
    <3>1. driver[d] = "dropped" /\ (Over(d) \/ Ending(d))
      BY <1>3 DEF DInv
    <3>2. ASSUME Ending(d) PROVE \E w \in Worker : \E f \in InProgress(w) : f.kind = "drop" /\ f.d = d
      <4>1. PICK u \in Worker : \E k \in 1..Len(stack[u]) : stack[u][k].d = d
        BY <3>2 DEF Ending
      <4>2. PICK k \in 1..Len(stack[u]) : stack[u][k].d = d
        BY <4>1
      <4>3. stack[u][k] \in InProgress(u) /\ stack[u][k] \in FrameRec /\ Marked(stack[u][k])
        BY <1>3, TopFacts DEF IInv, DInv
      <4> QED BY <3>1, <4>2, <4>3 DEF Marked, FrameRec, Either
    <3> QED BY <3>1, <3>2 DEF Over
  <2>2. ASSUME NEW d \in Driver, driver[d] = "child"
        PROVE  \E p \in Driver : fut[p] = d /\ co[p] \in {"running", "awaiting", "broken"}
    BY <1>3, <2>2, AsyncAssumption DEF IInv, TypeOK, Made, Family, Resumable
  <2> QED BY <2>1, <2>2 DEF DroppedWhole
<1> QED BY <1>1, <1>2, <1>3, Inductive, PTL DEF Spec
=============================================================================
