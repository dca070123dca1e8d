---------------------------- MODULE AsyncBridge ----------------------------
(***************************************************************************)
(* Futures and coroutines: the poller of async.rs and the AsyncThread that *)
(* drives a coroutine as a Rust future, on an executor with several        *)
(* threads.                                                                *)
(*                                                                         *)
(* A task of the executor owns an AsyncThread.  A poll of it puts the      *)
(* waker of the task into the slot of the VM, resumes the coroutine under  *)
(* the lock of the VM, and puts the former waker back.  Lua code of the    *)
(* coroutine calls async functions; the poller polls their futures with    *)
(* the waker it finds in the slot and yields while they are pending.  A    *)
(* future may itself own an AsyncThread, by call_async, and poll or drop   *)
(* it: polls nest.                                                         *)
(***************************************************************************)
EXTENDS Naturals, FiniteSets, SequencesExt

CONSTANTS
  Driver,      \* AsyncThreads, each with a coroutine of its own
  VM,
  Worker,      \* threads of the executor
  OneAtATime,  \* do workers poll the tasks of one VM one at a time?
  MaxOps,      \* bound: how often a coroutine yields or calls an async function
  None

Futures == {"io", "values", "sent"}

ASSUME AsyncAssumption ==
  /\ OneAtATime \in BOOLEAN /\ MaxOps \in Nat
  /\ None \notin Driver \cup VM \cup Futures /\ Driver \cap Futures = {}

VARIABLES
  driver,  \* of an AsyncThread: "none", "task", "child" of a future, "dropped"
  vm,      \* VM of the coroutine
  co,      \* where the coroutine is
  ops,     \* operations it has left
  fut,     \* its future in flight: None, "io", "values", "sent" or a driver
  ready,   \* has the event an "io" future waits for happened?
  waker,   \* the task that an "io" future has registered to be woken; or None
  slot,    \* AsyncVmState::waker
  stack,   \* of a worker: the polls and drops it is in
  queue,   \* tasks that were woken
  doomed   \* history: the AsyncThreads dropped with a future in flight

lua  == <<driver, vm, co, ops, fut, ready, waker, doomed>>
vars == <<lua, slot, stack, queue>>

Resumable == {"fresh", "yielded", "awaiting"}

(***************************************************************************)
(* A worker's innermost frame.  It has the lock of its VM while it runs    *)
(* Lua code or polls or drops a future from there; the lock is reentrant.  *)
(***************************************************************************)
Frame(kind, d, wk) == [kind |-> kind, d |-> d, waker |-> wk, prev |-> None, pc |-> "begin"]
Top(w) == Last(stack[w])
At(w, kind, pc) == stack[w] # <<>> /\ Top(w).kind \in kind /\ Top(w).pc = pc
Either == {"poll", "drop"}

Goto(w, pc) == stack' = [stack EXCEPT ![w][Len(stack[w])].pc = pc]
Enter(w, pc, frame) ==
  stack' = [stack EXCEPT ![w] = Append([stack[w] EXCEPT ![Len(stack[w])].pc = pc], frame)]

InProgress(w) == {stack[w][i] : i \in DOMAIN stack[w]}
CanLock(w, v) ==
  \A u \in Worker \ {w} : \A f \in InProgress(u) :
    f.pc \in {"running", "polling", "dropping"} => vm[f.d] # v

\* Waker::wake_by_ref; a task that is gone is not scheduled any more
Woken(t) == IF t \in Driver /\ driver[t] = "task" THEN queue \cup {t} ELSE queue

-----------------------------------------------------------------------------
(***************************************************************************)
(* The executor.                                                           *)
(***************************************************************************)
\* call_async, into_async; the future is given to the executor.
Spawn(d, v) ==
  /\ driver[d] = "none"
  /\ driver' = [driver EXCEPT ![d] = "task"]
  /\ vm' = [vm EXCEPT ![d] = v]
  /\ co' = [co EXCEPT ![d] = "fresh"]
  /\ queue' = queue \cup {d}
  /\ UNCHANGED <<ops, fut, ready, waker, slot, stack, doomed>>

\* A worker takes up a task, to poll or to drop it.
Take(w, d, kind) ==
  /\ stack[w] = <<>>
  /\ driver[d] = "task"
  /\ \A u \in Worker : \A f \in InProgress(u) :
       f.d # d /\ (OneAtATime => vm[f.d] # vm[d])
  /\ stack' = [stack EXCEPT ![w] = <<Frame(kind, d, d)>>]
  /\ queue' = queue \ {d}

Schedule(w, d) ==
  /\ d \in queue
  /\ Take(w, d, "poll")
  /\ UNCHANGED <<lua, slot>>

\* AsyncThread::drop begins
Drops(d) ==
  /\ driver' = [driver EXCEPT ![d] = "dropped"]
  /\ doomed' = IF fut[d] # None THEN doomed \cup {d} ELSE doomed

\* A timeout, or the end of the program
Cancel(w, d) ==
  /\ Take(w, d, "drop")
  /\ Drops(d)
  /\ UNCHANGED <<vm, co, ops, fut, ready, waker, slot>>

\* The event that a future waits for happens.
Fire(d) ==
  /\ fut[d] = "io" /\ ~ready[d]
  /\ ready' = [ready EXCEPT ![d] = TRUE]
  /\ queue' = Woken(waker[d])
  /\ UNCHANGED <<driver, doomed, vm, co, ops, fut, waker, slot, stack>>

-----------------------------------------------------------------------------
(***************************************************************************)
(* AsyncThread::poll.  Each of its steps may wait for the lock, except the *)
(* last one, the drop of the WakerGuard.                                   *)
(***************************************************************************)
set_current_waker(w) ==
  LET v == vm[Top(w).d]
  IN /\ At(w, {"poll"}, "begin")
     /\ CanLock(w, v)
     /\ stack' = [stack EXCEPT ![w][Len(stack[w])].prev = slot[v],
                               ![w][Len(stack[w])].pc = "set"]
     /\ slot' = [slot EXCEPT ![v] = Top(w).waker]
     /\ UNCHANGED <<lua, queue>>

\* lua_resume: the coroutine goes on, in the poller if it was there.
resume_for_async(w) ==
  LET d == Top(w).d
  IN /\ At(w, {"poll"}, "set")
     /\ CanLock(w, vm[d])
     /\ co[d] \in Resumable
     /\ co' = [co EXCEPT ![d] = "running"]
     /\ Goto(w, IF co[d] = "awaiting" THEN "polling" ELSE "running")
     /\ UNCHANGED <<driver, doomed, vm, ops, fut, ready, waker, slot, queue>>

\* The poller has the marker: it drops its future and yields for good, or is
\* interrupted before it can.
Parks(d) ==
  /\ fut' = [fut EXCEPT ![d] = None]
  /\ \E where \in {"parked", "broken"} : co' = [co EXCEPT ![d] = where]

\* Mutant: a coroutine in the poller is left alone.
terminate_async_not(w) ==
  LET d == Top(w).d
  IN /\ At(w, {"drop"}, "begin")
     /\ CanLock(w, vm[d])
     /\ IF co[d] = "awaiting"
        THEN Goto(w, "ended") /\ UNCHANGED co
        ELSE Goto(w, "running") /\ co' = [co EXCEPT ![d] = "running"]
     /\ UNCHANGED <<driver, doomed, vm, ops, fut, ready, waker, slot, queue>>

(***************************************************************************)
(* AsyncThread::drop: the coroutine is resumed once more, with the         *)
(* terminate marker.  Only the poller knows the marker: it drops its       *)
(* future, and what the future owns, and parks, unless it is interrupted   *)
(* first (see Interrupted).  A coroutine that has not started, or that     *)
(* yielded elsewhere, just runs on.                                        *)
(***************************************************************************)
terminate_async(w) ==
  LET d == Top(w).d
      c == fut[d]
  IN /\ At(w, {"drop"}, "begin")
     /\ CanLock(w, vm[d])
     /\ \/ /\ co[d] \in {"fresh", "yielded"}
           /\ co' = [co EXCEPT ![d] = "running"]
           /\ Goto(w, "running")
           /\ UNCHANGED <<driver, doomed, fut>>
        \/ /\ co[d] = "awaiting" /\ c \in Futures
           /\ Parks(d)
           /\ Goto(w, "ended")
           /\ UNCHANGED <<driver, doomed>>
        \/ /\ co[d] = "awaiting" /\ c \in Driver
           /\ Drops(c)
           /\ Enter(w, "dropping", Frame("drop", c, None))
           /\ UNCHANGED <<co, fut>>
     /\ UNCHANGED <<vm, ops, ready, waker, slot, queue>>

-----------------------------------------------------------------------------
(***************************************************************************)
(* The coroutine, in a resume.                                             *)
(***************************************************************************)
\* The coroutine is done or suspended, the resume returns.
Leave(w, where) ==
  /\ co' = [co EXCEPT ![Top(w).d] = where]
  /\ Goto(w, "ended")

\* Lua code returns, raises an error, or is interrupted by the callback of
\* set_interrupt: LUA_BREAK counts as an error here.
LuaEnds(w) ==
  /\ At(w, Either, "running")
  /\ \E where \in {"finished", "broken"} : Leave(w, where)
  /\ UNCHANGED <<driver, doomed, vm, ops, fut, ready, waker, slot, queue>>

\* Mutant: the task is not woken.
Yielded_quiet(w) == queue' = queue

\* Mutant: the task is woken while it is dropped, too.
Yielded_always(w) == queue' = queue \cup {Top(w).waker}

\* AsyncResume::Yielded: the values are discarded, the task is to poll again.
Yielded(w) == queue' = IF Top(w).kind = "poll" THEN Woken(Top(w).waker) ELSE queue

\* coroutine.yield
LuaYields(w) ==
  LET d == Top(w).d
  IN /\ At(w, Either, "running")
     /\ ops[d] > 0
     /\ ops' = [ops EXCEPT ![d] = @ - 1]
     /\ Leave(w, "yielded")
     /\ Yielded(w)
     /\ UNCHANGED <<driver, doomed, vm, fut, ready, waker, slot>>

\* An async function is called; its future waits for an event, yields values
\* to the driver (yield_with), or owns an AsyncThread (call_async).
get_future(w, k) ==
  LET d == Top(w).d
  IN /\ At(w, Either, "running")
     /\ ops[d] > 0
     /\ ops' = [ops EXCEPT ![d] = @ - 1]
     /\ fut' = [fut EXCEPT ![d] = k]
     /\ ready' = [ready EXCEPT ![d] = FALSE]
     /\ waker' = [waker EXCEPT ![d] = None]
     /\ Goto(w, "polling")
     /\ IF k \in Driver
        THEN /\ driver[k] = "none"
             /\ driver' = [driver EXCEPT ![k] = "child"]
             /\ vm' = [vm EXCEPT ![k] = vm[d]]
             /\ co' = [co EXCEPT ![k] = "fresh"]
        ELSE /\ k \in {"io", "values"}
             /\ UNCHANGED <<driver, vm, co>>
     /\ UNCHANGED <<slot, queue, doomed>>

\* The future is pending: the poller yields, or is interrupted before it can.
Pending(w) == \E where \in {"awaiting", "broken"} : Leave(w, where)

\* It is interrupted where it calls poll, after it was resumed or called: the
\* future is not polled, nor dropped when the resume has the marker.
Interrupted(w) ==
  /\ \/ At(w, Either, "polling")
     \/ /\ At(w, {"drop"}, "begin") /\ co[Top(w).d] = "awaiting"
        /\ CanLock(w, vm[Top(w).d])
  /\ Leave(w, "broken")
  /\ UNCHANGED <<driver, doomed, vm, ops, fut, ready, waker, slot, queue>>

\* current_waker; None is the waker that does nothing
current_waker(w) == slot[vm[Top(w).d]]

poll_io(w) ==
  LET d == Top(w).d
  IN /\ At(w, Either, "polling") /\ fut[d] = "io"
     /\ IF ready[d]
        THEN /\ fut' = [fut EXCEPT ![d] = None]
             /\ Goto(w, "running")
             /\ UNCHANGED <<co, waker>>
        ELSE /\ waker' = [waker EXCEPT ![d] = current_waker(w)]
             /\ Pending(w)
             /\ UNCHANGED fut
     /\ UNCHANGED <<driver, doomed, vm, ops, ready, slot, queue>>

\* Mutant: the values are not taken out of the future, it sends them again.
poll_values_again(w) ==
  LET d == Top(w).d
  IN /\ At(w, Either, "polling") /\ fut[d] = "values"
     /\ Leave(w, "awaiting")
     /\ Yielded(w)
     /\ UNCHANGED <<driver, doomed, vm, ops, fut, ready, waker, slot>>

\* The future of yield_with: pending at first, ready when it is resumed.
poll_values(w) ==
  LET d == Top(w).d
  IN /\ At(w, Either, "polling")
     /\ \/ /\ fut[d] = "values"
           /\ fut' = [fut EXCEPT ![d] = "sent"]
           /\ Leave(w, "awaiting")
           /\ Yielded(w)
        \/ /\ fut[d] = "sent"
           /\ fut' = [fut EXCEPT ![d] = None]
           /\ Goto(w, "running")
           /\ UNCHANGED <<co, queue>>
     /\ UNCHANGED <<driver, doomed, vm, ops, ready, waker, slot>>

\* The future polls its AsyncThread with the waker it was given.
poll_child(w) ==
  LET d == Top(w).d
  IN /\ At(w, Either, "polling") /\ fut[d] \in Driver
     /\ Enter(w, "polling", Frame("poll", fut[d], current_waker(w)))
     /\ UNCHANGED <<lua, slot, queue>>

\* The future gives up on its AsyncThread: a timeout around call_async.
drop_child(w) ==
  LET d == Top(w).d
  IN /\ At(w, Either, "polling") /\ fut[d] \in Driver
     /\ Drops(fut[d])
     /\ Enter(w, "polling", Frame("drop", fut[d], None))
     /\ UNCHANGED <<vm, co, ops, fut, ready, waker, slot, queue>>

-----------------------------------------------------------------------------
(***************************************************************************)
(* The end of a poll or a drop; the frame below goes on.                   *)
(***************************************************************************)
\* Mutant: the slot is cleared.
Restored_none(w) == [slot EXCEPT ![vm[Top(w).d]] = None]

\* WakerGuard::drop
Restored(w) == [slot EXCEPT ![vm[Top(w).d]] = Top(w).prev]

Complete(w) == Top(w).kind = "poll" /\ co[Top(w).d] \in {"finished", "broken"}

Below(w) == Front(stack[w])
Continue(w, pc) == stack' = [stack EXCEPT ![w] = [Below(w) EXCEPT ![Len(Below(w))].pc = pc]]

Return(w) ==
  LET f == Top(w)
      p == Last(Below(w))
  IN /\ At(w, Either, "ended")
     /\ slot' = IF f.kind = "poll" THEN Restored(w) ELSE slot
     /\ driver' = IF Complete(w) THEN [driver EXCEPT ![f.d] = "dropped"] ELSE driver
     /\ IF Below(w) = <<>>
        THEN /\ stack' = [stack EXCEPT ![w] = <<>>]
             /\ UNCHANGED <<co, fut>>
        ELSE \/ /\ p.pc = "polling" /\ (f.kind = "drop" \/ Complete(w))
                /\ fut' = [fut EXCEPT ![p.d] = None]
                /\ Continue(w, "running")
                /\ UNCHANGED co
             \/ /\ p.pc = "polling" /\ f.kind = "poll" /\ ~Complete(w)
                /\ \E where \in {"awaiting", "broken"} : co' = [co EXCEPT ![p.d] = where]
                /\ Continue(w, "ended")
                /\ UNCHANGED fut
             \/ /\ p.pc = "dropping"
                /\ Parks(p.d)
                /\ Continue(w, "ended")
     /\ queue' = IF Complete(w) THEN queue \ {f.d} ELSE queue
     /\ UNCHANGED <<vm, ops, ready, waker, doomed>>

-----------------------------------------------------------------------------
Init ==
  /\ driver = [d \in Driver |-> "none"]
  /\ vm = [d \in Driver |-> None]
  /\ co = [d \in Driver |-> "none"]
  /\ ops = [d \in Driver |-> MaxOps]
  /\ fut = [d \in Driver |-> None]
  /\ ready = [d \in Driver |-> FALSE]
  /\ waker = [d \in Driver |-> None]
  /\ slot = [v \in VM |-> None]
  /\ stack = [w \in Worker |-> <<>>]
  /\ queue = {}
  /\ doomed = {}

\* What a worker does once it polls or drops a task
Work(w) ==
  \/ set_current_waker(w)
  \/ resume_for_async(w)
  \/ terminate_async(w)
  \/ LuaEnds(w)
  \/ LuaYields(w)
  \/ \E k \in {"io", "values"} \cup Driver : get_future(w, k)
  \/ Interrupted(w)
  \/ poll_io(w)
  \/ poll_values(w)
  \/ poll_child(w)
  \/ drop_child(w)
  \/ Return(w)

Next ==
  \/ \E d \in Driver, v \in VM : Spawn(d, v)
  \/ \E w \in Worker, d \in Driver : Schedule(w, d) \/ Cancel(w, d)
  \/ \E d \in Driver : Fire(d)
  \/ \E w \in Worker : Work(w)

\* Workers run, events happen, and a woken task is not passed over for ever.
Fairness ==
  /\ \A w \in Worker : WF_vars(Work(w))
  /\ \A d \in Driver : WF_vars(Fire(d)) /\ WF_vars(\E w \in Worker : Schedule(w, d))

Spec == Init /\ [][Next]_vars
FairSpec == Spec /\ Fairness

-----------------------------------------------------------------------------
TypeOK ==
  /\ driver \in [Driver -> {"none", "task", "child", "dropped"}]
  /\ vm \in [Driver -> VM \cup {None}]
  /\ co \in [Driver -> Resumable \cup {"none", "running", "parked", "finished", "broken"}]
  /\ ops \in [Driver -> 0..MaxOps]
  /\ fut \in [Driver -> Futures \cup Driver \cup {None}]
  /\ ready \in [Driver -> BOOLEAN]
  /\ waker \in [Driver -> Driver \cup {None}]
  /\ slot \in [VM -> Driver \cup {None}]
  /\ queue \subseteq {d \in Driver : driver[d] = "task"}
  /\ doomed \subseteq Driver
  /\ \A w \in Worker : \A f \in InProgress(w) :
       /\ f.d \in Driver /\ {f.waker, f.prev} \subseteq Driver \cup {None}
       /\ f.pc \in {"begin", "set", "running", "polling", "dropping", "ended"}

\* The waker in the slot of a VM is the one of the innermost poll there, and
\* none is left behind when no poll is on (async.rs: no waker outlives the
\* Context it came from).
WakerScoped ==
  \A v \in VM :
    LET Polls(w) == {i \in DOMAIN stack[w] :
                       /\ stack[w][i].kind = "poll" /\ stack[w][i].pc # "begin"
                       /\ vm[stack[w][i].d] = v}
    IN \/ \E w \in Worker : \E i \in Polls(w) :
            (\A j \in Polls(w) : j <= i) /\ slot[v] = stack[w][i].waker
       \/ slot[v] = None /\ \A w \in Worker : Polls(w) = {}

\* The coroutines in the chain of futures that d awaits, the least set that is
\* closed under fut
Awaited(d) ==
  {e \in Driver : \A S \in SUBSET Driver :
     d \in S /\ (\A x \in S : fut[x] \in Driver => fut[x] \in S) => e \in S}

\* A pending task that nobody polls has been woken or will be: it is in the
\* queue, or what it awaits, through the futures of its children, waits for an
\* event and has the waker of the task.
NoLostWake ==
  \A t \in Driver :
    driver[t] = "task" /\ t \notin queue
      => \/ \E w \in Worker : \E f \in InProgress(w) : f.d = t
         \/ \E d \in Awaited(t) :
              fut[d] = "io" /\ co[d] = "awaiting" /\ ~ready[d] /\ waker[d] = t

\* A driver that is dropped with a future in flight ends the future, and with
\* it all that the future owns: when AsyncThread::drop is over the coroutine is
\* parked for good and has no future, so that every AsyncThread that is not
\* dropped yet still has a future that owns it.  Only an interrupt can keep a
\* future alive (LUA_BREAK is an error to poll, whose driver is done and does
\* not terminate anything, and it can strike before the poller has seen the
\* marker); a future that the coroutine first starts when it is resumed by the
\* drop was not in flight then.
DroppedWhole ==
  /\ \A d \in doomed :
       \/ \E w \in Worker : \E f \in InProgress(w) : f.kind = "drop" /\ f.d = d
       \/ co[d] = "parked" /\ fut[d] = None
       \/ co[d] = "broken"
  /\ \A d \in Driver : driver[d] = "child" =>
       \E p \in Driver : fut[p] = d /\ co[p] \in {"running", "awaiting", "broken"}

\* Every task that is spawned ends: its wake-ups are not lost.
Finishes == \A d \in Driver : driver[d] = "task" ~> driver[d] = "dropped"
=============================================================================
