# A TLA+ verification of luaur

luaur is a port of the Luau language to Rust: parser, compiler, type analysis
and virtual machine (`crates/luaur-vm`), and a safe embedding layer in the style
of mlua (`crates/luaur-rt`). This directory holds TLA+ models of the parts where
the order of steps matters and a test reaches few of the orders: the incremental
garbage collector against the running program, calls, errors and yields of
coroutines, the registry of references, the bridge between coroutines and Rust
futures, the per-VM lock, and the life of a VM that is shared between threads.

Contents: [inventory](#inventory), [modules](#modules-and-the-code),
[runs](#runs), [findings](#findings), [fairness](#fairness), [proofs](#proofs),
[what is not modelled](#what-is-not-modelled), [plan](#plan).

## Inventory

| Component | State | Operations | Interacts with | Hard behaviour | What makes it correct |
|---|---|---|---|---|---|
| Garbage collector (`luaur-vm`: `gcstep`, `atomic`, `propagatemark`, `sweepgcopage`, `lua_c_fullgc`, the barriers) | colour of each object, `gcstate`, the lists `gray`, `grayagain`, `weak`, the sweep cursor, `markedopen` bits | one bounded step; a full collection; a barrier at each write | every instruction and API function that allocates or writes | the program writes between any two steps; stacks have no write barrier; weak tables change their mode; a full collection abandons a cycle; strings come back from the dead | nothing reachable is freed, no entry of reachable objects is cleared; black never refers to white; garbage is freed in the end |
| Instructions and API that write to the heap | tables, closures, upvalues, stacks | get, set, `setmetatable`, closure creation, capture, `settop`, calls | the collector, through barriers | a missing or wrong barrier shows only in some phase of a cycle | every store keeps the marking invariants |
| Coroutines and calls of the VM (`lua_resume`, `luaD_*`, `luaB_pcall*`, `auxresume`, `coclose`) | `status`, the `CallInfo`s, `nCcalls` and `baseCcalls` of each thread; the Rust stack | call, `pcall`, `resume`, `wrap`, `yield`, `break`, `close`, `reset` | collector (who is active), the async bridge, handles | a yield drops Rust frames; errors arrive after the frame of the handler is gone; resuming what runs; limits in the middle of a call | a thread may yield exactly when its Rust frames can be dropped; errors reach the innermost handler; counters balance and bound the nesting |
| Per-VM lock (`luaur-rt/src/sync.rs`) | owner, count, wait set | `lock`, guard drop | every handle operation | notify after unlock, barging, spurious wake-ups | exclusive, re-entrant, no lost wake-up |
| VM lifetime and lock registry (`state.rs`, `sync.rs`) | owned and borrowed `LuaInner`s, handles, map from address to lock | create, borrow in a callback, clone, drop, close, `lock_for`, `unregister` | lock, memory limit, userdata destructors | last drop races use on other threads; address reuse; destructors in the middle of `lua_close` | one VM has one lock; nobody is in a closed VM |
| Memory limit (`memory.rs`) | control block by address | install, clear | allocator of the VM | removed after the VM is closed | the block lives as long as the VM |
| Callbacks (`callback.rs`) | captured Rust closures, borrowed `Lua` | trampoline, destructor | lifetime, userdata | handles escape from the callback | the contract of `from_borrowed` |
| Async bridge (`async.rs`) | waker slot of a VM, future in flight of a coroutine, pending marker | create, poll, drop, nested `call_async` | coroutines, callbacks, an executor | cancellation at any point, wake-up before parking, polls of one VM on several threads | a woken task is polled; every task ends; a dropped one leaves no future behind |
| Thread handles (`thread.rs`) | none of their own | `status`, `resume`, `resume_error`, `reset` | coroutines, lock | status is checked under one guard, used under another | a finished coroutine stays finished |
| Registry (`registry.rs`, `state.rs`, `lua_ref`, `lua_unref`) | slots, free list threaded through them, counts of handles | `ref`, `unref`, clone, replace, drop | every handle | double release, values that look like links, no memory for a slot | a reference yields its own value until it is dropped; released slots are used again |
| Scopes and userdata | liveness and borrow flags | create, borrow, invalidate | callbacks, destructors | use after the scope | no access after invalidation |
| Interrupts (`interrupt.rs`) | callback of a VM | at every call and back edge | coroutines | a break in the middle of nested resumes | the coroutine goes on where it was |
| App data, options | maps keyed by VM | set, get, clear | `LuaInner::drop` | cleared before `lua_close` | entries of a dead VM vanish |
| Conversions, handle types | none | translate values | everything | sequential | round trips |
| Standard library, tables, strings, bytecode loader | per call | library functions | collector | sequential | Luau's conformance suite |
| `require` | module cache, loading marks | resolve, load | coroutines, file access | cycles, failing loads | a module loads once |
| Compiler and bytecode builder, parser, type analysis | per call | pure translations | loader | size of inputs | reference implementation |
| Native code generation | code pages | assemble | VM | machine level | out of reach |
| Common, config, CLI, web, derive macros | settings | parse, print | all | I/O | not a state machine |

`PROJECT.json` lists the same components with their source files, and under
`hazards` each place where something can go wrong that a test would hardly meet.

## Modules and the code

| Module | Models | Role |
|---|---|---|
| `LuaGC` | collector, barriers and the writing operations of a program | component |
| `MCGC` | reachability, and the properties stated with it | what TLC checks of `LuaGC` |
| `LuaGCApi` | `lua_setupvalue` and `lua_clonetable` added to `LuaGC` | two API functions with other barriers |
| `LuaGC_proofs` | | types and the chain of resumes of `LuaGC` |
| `LuaGC_safety` | | the invariant of the collector, kept by every operation of a program |
| `LuaGC_collector` | | kept by every step of the collector; the theorems about reachability |
| `Coroutine` | calls, errors, yields, breaks and coroutines of the VM, and the handles that drive them | component |
| `Coroutine_proofs` | | theorems about it |
| `References` | | abstract specification of the registry |
| `Registry` | `lua_ref`, `lua_unref`, `LuaRef`, `RegistryKey` | implements `References` |
| `Registry_proofs` | | theorems about it, the refinement too |
| `AsyncBridge` | `async.rs` and `AsyncThread` under an executor with several threads | component |
| `AsyncBridge_proofs` | | theorems about it |
| `RecursiveLock` | | abstract specification of the per-VM lock |
| `ReentrantMutex` | `ReentrantMutex` and `ReentrantGuard` of `sync.rs` | implements `RecursiveLock` |
| `ReentrantMutex_proofs` | | theorems about it, the refinement too |
| `VMState` | `LuaInner`, `vm_lock_registry`, `MemoryControl`, teardown | component; its locks are `RecursiveLock`s |
| `VMState_proofs` | | theorems about it |

`PROJECT.json` maps each definition to its lines.

### LuaGC

*State.* An address keeps one kind: table, function, thread, upvalue or string.
`alloc` is what is allocated, `col` its mark bits. The code has two whites that
change roles at the flip in `atomic`; the model calls the current one `white` and
the other one `dead`, so that the flip repaints `white` as `dead`. `gray`,
`grayagain` and `weak` are the three intrusive lists as sets, which loses only
the order in which objects are popped: any order is allowed. `unswept` is what
the sweep cursor has still to pass. `node` holds the entries of a table, pairs of a
key and a value, `Nil` for what is not collectable (an entry of the array part has
the key `Nil`); `cells` what a closure or a closed upvalue contains; `refs` reads off
both what an object refers to. `Keys` are the objects the program uses as keys. `stack`, `top` are the threads' stacks, *with* the slots above
the top, whose stale contents come back when a function is entered
(`luau_precall` sets only missing parameters to nil). `uvthread`, `uvslot` place
an open upvalue in a stack. `from` and `run` say who resumed whom.

*Program.* `NewObject`, `luaS_newlstr` (with the resurrection of a condemned
string), `Load`, `lua_v_settable` (with `newkey`'s barrier for a key that is new and
its own for the value), `Erase`, `lua_setmetatable` (metatables in
`WeakMeta` have `__mode = "kv"`), `lua_settop`, `luau_precall`, `NewClosure`,
`NewClosureRef` (`luaF_findupval`), `SetUpval`, `CloseUpvals` (`luaF_close`),
`Resume`, `Yield`, `lua_xmove`, `lua_resetthread`. Each has the barrier the code
has, in the same place: `luaC_barrierf` (forward), `luaC_barriertable` (backward,
and forward in `propagateagain`), `luaC_threadbarrier`.

*Collector.* `gcstep` is `markroot`, one `propagatemark`, the two changes of
phase, the four parts of `atomic()`, one `sweepgcopage`, and the end of the
sweep. `atomic()` is cut at its `propagateall` calls; `Mutator` keeps the program
out between the parts. `lua_c_fullgc` is `FullBegin` (abandon the cycle and sweep
without a flip: the loop runs to its end, nobody can look in between),
`FullMark`, a whole cycle, `FullEnd`.

`cleartable` takes out an entry as a whole when its key *or* its value is white and
not a string, so that a live value goes with a dead key, and marks the strings it
is asked about.

*Abstracted.* Positions in a table, and weak keys apart from weak
values: a weak table is weak in both. Protos, buffers, classes and userdata are
traversed like tables, closures or strings and are not told apart. Pages hold one
object. Sizes, debts and thresholds only decide *when* a step runs; the model
lets it run at any time.

### Coroutine

*State.* Two stacks that do not have the same life. `ci[L]` is the Lua side: the
`CallInfo`s of each `lua_State`, each with the kind of its function (Lua, a C
function without continuation, `pcall`, `coroutine.resume`, a function made by
`coroutine.wrap`) and the flags the code keeps (`LUA_CALLINFO_RETURN`, `_HANDLE`,
`_OPYIELD`). `native` is the Rust side: one activation for each `lua_resume`,
`luaD_callint`, `luaD_callny`, `luaD_performcally` and `luaD_pcall` in progress,
with the counters it saved. `control` is what the innermost Rust frame is about to
do: run the top frame, return, continue, unwind an error or a yield. An interrupt
or an explicit yield drops Rust frames; what is left is `ci`, `status`,
`nCcalls` and `baseCcalls`.

*Actions.* `LOP_CALL`, `LOP_RETURN`, `luaD_callny` (metamethods),
`luaD_performcally` (iterators), `luaD_call`, `luaB_pcally`, `lua_pcall` (from a
callback), `CReturn`; `lua_yield`, `Interrupt` (`lua_break`, with the check and the
error at a point that is not yieldable), `Throw`; `Yielded` and `luaD_pcall` unwind
the Rust stack; `auxresume`, `ThreadResume`, `ThreadResumeError` begin a
`lua_resume` (`resume_start`), `resume_continue` runs what is left of `ci`,
`ResumeCatch` is `resume_findhandler` with `resume_handle`, `ResumeYielded`,
`ResumeDone`, `Resumed` are `resume_finish` and what the resumer does with the
outcome; `coclose`, `ThreadReset` are `lua_resetthread`'s callers.

*Abstracted.* Values, and which error it is apart from its class. A program calls
any function at any time. `MaxFrames` stands both for `LUAI_MAXCALLS` and for an
allocator that runs out: `luaD_growCI` throws in the middle of a call. `Via` says
whether a callback uses handles it captured from the main state, which resume with
the main thread's counter. `xpcall` is taken as `pcall`.

### Registry

`slot`, `size` and `registryfree` are the registry table, its length and the head
of the list of free slots; a slot holds a value or the number of the next free
slot, and `Value` contains numbers so that the two can be mistaken. `id` and
`strong` are a `LuaRef` and the count of the handles that share it. `lua_ref` and
`lua_unref` are the VM's functions; the actions are `register_ref`, `CloneRef` (a
value gets a second slot), `CloneHandle` (a slot is shared), `DropHandle`, which
only decrements the count, `DropRef`, which follows once the lock is there, and
`replace_registry_value`. `lua_ref` is disabled when no slot is free and there is
no memory for another: `luaH_setnum` throws and nothing has changed. `References`
is the promise: a map from references to values, in which making, copying and
releasing one leaves the others alone.

### AsyncBridge

A task of the executor owns an `AsyncThread`, a future may own another one by
`call_async`. A worker has a stack of the polls and drops it is in; a frame goes
through `begin`, `set` (the waker is in the slot of the VM), `running` (the
coroutine is resumed, under the lock), `polling` or `dropping` (Lua code is inside
the poller, which polls or drops a future), `ended`, and `Return` puts the former
waker back. `set_current_waker`, `resume_for_async`, `terminate_async`,
`get_future` (an async function is called), `poll_io`, `poll_values` (`yield_with`), `poll_child`,
`drop_child`, `LuaYields`, `LuaEnds` are the code. `Interrupted` is an interrupt
callback that breaks the coroutine at the `CALL` of the poller, before the future is
polled, or before the poller has seen the terminate marker. `doomed` is a history
variable: the drivers that were dropped with a future in flight. `Spawn`, `Schedule`, `Cancel`
and `Fire` are the executor and the events, which are external. `OneAtATime` says
whether the executor polls tasks of one VM on one thread at a time.

### ReentrantMutex

`lock()` and the guard's `drop()` are split where another thread can get in: at
the inner mutex, in `Condvar::wait`, and between the unlock and `notify_one`.
`pc` names these places. `SpuriousWake` is the condition variable's right to wake
up without a notification. `MaxCalls` and `MaxSpurious` bound a behaviour.

### VMState

A `LuaInner` is owned (it closes the VM) or borrowed (made by the callback
trampoline). `New`, `Borrow` begin one; `LockForRead`, `LockForInsert` are
`lock_for`'s two critical sections; `Share`, `DropHandle` are clone and drop of a
handle; `Enter`, `Leave` take and drop a `StateRef` guard; `set_memory_limit`
installs a control block. Dropping the last owned handle runs `LuaInner::drop`:
`DropLock`, then `lua_close` (`FreeRegistry`, `Destruct`, `Close` in the order
the pages happen to have), `clear_memory`, `DropGuard`, `unregister`, each a step
of its own. `lua_close` gives the address back before the last three of them, and
the allocator may hand it out at once: `New` takes any address that has no VM. The
history variable `early` keeps the VMs that got an address in this window
(`GivingUp`). `Escape` says whether handles made in a callback may leave it
(`from_borrowed`'s contract forbids it, the type system does not). A lock is
named by the `LuaInner` that made it.

## Runs

All bounds are in the `.cfg` files. TLC visits every reachable state within them.

| Run | Instance | Shows |
|---|---|---|
| `gc_weak` | tables `g` (globals) and `t`, both with `__mode`, a string, main thread, one slot, one entry a table, the table `t` and the string as keys | `NoDanglingReference`, `BlackNeverToWhite`, `GrayLists`, `FreesOnlyGarbage`, `ClearsOnlyGarbage` (an entry of which both halves are reachable stays), `FullCollects` for tables that become weak and strong again in any phase, for interned strings, and with full collections at any time |
| `gc_threads` | `g`, a closure, an upvalue, two threads | `NoDanglingReference`, `BlackNeverToWhite`, `OpenUpvalues`, `ClosesOnlyOrphans` for upvalues shared between coroutines, and coroutines that are reset, lost and freed |
| `gc_live` | `g`, a closure, two threads | `GarbageIsFreed`, given that the collector is stepped again and again, for objects passed between coroutines; `TypeOK`, `ResumeChain` |
| `gc_setupvalue` | `g`, `t`, closure, upvalue, main thread | violation of `BlackNeverToWhite` |
| `coroutines` | main thread and two coroutines, four `CallInfo`s in all, C calls three deep and one in reserve | `YieldableExact`, `SuspendedFrames`, `CcallsBalanced`, `ResumedOnce`, `InnermostHandler`, `DepthBounded`, `TypeOK` |
| `co_iter` | one coroutine, three `CallInfo`s, C calls four deep | violation of `OverflowIsDeep` |
| `registry` | three references, three slots, values a table and the numbers 1 and 2, two clones | `FreeListExact`, `Refinement`, `GrowsOnlyWhenFull`, `TypeOK` |
| `async` | two drivers, two VMs, two workers, two operations a coroutine, tasks of a VM one at a time | `WakerScoped`, `NoLostWake`, `DroppedWhole`, `Finishes` under fairness, `TypeOK` |
| `async_waker` | two drivers, one VM, two workers, one operation, tasks of a VM at the same time | violation of `Finishes` under fairness |
| `mutex` | three threads, two calls each, one spurious wake-up | `TypeOK`, `MutualExclusion`, `NoLostWakeup`, `LockReturns`, `Refinement` |
| `vm_lock` | two threads, one address, three `LuaInner`s, guards two deep, handles escape everywhere | `TypeOK`, `OwnersKeepAlive`, `KeyUnregistered`, and, for every VM that is not in `early`, `Serialized`, `OneLock`, `ControlBlock` |
| `vm_escape` | one address, handles escape to another thread | violation of `NoUseAfterClose` |

Further configurations, for the variants of these questions:

| Configuration | Module | Instance | Result |
|---|---|---|---|
| `MCGC_clonetable` | `LuaGCApi` | `g`, `t`, two threads | violation of `NoDanglingReference` (finding 2) |
| `VMState_contract` | `VMState` | two threads, two addresses, handles do not escape | `NoUseAfterClose` holds |
| `VMState_recycle_lock`, `VMState_recycle_memory` | `VMState` | as `vm_lock`, no escape | violations of `EveryVMOneLock`, `EveryVMControlBlock`, which make no exception for `early` (findings 3, 4) |
| `VMState_destructor` | `VMState` | handles escape into userdata | violation of `NoUseAfterClose` (finding 6) |
| `Coroutine_depth` | `Coroutine` | two coroutines, six `CallInfo`s, handles of the main state | violation of `DepthBounded` (see [observations](#observations)) |

Why the bounds are enough to be interesting. An incremental collector goes wrong
with three objects: one already black, one white, and a path that is cut while
the black one gets the only reference. `gc_weak` has a root, a second table and a
string, so that path exists; each table can be the other's metatable or its own,
so any table on the path can turn weak or strong, and an entry can pair a live object with
a dead one either way round. `gc_threads` has the least heap
in which an upvalue is open in one thread and written from another, its thread
dies before it, and the address is used again. Every mutant listed in `PROJECT.json` (a barrier of the
wrong kind, a list not reset, a bit not cleared, a phase left out) is found
within these bounds. Three threads are needed for a waiter, an owner and one that
barges in. Two coroutines and the main thread give a chain of three, a coroutine
that is closed from below and one that is resumed from above; four `CallInfo`s hold
a coroutine's `pcall` with a function that resumes another one; three nested C calls
let the limit, and the limit with its reserve, be met at every kind of call. Three
slots give a free list whose middle can be lost, and the numbers 1 and 2 are
both values and links. Two drivers are the least in which one poll nests in
another or one task's waker takes another's place; a second VM is
there because a worker in one VM must not disturb the slot of the other. Three `LuaInner`s give an owner and two borrowed wrappers, or two
generations of a VM at one address.

The runs of the collector, of the coroutines and of the registry check for
deadlock, and there is none. Those of the lock, the VM and the async bridge do not:
threads may have made all their calls, `LuaInner`s may be used up, and all tasks may
have ended.

## Findings

1. `lua_setupvalue` (`lua_setupvalue.rs:24`) hands the barrier the address of the
   stack slot in place of the closure. The store has no barrier, and outside of
   marking the call may overwrite a byte of the slot. Run `gc_setupvalue`.
2. `lua_clonetable` (`lua_clonetable.rs:35`) pushes a new object without the
   thread barrier. On a suspended thread that is already black the object is
   freed while the stack refers to it. Configuration `MCGC_clonetable`.
3. `LuaInner::drop` frees the `global_State` before it unregisters its key
   (`state.rs:165`, `:176`), while `sync.rs:278` says "a key is always
   unregistered before the address can be recycled into a new VM". A VM that gets
   the address in between ends up with two locks. Configuration
   `VMState_recycle_lock`. The damage stays with the VMs opened in that window:
   `OneLock`, which is checked and proved, says so.
4. In the same window `clear_memory` (`state.rs:168`) drops the control block of
   the *new* VM. Configuration `VMState_recycle_memory`; for all others see
   `ControlBlock`.
5. A `LuaRef` made through a callback's borrowed `Lua` does not keep the VM alive,
   contrary to `state.rs:795`. Run `vm_escape`.
6. A userdata destructor that drops a handle in `lua_close` may run after the
   registry table was freed, contrary to `state.rs:133`. Configuration
   `VMState_destructor`.
7. When the iterator of a `for` loop ends in a status other than OK,
   `lua_d_performcally` (`lua_d_performcally.rs:30`) returns without undoing its
   increments of `nCcalls` and `baseCcalls`. For a yield that is harmless, the next
   resume sets both. A `pcall` in the iterator leaves `SCHEDULED_REENTRY`, which
   does not end the `lua_resume`: the increments add up until "C stack overflow" is
   raised although nothing is nested. Both counters are off by the same amount, so
   that `YieldableExact` still holds. Run `co_iter`.
8. `AsyncThread::poll` (`async.rs:880`) puts its waker into the slot of the VM
   before `resume_for_async` takes the lock of the VM, and restores the former one
   after the lock is released. Two tasks of one VM that are polled on two threads
   overwrite each other's waker; a pending future registers the wrong one, or none,
   and its task is never polled again. `async.rs:51` says "a future polled during a
   resume always sees a valid waker", `tests/mlua_send_async.rs:29` "async work can
   be awaited on any thread / a multi-threaded executor". Run `async_waker`; with
   the tasks of a VM polled one at a time, run `async`, nothing is lost.

### Observations

Met while reading, of less weight or outside of what the models tell apart:

- A handle that a callback captured from the main state resumes with
  `from = main`, so `nCcalls` is inherited from the main thread and not from the
  running one: nesting through such handles is not bounded by `LUAI_MAXCCALLS`
  (configuration `Coroutine_depth`).
- An interrupt's yield in a coroutine that was resumed by a thread that is not
  yieldable raises "attempt to break across ..." in the resumer, where
  `interrupt.rs:33` says it is a no-op at a point that is not yieldable. With a
  yieldable resumer the break is passed on each time the resumer goes on
  (`coresumecont`), while the inner coroutine stays in `LUA_BREAK`.
- `lua_pcall` through a handle bound to a coroutine that waits in
  `coroutine.resume` runs code on that coroutine's stack with its counters.
- `resume_for_async` takes `LUA_BREAK` for an error and moves values off the stack
  of a coroutine whose registers are live; its driver counts as done, so that a
  future in flight is not terminated when the driver is dropped.
- Dropping an `AsyncThread` that was never polled starts its body, with the
  terminate marker as argument (`thread.rs:310`). A coroutine at a plain yield when
  its driver is dropped runs on, and may start a future that then lasts until the
  coroutine is collected.
- `poll_c` keeps the future after it was ready, where its comment says it is taken.
- `call_async` marks the coroutine as implicit before `into_async` can fail
  (`function.rs:189`); the entry of a coroutine that is collected stays, and its
  address may be used again.
- A future that is dropped by a destructor may resume a coroutine inside the sweep.
- `owns_registry_value` compares `lua_State` pointers (`registry.rs:130`): a key
  made in a coroutine's callback is foreign to the `Lua` of the same VM.
- `Thread::resume` and `reset` check the status under one guard and act under
  another; `lua_resume` refuses what has become unresumable, with another error.

## Fairness

- `LuaGC!FairSpec`: weak fairness of the steps inside `atomic()` and
  `lua_c_fullgc`, for which the program waits. Nothing makes a program step the
  collector otherwise: `luaC_checkGC` is in the instructions that allocate
  (`luau_execute.rs:952`, `:2942`, `:3062`, `:3077`, `:3715`), in the API functions
  that do, and at the end of calls from C (`lua_d_callint.rs:59`,
  `lua_d_callny.rs:35`, `lua_d_performcally.rs:38`), and acts only above the
  threshold; a loop that does not allocate passes `VM_INTERRUPT` alone, which looks
  at no debt. So `GarbageIsFreed` has the premise that steps happen again and again
  (`[]<><<gcstep>>_vars`), as they do when the program goes on allocating. It assumes
  nothing of their rate: the program may write for ever between two of them, and
  cannot keep a cycle from ending. `Lost` counts slots above the top as
  references, since entering a function can bring them back.
- `ReentrantMutex!FairSpec`: weak fairness of each thread's steps in `lock()` and
  `drop()`, and of dropping a guard. `LockReturns` shows that no wake-up is lost
  and nobody blocks for ever when everyone stops calling; as the calls are bounded
  it says nothing about starvation by threads that barge in without end, which
  this lock permits.
- `AsyncBridge!FairSpec`: weak fairness of each worker's steps (a thread that runs
  goes on; steps that wait for the lock of the VM are enabled again when its holder,
  which is also fair, leaves), of the events that futures wait for, and of taking
  up a woken task, which is what an executor owes its wakers. Nothing is assumed of
  `Cancel`: a timeout may come or not. The coroutines make `MaxOps` operations at
  most, so `Finishes` says that no wake-up is lost, not that Lua code terminates.
- `VMState!FairSpec`: weak fairness of what a thread has begun, strong fairness of
  the steps of `lua_close`, because destructors inside it take and drop guards,
  which disables and enables them; there are finitely many destructors.

## Proofs

| Theorem | Statement | Assumptions |
|---|---|---|
| `LuaGC_proofs!TypeCorrect` | `Spec => []TypeOK` | `KindsAssumption`, `BoundsAssumption` |
| `LuaGC_proofs!ChainCorrect` | `Spec => []ResumeChain` | the same |
| `ReentrantMutex_proofs!TypeCorrect` | `Spec => []TypeOK` | `ThreadAssumption`, `CallsAssumption` |
| `ReentrantMutex_proofs!Exclusive` | `Spec => []MutualExclusion` | the same |
| `ReentrantMutex_proofs!WakeupsAreKept` | `Spec => []NoLostWakeup` | the same |
| `ReentrantMutex_proofs!Implements` | `Spec => Refinement` | the same |
| `Registry_proofs!TypeCorrect` | `Spec => []TypeOK` | `RegistryAssumption` |
| `Registry_proofs!SlotsNotShared` | `Spec => []OneOwner` | the same |
| `Registry_proofs!Implements` | `Spec => Refinement` | the same |
| `Registry_proofs!FreeListCorrect` | `Spec => []FreeListExact` | the same |
| `Registry_proofs!GrowsOnlyWhenFullCorrect` | `Spec => GrowsOnlyWhenFull` | the same |
| `LuaGC_collector!NoDanglingCorrect` | `Spec => []NoDanglingReference` | `KindsAssumption`, `BoundsAssumption` |
| `LuaGC_collector!TriColourCorrect` | `Spec => []BlackNeverToWhite` | the same |
| `LuaGC_collector!GrayListsCorrect` | `Spec => []GrayLists` | the same |
| `LuaGC_collector!OpenUpvaluesCorrect` | `Spec => []OpenUpvalues` | the same |
| `LuaGC_collector!FreesOnlyGarbageCorrect` | `Spec => FreesOnlyGarbage` | the same |
| `LuaGC_collector!ClearsOnlyGarbageCorrect` | `Spec => ClearsOnlyGarbage` | the same |
| `LuaGC_collector!ClosesOnlyOrphansCorrect` | `Spec => ClosesOnlyOrphans` | the same |
| `LuaGC_collector!FullCollectsCorrect` | `Spec => FullCollects` | the same |
| `Coroutine_proofs!TypeCorrect` | `Spec => []TypeOK` | `CoroutineAssumption`, `OwnHandles`, `HasReserve` |
| `Coroutine_proofs!YieldableExactCorrect` | `Spec => []YieldableExact` | the same |
| `Coroutine_proofs!SuspendedFramesCorrect` | `Spec => []SuspendedFrames` | the same |
| `Coroutine_proofs!CcallsBalancedCorrect` | `Spec => []CcallsBalanced` | the same |
| `Coroutine_proofs!ResumedOnceCorrect` | `Spec => []ResumedOnce` | the same |
| `Coroutine_proofs!DepthBoundedCorrect` | `Spec => []DepthBounded` | the same |
| `Coroutine_proofs!InnermostHandlerCorrect` | `Spec => InnermostHandler` | the same |
| `AsyncBridge_proofs!TypeCorrect` | `Spec => []TypeOK` | `AsyncAssumption`, `OneAtATime` |
| `AsyncBridge_proofs!WakerScopedCorrect` | `Spec => []WakerScoped` | the same |
| `AsyncBridge_proofs!DroppedWholeCorrect` | `Spec => []DroppedWhole` | the same |
| `AsyncBridge_proofs!NoLostWakeCorrect` | `Spec => []NoLostWake` | the same |
| `VMState_proofs!TypeCorrect` | `Spec => []TypeOK` | `EscapeAssumption`, `IdsAssumption` |
| `VMState_proofs!LocksAgree` | `Spec => []OneLock` | the same |
| `VMState_proofs!AccessIsSerialized` | `Spec => []Serialized` | the same |
| `VMState_proofs!ControlBlocksStay` | `Spec => []ControlBlock` | the same |
| `VMState_proofs!OwnersKeepAliveCorrect` | `Spec => []OwnersKeepAlive` | the same |
| `VMState_proofs!NoUseAfterCloseCorrect` | `Spec => []NoUseAfterClose` | the same, and `Escape = {}` |

Two assumptions are about the program around the code, and each is needed.
`OwnHandles`: a callback uses handles of the thread that called it; without it
`DepthBounded` fails (configuration `Coroutine_depth`). `OneAtATime`: the executor
polls the tasks of a VM one at a time; without it wake-ups are lost (run
`async_waker`). Of the allocator nothing is assumed: `OneLock`, `Serialized` and
`ControlBlock` except by themselves the VMs that it opens in the window of findings
3 and 4. `HasReserve` is a fact of
the build: `LUAI_MAXCCALLS >> 3` is not 0.

*The collector.* `TypeOK` is not inductive: `Yield` sets `run' = from[run]`, which
is a thread only because whoever runs, if not the main thread, was resumed. So the
invariant is `IInv == TypeOK /\ ResumeChain`. Lemmas give the types of the mark
operators, the barriers and `Free`; one lemma covers the program's actions, one
the collector's, and one shows that only `Resume` and `Yield` touch the chain.

That nothing reachable is freed needs an invariant about colours, since the sweep
looks at nothing else: `SInv == IInv /\ Safe`. Its heart is `TriColour`: while the
collector marks, a black object refers to marked ones. It has two exceptions that
the code makes: a thread that runs or waits is written to without a barrier and so
is never black (`Activity`), and a slot of a black thread that an open upvalue can
write is left to the upvalue, which is then marked, bears the `markedopen` bit and
is never black while it is open (`UpvalLinks`, `MarkedOpen`). `Lists` ties gray
objects to the three lists, so that an empty list means that nothing is left to
traverse; `Atomic` says what each part of `atomic()` has established, in
particular that the threads on `grayagain` have been traversed for good when the
whites are flipped; `Phases` that only what the sweep has still to visit is dead
and that a cycle begins all white; `LiveRefs` that what is alive refers to what is
alive, through the sweep too; `FreeAddresses` that an address inherits nothing when it
is used again. `LuaGC_safety` shows it for the program's operations, each with its
barrier, `LuaGC_collector` for the collector's steps. `NoDanglingReference` follows
since reachability is the least set closed under references (`ReachableBy`), and
the live objects are closed under them. The three action properties need that at
the end of `atomic()` everything reachable is marked (`ReachableMarked`).
`FullCollects` needs the other direction, `FullInv`: while a full collection marks,
the program waits, and what is marked is reachable, or a string: `cleartable`
marks the string of an entry that it then drops for its other half.

*The coroutines.* The properties relate the Rust stack, the `CallInfo`s and two
counters, and no one of them is inductive. `IInv == TypeOK /\ StackInv /\ LuaInv`.
`StackInv` is about the Rust stack and the counters: the activations of a thread
are consecutive, begin with its `lua_resume` (or, for the main thread, with a
protected call of the host), and lie in the order of their `CallInfo`s
(`Segments`); the counters that an activation saved differ exactly by the
activations of its thread below it that cannot be dropped (`Saved`), as do the
thread's own counters (`Counters`). `luaD_performcally` leaves both counters too high
when its callee yields, so that only the difference is exact and `nCcalls` is a
bound. `LuaInv` is about the CallInfos: an activation counts for both
counters exactly when it can be dropped (`ActOK`); a C function without continuation
below the top has its activation; and a `pcall` below the top is marked as
handler, not done, and has its `luaD_pcall` on the Rust stack *or* was
dropped, and then lies below every activation that is left (`CallersOK`, `After`); the
flag with which a Lua function returns to Rust code is set just above an
activation or a dropped one (`ReturnsOK`). Each kind of step (a call, a return, an
unwinding, a yield through a Rust frame, a resume and its end, a change to a
coroutine that is off the stack) has a lemma about each half; the lemma of an action
shows that it is such a step. `InnermostHandler` follows from `CallersOK`: the
innermost catcher is above every dropped `pcall`, or is a `lua_resume` and no
`luaD_pcall` is above it. `lua_costatus` enters by `InactiveFacts`: what it does not
call running or normal is not on the Rust stack.

*The lock.* `IInv == TypeOK /\ MutualExclusion`. Exclusion relates the owner and
the count to the guards of *every* thread, pending drops included, which makes it
inductive. `NoLostWakeup` follows step by step from it: the only step that makes
the lock free while others wait is `Release`, which goes to `notify`, and only a
notification or an acquisition leaves the three places it names. The refinement
maps holder and depth to owner and count; only `Acquire`, `Reenter` and `Release`
are not stutters.

*The registry.* Types are not enough: `lua_ref` makes the content of the slot at
the head of the list the new head, so that a link which is not a free slot's number
would hand out an owned slot, and a value is as good a number as a link. The
invariant `IInv` says that no two references own one slot and an owned slot holds a
value (`OneOwner`), that the head and the link of every slot nobody owns lead to
such a slot or to 0, and that no slot is the target of two of them (`FreeList`).
`RefReuses`, `RefGrows` and `RefNil` show for the three cases of `lua_ref`, and
`DropStep` for `lua_unref`, that this is kept and that the value of every other
reference stays (`OthersKept`); the refinement needs nothing more. That
the list is also complete (`FreeListExact`) is preserved on top of `IInv`:
`Linked` is the least set of slots that contains the head and is closed under links,
so a closed set is an upper bound for it (`LinkedIn`), and what is pushed and
popped is exactly its first element. `GrowsOnlyWhenFull` follows, since an empty list
means that no slot is free.

*The async bridge.* `IInv` describes the stacks of polls and drops: above a frame is
one of its child (`Shape`), a driver is in one frame (`Once`), two workers are in
different VMs (`Apart`, where `OneAtATime` enters), a child has one parent (`Family`),
and all polls of a worker have the waker of the task it took up and put it back
when they are nested (`Wakers`, `Slots`). `WakerScoped` follows. `NoLostWake` needs `WInv` as well: each coroutine in the chain from a pending
task awaits its child or an event that has the task's waker (`Waiting`), or is in a
frame of a worker that has not returned from it (`Ended`). `DroppedWhole` needs
`DInv`: a future owns an `AsyncThread` until its drop is over (`Owned`); no frame polls
what is dropped, and a drop that began with a future in flight runs no Lua code
before the future is gone (`Marked`); and a coroutine whose driver was dropped with a
future in flight has left it, or the frame that ends it is still there (`Over`,
`Ending`).

*The VM.* `OneLock`, `Serialized` and `ControlBlock` hold for handles that escape
anywhere and any reuse of addresses, for the VMs that are not in `early`; findings 3
and 4 show that they fail for the others. `OneLock` is not inductive: it says nothing
of the registry. The invariant adds that the lock of a wrapper of such a VM *is* the
registered one (`Registered`); that nobody gives up the address it is at
(`Undisturbed`), so that no `clear_memory` or `unregister` still to come can hit it;
what is known of the `LuaInner` a thread makes or tears down (`Begun`), which no two
threads do with one (`Distinct`); that only the owner's last handle leads
to the teardown (`OwnedAlive`); and that locks are exclusive (`Held`). `Serialized`
then follows from `OneLock` and `Held`. TLC has checked the invariant on the
instance of `vm_lock`, and with two addresses. `OwnersKeepAlive` needs `GInv`: a
thread with a guard of an owner has a handle of it or tears it down (`Guards`), and a
swept VM has no handles (`Swept`). Under the contract of `from_borrowed`
(`Escape = {}`) `KInv` adds that a thread with a handle of a borrowed wrapper is
inside the VM, below it a guard of the owner (`Scoped`, `Outermost`), and that the
teardown is alone in the VM (`Alone`, `Gone`).

*Only model-checked.* Liveness (`GarbageIsFreed`, `LockReturns`,
`KeyUnregistered`, `Finishes`), which needs fairness and `ENABLED`, is beyond this
prover. Every other property that a passing run checks is also proved. The runs
stay: they check what is proved on instances, and find the mutants.

## What is not modelled

The parts marked so in `PROJECT.json`, for one of three reasons. *Sequential and
pure:* parser, compiler, type analysis, conversions, libraries; their inputs are
far larger than a model checker's and their reference is the Luau test suite. They
make up nearly all of the repository's lines. *Machine level or I/O:* native code,
command lines, web. *Planned:* below.

Within the modelled parts: the error handler of `xpcall`, which runs before the
stack is unwound; the `debugprotectederror` hook; calls from native code; named
registry values, which have string keys and touch no slot; the `Stream` form of
`AsyncThread`; the map of implicit threads; the errors that `resume_for_async`
returns before it resumes; the collection of a coroutine that has a future in
flight; panics.

## Plan

In order of importance:

1. Scopes and userdata cells; `require` and its cache.
2. An abstract heap, from which unreachable objects vanish, implemented by
   `LuaGC`; the refinement should follow from `SInv`.
3. `Coroutine` with handles of other threads (`Via`): which of the theorems
   survive, `DepthBounded` does not.
