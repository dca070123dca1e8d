------------------------------ MODULE Coroutine ------------------------------
(***************************************************************************)
(* Calls, yields, errors and coroutines of the VM: lua_resume and          *)
(* resume_continue, luaD_callint / callny / performcally / pcall, the      *)
(* coroutine library, pcall, and the Thread handles of crates/luaur-rt.    *)
(*                                                                         *)
(* A Lua stack (the CallInfos ci[L]) outlives the Rust stack that runs it: *)
(* a yield drops the Rust frames and a later resume goes on from ci[L]     *)
(* alone.  That is only sound when every frame below has a continuation,   *)
(* which the code does not look up: it compares two counters, nCcalls and  *)
(* baseCcalls, that each call, yield, catch and resume must keep right.    *)
(*                                                                         *)
(* `native' is the Rust stack: the activations of functions that run a     *)
(* callee for a lua_State.  luau_execute and the C functions themselves    *)
(* are implied by the frame on top of ci.  The functions with a            *)
(* continuation are those of the repository: pcall, xpcall (as pcall),     *)
(* coroutine.resume and the functions made by coroutine.wrap.              *)
(***************************************************************************)
EXTENDS Naturals, Sequences, FiniteSets, SequencesExt, TLC

CONSTANTS
  Main,        \* the main thread of the VM
  Coroutines,
  MAXCCALLS,   \* LUAI_MAXCCALLS
  Reserve,     \* LUAI_MAXCCALLS >> 3, room for error handlers
  Kinds,       \* kinds of functions the program calls
  Bodies,      \* and of those it makes coroutines of
  Via,         \* threads whose handles a callback keeps and uses
  MaxFrames,   \* CallInfos there is room for, in all threads together
  Nil

AllKinds == {"lua", "c", "pcall", "resume", "wrap"}

ASSUME CoroutineAssumption ==
  /\ Main \notin Coroutines
  /\ Nil \notin Coroutines \cup {Main}
  /\ MAXCCALLS \in Nat \ {0} /\ Reserve \in Nat /\ MaxFrames \in Nat
  /\ "lua" \in Kinds /\ Kinds \subseteq AllKinds
  /\ Bodies \subseteq Kinds
  /\ Via \subseteq {Main}

VARIABLES
  status,      \* lua_State::status
  ci,          \* the CallInfos above base_ci
  nCcalls,
  baseCcalls,
  body,        \* the function on the stack of a coroutine that has not started
  native,      \* the Rust stack, innermost last
  control      \* what the innermost Rust frame is about to do

ccalls == <<nCcalls, baseCcalls>>
vars == <<status, ci, ccalls, body, native, control>>

Symmetry == Permutations(Coroutines)

Threads  == Coroutines \cup {Main}
Errors   == {"error", "noyield", "nobreak", "cstack"}
Outcomes == {"ok", "yield", "break", "failed"}
Statuses == {"ok", "yield", "break", "reentry", "error"}

Frame(k, co) == [kind |-> k, co |-> co, ret |-> FALSE, handle |-> FALSE,
                 opyield |-> FALSE, done |-> FALSE]

\* The functions a program can call; a resume is told which coroutine.
Callees == {Frame(k, Nil) : k \in Kinds \ {"resume", "wrap"}}
             \cup {Frame(k, co) : k \in Kinds \cap {"resume", "wrap"},
                                  co \in Coroutines}

BodyFunctions == {f \in Callees : f.kind \in Bodies}

HasCont(f) == f.kind \in {"pcall", "resume", "wrap"}

Activation(fn, L, y) == [fn |-> fn, L |-> L, at |-> Len(ci[L]),
                         n |-> nCcalls[L], b |-> baseCcalls[L], y |-> y]

Running  == IF native = <<>> THEN Main ELSE Last(native).L
InFrame(k) == /\ control = "frame"
              /\ ci[Running] # <<>> /\ Last(ci[Running]).kind = k
              /\ native # <<>>
Active(L) == \E i \in 1..Len(native) : native[i].L = L

lua_isyieldable(L) == nCcalls[L] <= baseCcalls[L]

lua_costatus(L, co) ==
  IF co = L                    THEN "run"
  ELSE IF status[co] = "yield" THEN "sus"
  ELSE IF status[co] = "break" THEN "nor"
  ELSE IF status[co] = "error" THEN "err"
  ELSE IF ci[co] # <<>>        THEN "nor"
  ELSE IF body[co] = Nil       THEN "fin"
                               ELSE "sus"

PopFrame(L)     == ci' = [ci EXCEPT ![L] = Front(@)]
EditFrame(L, f) == ci' = [ci EXCEPT ![L] = Append(Front(@), f)]

(***************************************************************************)
(* Calls.                                                                  *)
(***************************************************************************)
\* luaD_growCI throws when the allocator, or LUAI_MAXCALLS, leaves no room.
Room == MapThenSumSet(LAMBDA L : Len(ci[L]), Threads) < MaxFrames

\* incr_ci for f, on top of the frames cis of L
Incr_ci(L, cis, f) ==
  \/ /\ Room
     /\ ci' = [ci EXCEPT ![L] = Append(cis, f)]
     /\ control' = "frame"
  \/ /\ ~Room
     /\ ci' = [ci EXCEPT ![L] = cis]
     /\ control' = "error"

\* luau_precall from Rust code: a Lua function leaves with RETURN
Precalled(f) == [f EXCEPT !.ret = f.kind = "lua"]

\* luaD_checkCstack, n being the new nCcalls
Overflow(n) == n = MAXCCALLS \/ n >= MAXCCALLS + Reserve

\* The part common to the functions that call f through a Rust frame: nCcalls
\* is incremented, and baseCcalls with it when the callee may yield.  When the
\* counter is at its limit they throw before they touch anything else.
NativeCall(fn, L, f, y) ==
  /\ nCcalls' = [nCcalls EXCEPT ![L] = @ + 1]
  /\ native' = Append(native, Activation(fn, L, y))
  /\ \/ /\ Overflow(nCcalls[L] + 1)
        /\ control' = "cstack"
        /\ UNCHANGED <<ci, baseCcalls>>
     \/ /\ ~Overflow(nCcalls[L] + 1)
        /\ baseCcalls' = [baseCcalls EXCEPT ![L] = IF y THEN @ + 1 ELSE @]
        /\ Incr_ci(L, ci[L], Precalled(f))
  /\ UNCHANGED <<status, body>>

\* LOP_CALL; a C function runs at once
LOP_CALL(f) ==
  /\ InFrame("lua")
  /\ Incr_ci(Running, ci[Running], f)
  /\ UNCHANGED <<status, ccalls, body, native>>

\* Who continues when a frame called from Rust code is popped
ReturnTo == IF Last(native).fn = "lua_resume" THEN "continue" ELSE "returned"

LOP_RETURN ==
  /\ InFrame("lua")
  /\ control' = IF Last(ci[Running]).ret THEN ReturnTo ELSE "frame"
  /\ PopFrame(Running)
  /\ UNCHANGED <<status, ccalls, body, native>>

\* Mutant: a metamethod may yield.
luaD_callny_yields(f) ==
  /\ InFrame("lua")
  /\ NativeCall("luaD_callny", Running, f, TRUE)

\* A metamethod: luaD_callny
luaD_callny(f) ==
  /\ InFrame("lua")
  /\ NativeCall("luaD_callny", Running, f, FALSE)

\* The iterator of a generic for loop, LOP_FORGLOOP
luaD_performcally(f) ==
  /\ InFrame("lua")
  /\ NativeCall("luaD_performcally", Running, f, TRUE)

\* lua_call by a C function that has no continuation
luaD_call(f) ==
  /\ InFrame("c")
  /\ NativeCall("luaD_callint", Running, f, FALSE)

\* The host program, or a callback it has registered, has control.
InHost == control = "frame" /\ (native = <<>> \/ InFrame("c"))

\* The lua_States the handles at hand are bound to: the calling one, or that
\* of a handle kept from elsewhere
HandleStates == {Running} \cup (IF native = <<>> THEN {} ELSE Via)

\* Function::call and lua_pcall.  luaD_callint looks at the frame on top of
\* that state, whoever is running.
lua_pcall(L, f) ==
  /\ InHost /\ L \in HandleStates
  /\ NativeCall("luaD_pcall", L, f, ci[L] # <<>> /\ HasCont(Last(ci[L])))

\* luaB_pcally: luaD_pcall runs luaB_pcallrun, which calls luaD_callint and
\* asks for a reentry when the thread could yield.
luaB_pcally(f) ==
  LET L == Running
      cis == Append(Front(ci[L]), [Last(ci[L]) EXCEPT !.handle = TRUE])
      reentry == lua_isyieldable(L) /\ f.kind = "lua" /\ Room
  IN /\ InFrame("pcall") /\ ~Last(ci[L]).done
     /\ nCcalls' = [nCcalls EXCEPT ![L] = @ + 1]
     /\ native' = Append(native, Activation("luaD_pcall", L, TRUE))
     /\ \/ /\ Overflow(nCcalls[L] + 1)
           /\ control' = "cstack"
           /\ ci' = [ci EXCEPT ![L] = cis]
           /\ UNCHANGED <<status, baseCcalls>>
        \/ /\ ~Overflow(nCcalls[L] + 1)
           /\ baseCcalls' = [baseCcalls EXCEPT ![L] = @ + 1]
           /\ \/ /\ reentry
                 /\ ci' = [ci EXCEPT ![L] = Append(cis, Precalled(f))]
                 /\ status' = [status EXCEPT ![L] = "reentry"]
                 /\ control' = "yielded"
              \/ /\ ~reentry
                 /\ Incr_ci(L, cis, Precalled(f))
                 /\ UNCHANGED status
     /\ UNCHANGED body

\* A C function returns: to luau_execute, which called it by LOP_CALL, or to
\* the Rust frame that called it.
CReturn ==
  LET L == Running
      f == Last(ci[L])
  IN /\ \/ InFrame("c")
        \/ (\E k \in AllKinds \ {"lua", "c"} : InFrame(k)) /\ f.done
     /\ control' = IF Last(native).at = Len(ci[L]) - 1 THEN ReturnTo ELSE "frame"
     /\ PopFrame(L)
     /\ UNCHANGED <<status, ccalls, body, native>>

\* Mutant: baseCcalls is decremented for every call.
Returned_base ==
  LET A == Last(native)
  IN /\ control = "returned"
     /\ nCcalls' = [nCcalls EXCEPT ![A.L] = @ - 1]
     /\ baseCcalls' = [baseCcalls EXCEPT ![A.L] = @ - 1]
     /\ native' = Front(native)
     /\ control' = "frame"
     /\ UNCHANGED <<status, ci, body>>

\* The callee of a Rust frame has returned.
Returned ==
  LET A == Last(native)
  IN /\ control = "returned"
     /\ nCcalls' = [nCcalls EXCEPT ![A.L] = @ - 1]
     /\ baseCcalls' = [baseCcalls EXCEPT ![A.L] = IF A.y THEN @ - 1 ELSE @]
     /\ native' = Front(native)
     /\ ci' = IF A.at > 0 /\ ci[A.L][A.at].kind = "pcall"
              THEN [ci EXCEPT ![A.L][A.at].done = TRUE] ELSE ci
     /\ control' = "frame"
     /\ UNCHANGED <<status, body>>

(***************************************************************************)
(* Yields and errors.                                                      *)
(***************************************************************************)
Suspend(L, s, refused) ==
  /\ \/ /\ lua_isyieldable(L)
        /\ status' = [status EXCEPT ![L] = s]
        /\ control' = "yielded"
     \/ /\ ~lua_isyieldable(L)
        /\ control' = refused
        /\ UNCHANGED status

\* Mutant: coroutine.yield breaks.
lua_yield_break ==
  /\ InFrame("c")
  /\ Suspend(Running, "break", "noyield")
  /\ UNCHANGED <<ci, ccalls, body, native>>

\* coroutine.yield, a C function without continuation
lua_yield ==
  /\ InFrame("c")
  /\ Suspend(Running, "yield", "noyield")
  /\ UNCHANGED <<ci, ccalls, body, native>>

\* An interrupt callback that answers VmState::Yield; it looks at
\* lua_isyieldable before it breaks.
Interrupt ==
  /\ InFrame("lua")
  /\ lua_isyieldable(Running)
  /\ status' = [status EXCEPT ![Running] = "break"]
  /\ control' = "yielded"
  /\ UNCHANGED <<ci, ccalls, body, native>>

\* lua_error and runtime errors
Throw ==
  /\ InFrame("lua") \/ InFrame("c")
  /\ control' = "error"
  /\ UNCHANGED <<status, ci, ccalls, body, native>>

\* A Rust frame returns because its callee yielded, or asked for a reentry.
\* luaD_performcally leaves the counters as they are.
Yielded ==
  LET A == Last(native)
      undo == A.fn = "luaD_pcall"
  IN /\ control = "yielded"
     /\ \/ undo /\ ci' = ci
        \/ A.fn = "luaD_performcally" /\ ci' = [ci EXCEPT ![A.L][A.at].opyield = TRUE]
     /\ nCcalls' = [nCcalls EXCEPT ![A.L] = IF undo THEN @ - 1 ELSE @]
     /\ baseCcalls' = [baseCcalls EXCEPT ![A.L] = IF undo /\ A.y THEN @ - 1 ELSE @]
     /\ native' = Front(native)
     /\ UNCHANGED <<status, body, control>>

\* The innermost Rust frame that catches; the ones above it are unwound.
Catches(A) == A.fn \in {"luaD_pcall", "lua_resume"}
Catcher == CHOOSE i \in 1..Len(native) :
             /\ Catches(native[i])
             /\ \A j \in i+1..Len(native) : ~Catches(native[j])

\* luaD_pcall: the error is the result of the call
luaD_pcall ==
  LET A == native[Catcher]
      frames == SubSeq(ci[A.L], 1, A.at)
  IN /\ control \in Errors
     /\ A.fn = "luaD_pcall"
     /\ nCcalls' = [nCcalls EXCEPT ![A.L] = A.n]
     /\ baseCcalls' = [baseCcalls EXCEPT ![A.L] = A.b]
     /\ ci' = [ci EXCEPT ![A.L] =
                 IF A.at > 0 /\ frames[A.at].kind = "pcall"
                 THEN [frames EXCEPT ![A.at].done = TRUE] ELSE frames]
     /\ native' = SubSeq(native, 1, Catcher - 1)
     /\ control' = "frame"
     /\ UNCHANGED <<status, body>>

(***************************************************************************)
(* lua_resume.                                                             *)
(***************************************************************************)
\* Mutant: the calls of the resumer do not count.
Inherited_null(from) == 0

\* The C calls the new activation starts from
Inherited(from) == nCcalls[from]

\* resume_start when the resumer is at the limit
RefuseResume(co, from) ==
  /\ Inherited(from) >= MAXCCALLS
  /\ nCcalls' = [nCcalls EXCEPT ![co] = Inherited(from)]
  /\ control' = "failed"
  /\ UNCHANGED <<status, ci, baseCcalls, body, native>>

\* lua_resume for a coroutine that may be resumed: resume_start and resume
lua_resume(co, from) ==
  LET n == Inherited(from) + 1
      top == Last(ci[co])
  IN \/ RefuseResume(co, from)
     \/ /\ Inherited(from) < MAXCCALLS
        /\ nCcalls' = [nCcalls EXCEPT ![co] = n]
        /\ baseCcalls' = [baseCcalls EXCEPT ![co] = n]
        /\ native' = Append(native, [fn |-> "lua_resume", L |-> co, at |-> 0,
                                     n |-> n, b |-> n, y |-> TRUE])
        /\ status' = [status EXCEPT ![co] = "ok"]
        /\ \/ /\ status[co] = "ok"
              /\ Incr_ci(co, <<>>, Precalled(body[co]))
              /\ body' = [body EXCEPT ![co] = Nil]
           \/ /\ status[co] # "ok"
              /\ ci' = [ci EXCEPT ![co] = IF top.kind = "c" THEN Front(@) ELSE @]
              /\ control' = "continue"
              /\ UNCHANGED body

\* coroutine.resume and the functions of coroutine.wrap: auxresume
auxresume ==
  LET L == Running
      f == Last(ci[L])
  IN /\ InFrame("resume") \/ InFrame("wrap")
     /\ ~f.done
     /\ \/ /\ status[f.co] = "yield" \/ lua_costatus(L, f.co) = "sus"
           /\ lua_resume(f.co, L)
        \/ /\ status[f.co] # "yield" /\ lua_costatus(L, f.co) # "sus"
           /\ control' = "failed"
           /\ UNCHANGED <<status, ci, ccalls, body, native>>

\* Thread::status
ThreadStatus(L, co) ==
  IF co # L /\ status[co] = "break" THEN "sus" ELSE lua_costatus(L, co)

\* Thread::resume by the host or a callback
ThreadResume(co, from) ==
  /\ InHost /\ from \in HandleStates
  /\ ThreadStatus(from, co) = "sus"
  /\ lua_resume(co, from)

\* resume_findhandler
Handlers(L) == {i \in 1..Len(ci[L]) : ci[L][i].handle}

\* The end of resume_finish, for the lua_resume that is native[i]
Finish(i, r) ==
  LET A == native[i]
  IN /\ nCcalls' = [nCcalls EXCEPT ![A.L] = A.n - 1]
     /\ baseCcalls' = [baseCcalls EXCEPT ![A.L] = A.n - 1]
     /\ native' = SubSeq(native, 1, i - 1)
     /\ control' = r

\* Mutant: the outermost handler is taken.
Handler_outer(L) == CHOOSE i \in Handlers(L) : \A j \in Handlers(L) : i <= j

Handler(L) == CHOOSE i \in Handlers(L) : \A j \in Handlers(L) : j <= i

\* Mutant: the counters stay what they were where the error was raised.
resume_handle_keep(L, n) ==
  /\ ci' = [ci EXCEPT ![L] = SubSeq(@, 1, Handler(L) - 1)]
  /\ status' = [status EXCEPT ![L] = "ok"]
  /\ control' = "continue"
  /\ UNCHANGED ccalls

\* The innermost frame that can handle the error takes it: resume_handle
\* clears its flag, runs its continuation and pops it.
resume_handle(L, n) ==
  /\ ci' = [ci EXCEPT ![L] = SubSeq(@, 1, Handler(L) - 1)]
  /\ nCcalls' = [nCcalls EXCEPT ![L] = n]
  /\ baseCcalls' = [baseCcalls EXCEPT ![L] = n]
  /\ status' = [status EXCEPT ![L] = "ok"]
  /\ control' = "continue"

\* An error reaches lua_resume.
ResumeCatch ==
  LET A == native[Catcher]
  IN /\ control \in Errors
     /\ A.fn = "lua_resume"
     /\ \/ /\ Handlers(A.L) # {}
           /\ resume_handle(A.L, A.n)
           /\ native' = SubSeq(native, 1, Catcher)
        \/ /\ Handlers(A.L) = {}
           /\ Finish(Catcher, "failed")
           /\ status' = [status EXCEPT ![A.L] = "error"]
           /\ UNCHANGED ci
     /\ UNCHANGED body

\* lua_resumeerror, Thread::resume_error
ThreadResumeError(co, from) ==
  LET n == Inherited(from) + 1
  IN /\ InHost /\ from \in HandleStates
     /\ ThreadStatus(from, co) = "sus"
     /\ \/ RefuseResume(co, from)
        \/ /\ Inherited(from) < MAXCCALLS
           /\ Handlers(co) # {}
           /\ resume_handle(co, n)
           /\ native' = Append(native, [fn |-> "lua_resume", L |-> co, at |-> 0,
                                        n |-> n, b |-> n, y |-> TRUE])
           /\ UNCHANGED body
        \/ /\ Inherited(from) < MAXCCALLS
           /\ Handlers(co) = {}
           /\ nCcalls' = [nCcalls EXCEPT ![co] = n - 1]
           /\ baseCcalls' = [baseCcalls EXCEPT ![co] = n - 1]
           /\ status' = [status EXCEPT ![co] = "error"]
           /\ control' = "failed"
           /\ UNCHANGED <<ci, body, native>>

\* The Rust stack of a coroutine is gone but for lua_resume.
ResumeYielded ==
  LET A == Last(native)
  IN /\ control = "yielded"
     /\ A.fn = "lua_resume"
     /\ \/ /\ status[A.L] = "reentry"
           /\ control' = "continue"
           /\ UNCHANGED <<ccalls, native>>
        \/ /\ status[A.L] # "reentry"
           /\ Finish(Len(native), status[A.L])
     /\ UNCHANGED <<status, ci, body>>

\* resume_continue: the frame on top goes on without its Rust frames
resume_continue ==
  LET L == Running
      f == Last(ci[L])
      result == status[f.co]
  IN /\ control = "continue"
     /\ ci[L] # <<>>
     /\ \/ /\ f.kind = "lua"
           /\ EditFrame(L, [f EXCEPT !.opyield = FALSE])
           /\ control' = "frame"
           /\ status' = [status EXCEPT ![L] = "ok"]
        \/ /\ f.kind = "pcall"
           /\ PopFrame(L)
           /\ status' = [status EXCEPT ![L] = "ok"]
           /\ UNCHANGED control
        \/ \* coresumecont, auxwrapcont: the coroutine has not moved
           /\ f.kind \in {"resume", "wrap"} /\ result = "break"
           /\ lua_isyieldable(L)
           /\ status' = [status EXCEPT ![L] = "break"]
           /\ control' = "yielded"
           /\ UNCHANGED ci
        \/ \* or it has, and auxresumecont takes what it left
           /\ f.kind \in {"resume", "wrap"} /\ result # "break"
           /\ status' = [status EXCEPT ![L] = "ok"]
           /\ \/ /\ f.kind = "wrap" /\ result \notin {"ok", "yield"}
                 /\ control' = "error"
                 /\ UNCHANGED ci
              \/ /\ f.kind = "resume" \/ result \in {"ok", "yield"}
                 /\ PopFrame(L)
                 /\ UNCHANGED control
     /\ UNCHANGED <<ccalls, body, native>>

\* The last frame is popped: the coroutine has finished.
ResumeDone ==
  /\ control = "continue"
  /\ ci[Running] = <<>>
  /\ Finish(Len(native), "ok")
  /\ UNCHANGED <<status, ci, body>>

\* What the caller of lua_resume does with its outcome.  A coroutine that
\* was interrupted interrupts its resumer, auxresume and interruptThread.
Resumed ==
  LET L == Running
      f == Last(ci[L])
  IN /\ control \in Outcomes
     /\ \/ /\ native # <<>> => f.kind = "c"
           /\ control' = "frame"
           /\ UNCHANGED <<status, ci>>
        \/ /\ native # <<>> /\ f.kind \in {"resume", "wrap"} /\ control = "break"
           /\ Suspend(L, "break", "nobreak")
           /\ UNCHANGED ci
        \/ /\ native # <<>> /\ f.kind \in {"resume", "wrap"} /\ control # "break"
           /\ IF f.kind = "wrap" /\ control = "failed"
              THEN control' = "error" /\ UNCHANGED ci
              ELSE control' = "frame" /\ EditFrame(L, [f EXCEPT !.done = TRUE])
           /\ UNCHANGED status
     /\ UNCHANGED <<ccalls, body, native>>

(***************************************************************************)
(* lua_resetthread.                                                        *)
(***************************************************************************)
lua_resetthread(co, f) ==
  /\ ci' = [ci EXCEPT ![co] = <<>>]
  /\ status' = [status EXCEPT ![co] = "ok"]
  /\ nCcalls' = [nCcalls EXCEPT ![co] = 0]
  /\ baseCcalls' = [baseCcalls EXCEPT ![co] = 0]
  /\ body' = [body EXCEPT ![co] = f]
  /\ UNCHANGED <<native, control>>

\* Thread::reset, which gives the thread a new function
ThreadReset(co, f) ==
  /\ InHost
  /\ ThreadStatus(Running, co) \notin {"run", "nor"}
  /\ lua_resetthread(co, f)

\* Mutant: a coroutine that is active is closed, too.
coclose_any(co) == InFrame("c") /\ lua_resetthread(co, Nil)

\* coroutine.close
coclose(co) ==
  /\ InFrame("c")
  /\ \/ /\ lua_costatus(Running, co) \in {"fin", "err", "sus"}
        /\ lua_resetthread(co, Nil)
     \/ /\ lua_costatus(Running, co) \notin {"fin", "err", "sus"}
        /\ control' = "error"
        /\ UNCHANGED <<status, ci, ccalls, body, native>>

Init ==
  /\ status = [L \in Threads |-> "ok"]
  /\ ci = [L \in Threads |-> <<>>]
  /\ nCcalls = [L \in Threads |-> 0]
  /\ baseCcalls = [L \in Threads |-> 0]
  /\ body \in [Threads -> BodyFunctions \cup {Nil}]
  /\ \A L \in Threads : body[L] = Nil <=> L = Main
  /\ native = <<>>
  /\ control = "frame"

Call(f) == \/ LOP_CALL(f) \/ luaD_callny(f) \/ luaD_performcally(f)
           \/ luaD_call(f) \/ luaB_pcally(f)
           \/ \E L \in Threads : lua_pcall(L, f)

Next ==
  \/ \E f \in Callees : Call(f)
  \/ LOP_RETURN \/ CReturn \/ Returned
  \/ lua_yield \/ Interrupt \/ Throw
  \/ Yielded \/ luaD_pcall
  \/ auxresume \/ ResumeCatch \/ ResumeYielded
  \/ resume_continue \/ ResumeDone \/ Resumed
  \/ \E co \in Coroutines :
       \/ \E from \in Threads : ThreadResume(co, from) \/ ThreadResumeError(co, from)
       \/ coclose(co)
       \/ \E f \in BodyFunctions : ThreadReset(co, f)

Spec == Init /\ [][Next]_vars

-----------------------------------------------------------------------------
Frames == [kind : AllKinds, co : Coroutines \cup {Nil}, ret : BOOLEAN,
           handle : BOOLEAN, opyield : BOOLEAN, done : BOOLEAN]
NativeFns == {"lua_resume", "luaD_callint", "luaD_callny",
              "luaD_performcally", "luaD_pcall"}
Activations == [fn : NativeFns, L : Threads, at : Nat, n : Nat, b : Nat,
                y : BOOLEAN]

\* The fields of a lua_State and of the activations have their types; in
\* particular nCcalls and baseCcalls, which are unsigned, never go below 0.
TypeOK ==
  /\ status \in [Threads -> Statuses]
  /\ ci \in [Threads -> Seq(Frames)]
  /\ nCcalls \in [Threads -> Nat]
  /\ baseCcalls \in [Threads -> Nat]
  /\ body \in [Threads -> BodyFunctions \cup {Nil}]
  /\ native \in Seq(Activations)
  /\ control \in {"frame", "returned", "continue", "yielded"} \cup Errors \cup Outcomes

\* The Rust frame of A can be dropped by a yield: resume_continue goes on
\* from the CallInfo that made the call.
Droppable(A) ==
  \/ A.fn \in {"lua_resume", "luaD_performcally"}
  \/ A.fn = "luaD_pcall" /\ A.at > 0 /\ ci[A.L][A.at].kind = "pcall"

\* lua_isyieldable is right: the counters let the running thread yield exactly
\* when it was resumed and all Rust frames of it can be dropped.
YieldableExact ==
  control = "frame" /\ native # <<>> =>
    LET mine == {native[i] : i \in {j \in 1..Len(native) : native[j].L = Running}}
    IN lua_isyieldable(Running) <=>
         Running # Main /\ \A A \in mine : Droppable(A)

\* A suspended thread can be continued from its CallInfos alone: it has no
\* Rust frames, and each CallInfo belongs to a Lua function or to a C function
\* with a continuation, but for the C function on top that yielded.
SuspendedFrames ==
  \A L \in Threads : status[L] \in {"yield", "break"} /\ ~Active(L) =>
    /\ ci[L] # <<>>
    /\ \A i \in 1..Len(ci[L]) :
         ci[L][i].kind = "c" => i = Len(ci[L]) /\ status[L] = "yield"

\* resume_continue asserts that the counters are equal; and when the host gets
\* control back nothing of the nested calls is left in those of its thread.
CcallsBalanced ==
  /\ control = "continue" => nCcalls[Running] = baseCcalls[Running]
  /\ native = <<>> => nCcalls[Main] = 0 /\ baseCcalls[Main] = 0

\* The Rust stack and the Lua stacks agree: a coroutine is resumed by one
\* thread at a time and its calls lie above its lua_resume; a thread that runs
\* or waits for a callee has CallInfos; and CallInfos of a thread that is not on
\* the Rust stack are those of a suspended or failed coroutine.
ResumedOnce ==
  /\ \A i, j \in 1..Len(native) :
       native[i].fn = "lua_resume" /\ native[j].L = native[i].L =>
         i <= j /\ (native[j].fn = "lua_resume" => i = j)
  /\ \A i \in 1..Len(native) :
       (IF i < Len(native) THEN native[i + 1].fn = "lua_resume"
                           ELSE control = "frame") => ci[native[i].L] # <<>>
  /\ \A L \in Threads : ci[L] # <<>> /\ ~Active(L) =>
       status[L] \in {"yield", "break", "error"}

\* LUAI_MAXCCALLS, with the reserve for error handlers, bounds the nesting of
\* C calls on the Rust stack, over all the coroutines that resume each other.
DepthBounded == Len(native) <= MAXCCALLS + Reserve

\* "C stack overflow" is only raised when C calls are nested LUAI_MAXCCALLS
\* deep.
OverflowIsDeep == control = "cstack" => Len(native) >= MAXCCALLS

\* The CallInfos of L that wait for the outcome of a protected call
Protecting(L) ==
  {i \in 1..Len(ci[L]) : ci[L][i].kind = "pcall" /\ ~ci[L][i].done}
    \cup {native[i].at : i \in {j \in 1..Len(native) :
            native[j].L = L /\ native[j].fn = "luaD_pcall"}}

Delivered(L, P) ==
  IF P = {}
  THEN control' = "failed" /\ status'[L] = "error"
  ELSE LET h == CHOOSE i \in P : \A j \in P : j <= i
       IN \/ control' = "continue" /\ Len(ci'[L]) = h - 1
          \/ /\ control' = "frame" /\ Len(ci'[L]) = h
             /\ (h > 0 /\ ci[L][h].kind = "pcall") => ci'[L][h].done

\* An error goes to the innermost protected call of the thread, whether that
\* call is still on the Rust stack or waits for its continuation, and if there
\* is none to the resumer.
InnermostHandler ==
  [][(control \in Errors /\ control' \notin Errors)
       => Delivered(Running, Protecting(Running))]_vars
=============================================================================
