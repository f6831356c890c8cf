------------------------------- MODULE Traps --------------------------------
(***************************************************************************)
(* Extended traps (traps.c): the handler of a trap runs on a thread of its *)
(* own so that it can call 68k code and wait for it.  The emulator's       *)
(* thread and the handlers' threads pass control to each other through two *)
(* semaphores per context and the mutex trap_mutex, and all of them read   *)
(* and write the one global regs.                                          *)
(*                                                                         *)
(* The 68k side is a set of Amiga tasks that Exec switches between         *)
(* whenever interrupts are allowed.  A task's program, a called function   *)
(* included, may invoke traps; a handler makes up to MaxCalls calls.        *)
(***************************************************************************)
EXTENDS Naturals, Sequences

CONSTANTS Tasks,        \* Amiga tasks
          Contexts,     \* addresses calloc returns for trap contexts
          MaxCalls,     \* bound: 68k calls the handler in each context makes
          NoContext, NoCall, NoRegs

ASSUME TrapsAssumption ==
  /\ MaxCalls \in [Contexts -> Nat]
  /\ NoContext \notin Contexts
  /\ NoCall \notin Contexts \X Nat

VARIABLES
  regs,           \* the global 68k state: the part of it that traps use
  taskRegs,       \* the state Exec keeps of the tasks that do not run
  thisTask,       \* the task that Exec believes is running
  stack,          \* per task, the context addresses on its 68k stack
  emu,            \* where the emulator's thread is
  emuContext,     \* the context it handles or waits for
  currentContext, \* current_context
  trapMutex,      \* trap_mutex
  toEmu, toTrap,  \* per context: switch_to_emu_sem, switch_to_trap_sem
  tpc,            \* per context: where its thread is; "free": not allocated
  saved,          \* per context: saved_regs
  funcAddr,       \* per context: call68k_func_addr
  retval,         \* per context: call68k_retval
  calls           \* per context: how many calls the handler has made

cpuVars == <<regs, taskRegs, thisTask, stack>>
emuVars == <<emu, emuContext>>
ctxVars == <<toEmu, toTrap, tpc, saved, funcAddr, retval, calls>>
vars == <<cpuVars, emuVars, currentContext, trapMutex, ctxVars>>

\* pc: the task's own code, a function called by a handler, or the address
\* of one of the three helper traps.  func: the call being executed, or
\* whose value is in D0.
Pcs == {"code", "func", "callTrap", "returnTrap", "exitTrap"}
CallIds == Contexts \X Nat
Regs == [pc : Pcs, func : CallIds \cup {NoCall}, task : Tasks, sp : Nat,
         intmask : {0, 7}]

Fresh(t) == [pc |-> "code", func |-> NoCall, task |-> t, sp |-> 0,
             intmask |-> 0]

Init ==
  /\ thisTask \in Tasks
  /\ taskRegs = [t \in Tasks |-> Fresh(t)]
  /\ regs = Fresh(thisTask)
  /\ stack = [t \in Tasks |-> <<>>]
  /\ emu = "run" /\ emuContext = NoContext /\ currentContext = NoContext
  /\ trapMutex = 1
  /\ toEmu = [c \in Contexts |-> 0]
  /\ toTrap = [c \in Contexts |-> 0]
  /\ tpc = [c \in Contexts |-> "free"]
  /\ saved = [c \in Contexts |-> NoRegs]
  /\ funcAddr = [c \in Contexts |-> NoCall]
  /\ retval = [c \in Contexts |-> NoCall]
  /\ calls = [c \in Contexts |-> 0]

-----------------------------------------------------------------------------
(* 68k code, run by the emulator's thread                                  *)

\* Exec switches tasks, in an interrupt: not while intmask is 7.
TaskSwitch(t) ==
  /\ emu = "run" /\ regs.intmask = 0 /\ t # thisTask
  /\ taskRegs' = [taskRegs EXCEPT ![thisTask] = regs]
  /\ regs' = taskRegs[t]
  /\ thisTask' = t
  /\ UNCHANGED <<stack, emuVars, currentContext, trapMutex, ctxVars>>

\* The called function returns its value in D0 and pulls the address of the
\* return trap off the stack.
FuncReturns ==
  /\ emu = "run" /\ regs.pc = "func"
  /\ regs' = [regs EXCEPT !.pc = "returnTrap"]
  /\ UNCHANGED <<taskRegs, thisTask, stack, emuVars, currentContext,
                 trapMutex, ctxVars>>

\* m68k_handle_trap, TRAPFLAG_EXTRA_STACK: trap_HandleExtendedTrap creates a
\* context and its thread, lets it go and waits.
InvokeTrap(c) ==
  /\ emu = "run" /\ regs.pc \in {"code", "func"}
  /\ tpc[c] = "free"
  /\ tpc' = [tpc EXCEPT ![c] = "start"]
  /\ toEmu' = [toEmu EXCEPT ![c] = 0]
  /\ toTrap' = [toTrap EXCEPT ![c] = 1]
  /\ saved' = [saved EXCEPT ![c] = regs]
  /\ emu' = "wait" /\ emuContext' = c
  /\ UNCHANGED <<cpuVars, currentContext, trapMutex, funcAddr, retval, calls>>

\* The context has switched back: the 68k resumes at regs.pc.
EmuResumes ==
  /\ emu = "wait" /\ toEmu[emuContext] > 0
  /\ toEmu' = [toEmu EXCEPT ![emuContext] = @ - 1]
  /\ emu' = "run" /\ emuContext' = NoContext
  /\ UNCHANGED <<cpuVars, currentContext, trapMutex, toTrap, tpc, saved,
                 funcAddr, retval, calls>>

\* Mutant: the stack pointer is not moved.
BadCallTrap ==
  /\ emu = "run" /\ regs.pc = "callTrap"
  /\ LET c == currentContext
     IN /\ stack' = [stack EXCEPT ![regs.task] =
                       Append(SubSeq(@, 1, regs.sp), c)]
        /\ regs' = [regs EXCEPT !.pc = "func", !.func = funcAddr[c],
                                !.intmask = saved[c].intmask]
  /\ trapMutex' = trapMutex + 1
  /\ UNCHANGED <<taskRegs, thisTask, emuVars, currentContext, ctxVars>>

\* m68k_call_handler: push the context, jump to the function, release the
\* mutex and allow interrupts again.
CallTrap ==
  /\ emu = "run" /\ regs.pc = "callTrap"
  /\ LET c == currentContext
     IN /\ stack' = [stack EXCEPT ![regs.task] =
                       Append(SubSeq(@, 1, regs.sp), c)]
        /\ regs' = [regs EXCEPT !.pc = "func", !.func = funcAddr[c],
                                !.sp = @ + 1, !.intmask = saved[c].intmask]
  /\ trapMutex' = trapMutex + 1
  /\ UNCHANGED <<taskRegs, thisTask, emuVars, currentContext, ctxVars>>

\* m68k_return_handler: "One trap returning at a time, please!"
ReturnLock ==
  /\ emu = "run" /\ regs.pc = "returnTrap"
  /\ trapMutex > 0 /\ trapMutex' = trapMutex - 1
  /\ emu' = "returning"
  /\ UNCHANGED <<cpuVars, emuContext, currentContext, ctxVars>>

\* The return handler with its parts as parameters, for the mutants.
ReturnOf(c, sp, next) ==
  /\ emu = "returning"
  /\ retval' = [retval EXCEPT ![c] = regs.func]
  /\ toTrap' = [toTrap EXCEPT ![c] = @ + 1]
  /\ emuContext' = c
  /\ regs' = [regs EXCEPT !.sp = sp, !.func = NoCall]
  /\ stack' = [stack EXCEPT ![regs.task] = SubSeq(@, 1, regs.sp - 1)]
  /\ emu' = next
  /\ UNCHANGED <<taskRegs, thisTask, currentContext, trapMutex, toEmu,
                 tpc, saved, funcAddr, calls>>

\* Mutants: two slots are popped; the emulator does not wait; the context is
\* the current one, not the one on the stack.
BadReturnTrapPop ==
  ReturnOf(stack[regs.task][regs.sp], regs.sp - 2, "wait")
BadReturnTrapWait ==
  ReturnOf(stack[regs.task][regs.sp], regs.sp - 1, "run")
BadReturnTrapContext == ReturnOf(currentContext, regs.sp - 1, "wait")

\* Pop the context off the stack of the task, keep the value, switch to it.
ReturnTrap == ReturnOf(stack[regs.task][regs.sp], regs.sp - 1, "wait")

\* exit_trap_handler: join the thread, restore the state saved at entry, free
\* the context, release the mutex.
ExitTrap ==
  /\ emu = "run" /\ regs.pc = "exitTrap"
  /\ LET c == currentContext
     IN /\ tpc[c] = "dead"
        /\ regs' = saved[c]
        /\ tpc' = [tpc EXCEPT ![c] = "free"]
        /\ saved' = [saved EXCEPT ![c] = NoRegs]
        /\ funcAddr' = [funcAddr EXCEPT ![c] = NoCall]
        /\ retval' = [retval EXCEPT ![c] = NoCall]
        /\ calls' = [calls EXCEPT ![c] = 0]
  /\ trapMutex' = trapMutex + 1
  /\ UNCHANGED <<taskRegs, thisTask, stack, emuVars, currentContext, toEmu,
                 toTrap>>

-----------------------------------------------------------------------------
(* The thread of context c                                                 *)

TGoto(c, from, to) == tpc[c] = from /\ tpc' = [tpc EXCEPT ![c] = to]

\* trap_thread: wait for the emulator to switch here, run the handler.
ThreadStarts(c) ==
  /\ TGoto(c, "start", "handler")
  /\ toTrap[c] > 0 /\ toTrap' = [toTrap EXCEPT ![c] = @ - 1]
  /\ UNCHANGED <<cpuVars, emuVars, currentContext, trapMutex, toEmu, saved,
                 funcAddr, retval, calls>>

\* trap_Call68k: the critical section begins ...
CallLock(c) ==
  /\ TGoto(c, "handler", "calling")
  /\ calls[c] < MaxCalls[c]
  /\ trapMutex > 0 /\ trapMutex' = trapMutex - 1
  /\ UNCHANGED <<cpuVars, emuVars, currentContext, toEmu, toTrap, saved,
                 funcAddr, retval, calls>>

\* Mutant: interrupts stay allowed ("probably just being paranoid").
BadCallSwitch(c) ==
  /\ TGoto(c, "calling", "called")
  /\ currentContext' = c
  /\ calls' = [calls EXCEPT ![c] = @ + 1]
  /\ funcAddr' = [funcAddr EXCEPT ![c] = <<c, calls[c] + 1>>]
  /\ regs' = [regs EXCEPT !.pc = "callTrap"]
  /\ toEmu' = [toEmu EXCEPT ![c] = @ + 1]
  /\ UNCHANGED <<taskRegs, thisTask, stack, emuVars, trapMutex, toTrap,
                 saved, retval>>

\* ... no interrupts, the function's address, pc at the call trap; switch.
CallSwitch(c) ==
  /\ TGoto(c, "calling", "called")
  /\ currentContext' = c
  /\ calls' = [calls EXCEPT ![c] = @ + 1]
  /\ funcAddr' = [funcAddr EXCEPT ![c] = <<c, calls[c] + 1>>]
  /\ regs' = [regs EXCEPT !.pc = "callTrap", !.intmask = 7]
  /\ toEmu' = [toEmu EXCEPT ![c] = @ + 1]
  /\ UNCHANGED <<taskRegs, thisTask, stack, emuVars, trapMutex, toTrap,
                 saved, retval>>

\* Woken by the return handler, which took the mutex.
CallWoken(c) ==
  /\ TGoto(c, "called", "woken")
  /\ toTrap[c] > 0 /\ toTrap' = [toTrap EXCEPT ![c] = @ - 1]
  /\ UNCHANGED <<cpuVars, emuVars, currentContext, trapMutex, toEmu, saved,
                 funcAddr, retval, calls>>

\* Mutant: the critical section does not end.
BadCallUnlock(c) ==
  /\ TGoto(c, "woken", "handler")
  /\ UNCHANGED <<cpuVars, emuVars, currentContext, trapMutex, toEmu, toTrap,
                 saved, funcAddr, retval, calls>>

\* "End critical section"; the value goes back to the handler.
CallUnlock(c) ==
  /\ TGoto(c, "woken", "handler")
  /\ trapMutex' = trapMutex + 1
  /\ UNCHANGED <<cpuVars, emuVars, currentContext, toEmu, toTrap, saved,
                 funcAddr, retval, calls>>

\* The handler is done: have the exit trap executed ...
ExitLock(c) ==
  /\ TGoto(c, "handler", "exiting")
  /\ trapMutex > 0 /\ trapMutex' = trapMutex - 1
  /\ UNCHANGED <<cpuVars, emuVars, currentContext, toEmu, toTrap, saved,
                 funcAddr, retval, calls>>

\* ... in the state saved at entry, with no interrupts.
ExitSwitch(c) ==
  /\ TGoto(c, "exiting", "dead")
  /\ regs' = [saved[c] EXCEPT !.pc = "exitTrap", !.intmask = 7]
  /\ currentContext' = c
  /\ toEmu' = [toEmu EXCEPT ![c] = @ + 1]
  /\ UNCHANGED <<taskRegs, thisTask, stack, emuVars, trapMutex, toTrap,
                 saved, funcAddr, retval, calls>>

-----------------------------------------------------------------------------
EmuStep == EmuResumes \/ CallTrap \/ ReturnLock \/ ReturnTrap \/ ExitTrap

ThreadStep(c) == \/ ThreadStarts(c) \/ CallLock(c) \/ CallSwitch(c)
                 \/ CallWoken(c) \/ CallUnlock(c) \/ ExitLock(c)
                 \/ ExitSwitch(c)

Next == \/ \E t \in Tasks : TaskSwitch(t)
        \/ FuncReturns
        \/ EmuStep
        \/ \E c \in Contexts : InvokeTrap(c) \/ ThreadStep(c)

Spec == Init /\ [][Next]_vars

\* Host threads are scheduled; Exec gives every ready task processor time, so
\* the function a handler calls returns, through the return trap (strong
\* fairness: its task competes with the others for the processor, and the
\* function may invoke traps of its own before it returns).
CallReturns(c) ==
  regs.func # NoCall /\ regs.func[1] = c /\ (FuncReturns \/ ReturnLock)
FairSpec ==
  /\ Spec
  /\ WF_vars(EmuStep)
  /\ \A c \in Contexts : WF_vars(ThreadStep(c)) /\ SF_vars(CallReturns(c))
  /\ \A t \in Tasks : SF_vars(TaskSwitch(t))

-----------------------------------------------------------------------------
(* Properties                                                              *)

\* The state of every thread, semaphore and 68k register keeps its type.
TypeOK ==
  /\ regs \in Regs /\ thisTask \in Tasks
  /\ \A t \in Tasks : taskRegs[t] \in Regs /\ stack[t] \in Seq(Contexts)
  /\ emu \in {"run", "wait", "returning"}
  /\ emuContext \in Contexts \cup {NoContext}
  /\ currentContext \in Contexts \cup {NoContext}
  /\ trapMutex \in Nat
  /\ \A c \in Contexts :
       /\ toEmu[c] \in Nat /\ toTrap[c] \in Nat
       /\ tpc[c] \in {"free", "start", "handler", "calling", "called",
                      "woken", "exiting", "dead"}
       /\ saved[c] \in Regs \cup {NoRegs}
       /\ funcAddr[c] \in CallIds \cup {NoCall}
       /\ retval[c] \in CallIds \cup {NoCall}
       /\ calls[c] \in 0 .. MaxCalls[c]

\* A thread that may touch regs: a handler that runs, or the emulator.
Handling(c) == tpc[c] \in {"handler", "calling", "woken", "exiting"}

\* Control is in one place: the emulator and the handlers take turns, though
\* nothing but the semaphores keeps them from running together.
OneAtATime ==
  /\ \A c, d \in Contexts : Handling(c) /\ Handling(d) => c = d
  /\ emu # "wait" => \A c \in Contexts : ~Handling(c)

\* trap_mutex is released by another thread than the one that took it; it is
\* never released twice, and the critical sections do not overlap.
MutexBalanced ==
  trapMutex + (IF emu = "returning" THEN 1 ELSE 0)
    + (IF regs.pc \in {"callTrap", "exitTrap"} THEN 1 ELSE 0)
    + (IF \E c \in Contexts : tpc[c] \in {"calling", "exiting", "woken"}
         THEN 1 ELSE 0)
    + (IF \E c \in Contexts : tpc[c] = "called" /\ toTrap[c] > 0
         THEN 1 ELSE 0) = 1

\* The 68k state is that of the task Exec believes is running: a trap that
\* ends restores the state of the task that invoked it, to that task.
RegsOfThisTask == emu = "run" => regs.task = thisTask

\* A handler that calls several functions, nested in others and interleaved
\* with those of other tasks, gets the value of the function it called.
RightValue ==
  \A c \in Contexts : tpc[c] \in {"woken", "handler"} /\ calls[c] > 0 =>
     retval[c] = <<c, calls[c]>>

\* Every trap invoked is completed.
TrapsComplete == \A c \in Contexts : tpc[c] # "free" ~> tpc[c] = "free"

\* Mutual exclusion of the emulator and the handlers, and of the sections
\* under trap_mutex.
Inv == TypeOK /\ OneAtATime /\ MutexBalanced
=============================================================================
