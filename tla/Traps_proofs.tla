---------------------------- MODULE Traps_proofs ----------------------------
(***************************************************************************)
(* Theorems about extended traps (Traps), for any tasks, contexts and      *)
(* numbers of calls the handlers make.                                     *)
(***************************************************************************)
EXTENDS Traps, SequenceTheorems, TLAPS

-----------------------------------------------------------------------------
(* The inductive invariant.                                                *)

\* TypeOK, and that the variables are functions.
Typed ==
  /\ regs \in Regs /\ thisTask \in Tasks
  /\ taskRegs \in [Tasks -> Regs] /\ stack \in [Tasks -> Seq(Contexts)]
  /\ emu \in {"run", "wait", "returning"}
  /\ emuContext \in Contexts \cup {NoContext}
  /\ currentContext \in Contexts \cup {NoContext}
  /\ trapMutex \in Nat
  /\ toEmu \in [Contexts -> Nat] /\ toTrap \in [Contexts -> Nat]
  /\ tpc \in [Contexts -> {"free", "start", "handler", "calling", "called",
                           "woken", "exiting", "dead"}]
  /\ saved \in [Contexts -> Regs \cup {NoRegs}]
  /\ funcAddr \in [Contexts -> CallIds \cup {NoCall}]
  /\ retval \in [Contexts -> CallIds \cup {NoCall}]
  /\ calls \in [Contexts -> Nat]
  /\ \A c \in Contexts : calls[c] <= MaxCalls[c]

\* A handler has put the address of a helper trap into pc.
AtHelper == regs.pc \in {"callTrap", "exitTrap"}

\* The context that has control, or whose helper trap the 68k is about to
\* execute; NoContext while the 68k runs code of its own.
InControl == IF emu = "wait" THEN emuContext
             ELSE IF AtHelper THEN currentContext ELSE NoContext

\* The registers r of task t in its own code or in a called function: the
\* context the function will return to is on top of its stack.
Own(r, t) ==
  /\ r \in Regs /\ r.task = t /\ r.intmask = 0
  /\ r.pc \in {"code", "func", "returnTrap"}
  /\ r.sp <= Len(stack[t])
  /\ r.pc # "code" => /\ r.sp > 0
                      /\ r.func = <<stack[t][r.sp], calls[stack[t][r.sp]]>>

CpuInv ==
  /\ regs.task = thisTask /\ regs.sp = Len(stack[thisTask])
  /\ emu # "wait" /\ ~AtHelper => Own(regs, thisTask)
  /\ emu = "returning" => regs.pc = "returnTrap"
  /\ AtHelper => regs.intmask = 7
  /\ \A t \in Tasks \ {thisTask} :
       Own(taskRegs[t], t) /\ taskRegs[t].sp = Len(stack[t])

\* A context on a stack waits for the function called, in the task that
\* invoked its trap, above what was on the stack then.
Waits(c, t, i) ==
  /\ c \in Contexts /\ tpc[c] = "called" /\ c # InControl
  /\ saved[c].task = t /\ saved[c].sp = i - 1

StackInv ==
  \A t \in Tasks : \A i \in 1 .. Len(stack[t]) : Waits(stack[t][i], t, i)

\* The handler of c has passed control to its helper trap.
Left(c) ==
  /\ currentContext = c
  /\ \/ tpc[c] = "called" /\ regs.pc = "callTrap" /\ funcAddr[c] = <<c, calls[c]>>
     \/ tpc[c] = "dead" /\ regs.pc = "exitTrap"

FreeInv(c) ==
  tpc[c] = "free" => toEmu[c] = 0 /\ toTrap[c] = 0 /\ calls[c] = 0

\* A trap that is not in control is on the stack, and its thread sleeps.
CalledInv(c) ==
  tpc[c] # "free" =>
    /\ saved[c] \in Regs /\ Own(saved[c], saved[c].task)
    /\ c # InControl =>
         /\ tpc[c] = "called" /\ toEmu[c] = 0 /\ toTrap[c] = 0
         /\ saved[c].sp < Len(stack[saved[c].task])
         /\ stack[saved[c].task][saved[c].sp + 1] = c

ControlInv(c) ==
  c = InControl =>
    /\ tpc[c] # "free"
    /\ saved[c].task = thisTask /\ saved[c].sp = regs.sp
    /\ toEmu[c] = IF emu = "wait" /\ AtHelper THEN 1 ELSE 0
    /\ toTrap[c] = 1 => tpc[c] \in {"start", "called"} /\ ~AtHelper
    /\ toTrap[c] \in {0, 1}
    /\ IF AtHelper THEN Left(c)
       ELSE (Handling(c) /\ toTrap[c] = 0) \/ toTrap[c] = 1

\* Who holds trap_mutex.
Critical ==
  \/ emu = "returning" \/ AtHelper
  \/ \E c \in Contexts : tpc[c] \in {"calling", "exiting", "woken"}
  \/ \E c \in Contexts : tpc[c] = "called" /\ toTrap[c] > 0

MutexInv == trapMutex = IF Critical THEN 0 ELSE 1

ValueInv(c) ==
  /\ tpc[c] = "start" => calls[c] = 0
  /\ tpc[c] = "calling" => calls[c] < MaxCalls[c]
  /\ (tpc[c] \in {"woken", "handler"} /\ calls[c] > 0)
       \/ (tpc[c] = "called" /\ toTrap[c] > 0)
     => retval[c] = <<c, calls[c]>>

IInv ==
  /\ Typed /\ CpuInv /\ StackInv /\ MutexInv
  /\ emu = "wait" => emuContext # NoContext
  /\ AtHelper => currentContext # NoContext
  /\ \A c \in Contexts : FreeInv(c) /\ CalledInv(c) /\ ControlInv(c) /\ ValueInv(c)

-----------------------------------------------------------------------------
(* Every step keeps the invariant.                                         *)

\* Nothing is in control, no context is allocated and every task runs its own
\* code when the program starts.
LEMMA InitInv == Init => IInv
<1> SUFFICES ASSUME Init PROVE IInv
  OBVIOUS
<1> USE TrapsAssumption DEF Init, Fresh
<1>1. Typed
  BY DEF Typed, Regs, Pcs, CallIds
<1>2. CpuInv
  BY DEF CpuInv, Own, AtHelper, Regs, Pcs, CallIds
<1>3. StackInv
  BY DEF StackInv
<1>4. MutexInv
  BY DEF MutexInv, Critical, AtHelper
<1> QED
  BY <1>1, <1>2, <1>3, <1>4
  DEF IInv, FreeInv, CalledInv, ControlInv, ValueInv, InControl, AtHelper

\* A thread that runs is the one in control.
LEMMA ThreadInControl ==
  ASSUME IInv, NEW c \in Contexts,
         tpc[c] \in {"start", "handler", "calling", "woken", "exiting"}
           \/ (tpc[c] = "called" /\ toTrap[c] > 0)
  PROVE  emu = "wait" /\ emuContext = c /\ ~AtHelper /\ InControl = c
<1>1. CalledInv(c) /\ ControlInv(c) /\ Typed
  BY DEF IInv
<1>2. c = InControl
  <2>1. tpc[c] # "free" /\ ~(tpc[c] = "called" /\ toTrap[c] = 0)
    BY <1>1 DEF Typed
  <2> QED
    BY <1>1, <2>1 DEF CalledInv
<1>3. ~AtHelper
  BY <1>1, <1>2 DEF ControlInv, Left
<1> QED
  BY <1>2, <1>3, TrapsAssumption DEF InControl

\* A step of the thread of c that keeps control and leaves it at to.
Internal(c, to) ==
  /\ UNCHANGED <<cpuVars, emuVars, currentContext, toEmu, saved, funcAddr,
                 retval, calls>>
  /\ to \in {"handler", "calling", "woken", "exiting"}
  /\ tpc' = [tpc EXCEPT ![c] = to]
  /\ toTrap' = [toTrap EXCEPT ![c] = 0]
  /\ trapMutex' = IF to = "handler" THEN 1 ELSE 0
  /\ to = "calling" => calls[c] < MaxCalls[c]
  /\ to \in {"handler", "woken"} /\ calls[c] > 0
       => retval[c] = <<c, calls[c]>>

\* Nothing else is in control while the thread of c runs: a step of
\* trap_thread or trap_Call68k that does not switch keeps the invariant.
LEMMA InternalStep ==
  ASSUME IInv, NEW c \in Contexts, NEW to,
         emu = "wait" /\ ~AtHelper /\ InControl = c, Internal(c, to)
  PROVE  IInv'
<1> USE DEF cpuVars, emuVars, IInv, Internal
<1>1. InControl' = InControl /\ ~AtHelper'
  BY DEF InControl, AtHelper
<1>2. Typed'
  BY DEF Typed
<1>3. CpuInv'
  BY <1>1 DEF CpuInv, Own, AtHelper
<1>4. StackInv'
  <2> SUFFICES ASSUME NEW t \in Tasks, NEW i \in 1 .. Len(stack[t])
               PROVE  Waits(stack[t][i], t, i)'
    BY DEF StackInv
  <2>1. Waits(stack[t][i], t, i)
    BY DEF StackInv
  <2> QED
    BY <1>1, <2>1 DEF Waits, Typed
<1>5. MutexInv'
  <2>1. \A d \in Contexts \ {c} : tpc'[d] \in {"free", "called"} /\ (tpc'[d] = "called" => toTrap'[d] = 0)
    <3> SUFFICES ASSUME NEW d \in Contexts \ {c}
                 PROVE  /\ tpc[d] \in {"free", "called"} /\ toTrap[d] = 0
      BY DEF Typed
    <3> QED
      BY DEF CalledInv, FreeInv
  <2>2. emu' # "returning" /\ tpc'[c] = to /\ toTrap'[c] = 0
    BY DEF Typed
  <2>3. Critical' <=> to # "handler"
    BY <1>1, <2>1, <2>2 DEF Critical
  <2> QED
    BY <2>3 DEF MutexInv
<1>6. ASSUME NEW d \in Contexts
      PROVE  FreeInv(d)' /\ CalledInv(d)' /\ ControlInv(d)' /\ ValueInv(d)'
  <2> USE DEF FreeInv, CalledInv, ControlInv, ValueInv
  <2>0. FreeInv(d) /\ CalledInv(d) /\ ControlInv(d) /\ ValueInv(d) /\ Typed
    OBVIOUS
  <2>1. CASE d = c
    <3>1. tpc'[c] = to /\ toTrap'[c] = 0
      BY DEF Typed
    <3>2. Own(saved[c], saved[c].task)'
      BY <1>1, <2>0 DEF Own
    <3> QED
      BY <1>1, <2>0, <2>1, <3>1, <3>2 DEF Handling
  <2>2. CASE d # c
    <3>1. tpc'[d] = tpc[d] /\ toTrap'[d] = toTrap[d]
      BY <2>2 DEF Typed
    <3>2. tpc[d] # "free" => Own(saved[d], saved[d].task)'
      BY <1>1, <2>0 DEF Own
    <3> QED
      BY <1>1, <2>0, <2>2, <3>1, <3>2 DEF Handling
  <2> QED
    BY <2>1, <2>2
<1> QED
  BY <1>1, <1>2, <1>3, <1>4, <1>5, <1>6

\* What the thread in control leaves of the mutex and of its semaphore.
LEMMA MutexHolder ==
  ASSUME IInv, NEW c \in Contexts, emu = "wait", ~AtHelper, InControl = c
  PROVE  /\ trapMutex = IF tpc[c] \in {"calling", "exiting", "woken", "called"}
                        THEN 0 ELSE 1
         /\ toTrap[c] = IF tpc[c] \in {"start", "called"} THEN 1 ELSE 0
<1>1. ControlInv(c) /\ Typed /\ MutexInv
  BY DEF IInv
<1>2. toTrap[c] = IF tpc[c] \in {"start", "called"} THEN 1 ELSE 0
  BY <1>1 DEF ControlInv, Handling
<1>3. ASSUME NEW d \in Contexts, d # c
      PROVE  tpc[d] \in {"free", "called"} /\ toTrap[d] = 0
  BY <1>3 DEF IInv, CalledInv, FreeInv
<1>4. Critical <=> tpc[c] \in {"calling", "exiting", "woken", "called"}
  BY <1>2, <1>3 DEF Critical
<1> QED
  BY <1>1, <1>2, <1>4 DEF MutexInv

\* trap_thread waits for switch_to_trap_sem, which only the emulator that
\* invoked the trap has posted.
LEMMA ThreadStartsInv ==
  ASSUME IInv, NEW c \in Contexts, ThreadStarts(c) PROVE IInv'
<1> USE DEF ThreadStarts, TGoto
<1>1. emu = "wait" /\ ~AtHelper /\ InControl = c
  BY ThreadInControl
<1>2. trapMutex = 1 /\ toTrap[c] = 1 /\ calls[c] = 0
  BY <1>1, MutexHolder DEF IInv, ValueInv
<1>3. Internal(c, "handler")
  BY <1>2 DEF Internal
<1> QED
  BY <1>1, <1>3, InternalStep

\* trap_Call68k and the end of trap_thread take trap_mutex: it is free.
LEMMA CallLockInv ==
  ASSUME IInv, NEW c \in Contexts, CallLock(c) \/ ExitLock(c) PROVE IInv'
<1> USE DEF CallLock, ExitLock, TGoto
<1>1. emu = "wait" /\ ~AtHelper /\ InControl = c
  BY ThreadInControl
<1>2. trapMutex = 1 /\ toTrap[c] = 0
  BY <1>1, MutexHolder
<1>3. toTrap = [toTrap EXCEPT ![c] = 0]
  BY <1>2 DEF IInv, Typed
<1>4. CASE CallLock(c)
  <2>1. Internal(c, "calling")
    BY <1>2, <1>3, <1>4 DEF Internal
  <2> QED
    BY <1>1, <2>1, InternalStep
<1>5. CASE ExitLock(c)
  <2>1. Internal(c, "exiting")
    BY <1>2, <1>3, <1>5 DEF Internal
  <2> QED
    BY <1>1, <2>1, InternalStep
<1> QED
  BY <1>4, <1>5

\* trap_Call68k wakes with the value of the call it made, and trap_mutex taken.
LEMMA CallWokenInv ==
  ASSUME IInv, NEW c \in Contexts, CallWoken(c) PROVE IInv'
<1> USE DEF CallWoken, TGoto
<1>1. emu = "wait" /\ ~AtHelper /\ InControl = c
  BY ThreadInControl
<1>2. trapMutex = 0 /\ toTrap[c] = 1
  BY <1>1, MutexHolder
<1>3. retval[c] = <<c, calls[c]>>
  BY DEF IInv, ValueInv
<1>4. Internal(c, "woken")
  BY <1>2, <1>3 DEF Internal
<1> QED
  BY <1>1, <1>4, InternalStep

\* trap_Call68k releases trap_mutex, which m68k_return_handler took.
LEMMA CallUnlockInv ==
  ASSUME IInv, NEW c \in Contexts, CallUnlock(c) PROVE IInv'
<1> USE DEF CallUnlock, TGoto
<1>1. emu = "wait" /\ ~AtHelper /\ InControl = c
  BY ThreadInControl
<1>2. trapMutex = 0 /\ toTrap[c] = 0
  BY <1>1, MutexHolder
<1>3. toTrap = [toTrap EXCEPT ![c] = 0]
  BY <1>2 DEF IInv, Typed
<1>4. calls[c] > 0 => retval[c] = <<c, calls[c]>>
  BY DEF IInv, ValueInv
<1>5. Internal(c, "handler")
  BY <1>2, <1>3, <1>4 DEF Internal
<1> QED
  BY <1>1, <1>5, InternalStep

\* The 68k runs code of its own before and after the step.
LEMMA CodeStep ==
  ASSUME IInv, emu = "run", ~AtHelper,
         UNCHANGED <<stack, emuContext, currentContext, ctxVars>>,
         Typed', CpuInv', emu' \in {"run", "returning"}, ~AtHelper',
         trapMutex' = IF emu' = "returning" THEN 0 ELSE 1
  PROVE  IInv'
<1> USE DEF IInv, ctxVars
<1>1. InControl = NoContext /\ InControl' = NoContext
  BY DEF InControl
<1>2. StackInv'
  BY <1>1 DEF StackInv, Waits
<1>3. ASSUME NEW c \in Contexts
      PROVE  /\ FreeInv(c)' /\ CalledInv(c)' /\ ControlInv(c)' /\ ValueInv(c)'
             /\ tpc[c] \in {"free", "called"} /\ toTrap[c] = 0
  <2>1. c # InControl
    BY <1>1, TrapsAssumption
  <2>2. FreeInv(c) /\ CalledInv(c) /\ ValueInv(c)
    OBVIOUS
  <2> QED
    BY <1>1, <2>1, <2>2 DEF FreeInv, CalledInv, ControlInv, ValueInv, Own
<1>4. MutexInv'
  BY <1>3 DEF MutexInv, Critical
<1> QED
  BY <1>2, <1>3, <1>4

\* While the 68k runs code of its own no thread holds trap_mutex.
LEMMA NotCritical ==
  ASSUME IInv, emu = "run", ~AtHelper PROVE trapMutex = 1 /\ InControl = NoContext
<1>1. InControl = NoContext
  BY DEF InControl
<1>2. ASSUME NEW c \in Contexts PROVE tpc[c] \in {"free", "called"} /\ toTrap[c] = 0
  BY <1>1, TrapsAssumption DEF IInv, FreeInv, CalledInv
<1> QED
  BY <1>1, <1>2 DEF IInv, MutexInv, Critical

\* Exec puts back the state of a task as it saved it.
LEMMA TaskSwitchInv ==
  ASSUME IInv, NEW t \in Tasks, TaskSwitch(t) PROVE IInv'
<1> USE DEF TaskSwitch, emuVars
<1>1. ~AtHelper
  BY DEF IInv, CpuInv
<1>2. Own(regs, thisTask) /\ regs.sp = Len(stack[thisTask])
  BY <1>1 DEF IInv, CpuInv
<1>3. Own(taskRegs[t], t) /\ taskRegs[t].sp = Len(stack[t])
  BY DEF IInv, CpuInv
<1>4. ~AtHelper'
  BY <1>3 DEF Own, AtHelper
<1>5. Typed'
  BY DEF IInv, Typed, ctxVars
<1>6. CpuInv'
  <2>1. ASSUME NEW s \in Tasks \ {t}
        PROVE  Own(taskRegs'[s], s) /\ taskRegs'[s].sp = Len(stack[s])
    <3>1. CASE s = thisTask
      BY <1>2, <3>1 DEF IInv, Typed
    <3>2. CASE s # thisTask
      BY <3>2 DEF IInv, Typed, CpuInv
    <3> QED
      BY <3>1, <3>2
  <2> QED
    BY <1>3, <1>4, <2>1 DEF CpuInv, Own, ctxVars
<1> QED
  BY <1>1, <1>4, <1>5, <1>6, NotCritical, CodeStep

\* A called function returns to the return trap with its value in D0.
LEMMA FuncReturnsInv ==
  ASSUME IInv, FuncReturns PROVE IInv'
<1> USE DEF FuncReturns, emuVars
<1>1. ~AtHelper /\ ~AtHelper'
  BY DEF AtHelper, IInv, Typed, Regs
<1>2. Typed'
  BY DEF IInv, Typed, ctxVars, Regs, Pcs
<1>3. CpuInv'
  BY <1>1, <1>2 DEF IInv, CpuInv, Own, Typed, Regs, ctxVars
<1> QED
  BY <1>1, <1>2, <1>3, NotCritical, CodeStep

\* m68k_return_handler takes trap_mutex.
LEMMA ReturnLockInv ==
  ASSUME IInv, ReturnLock PROVE IInv'
<1> USE DEF ReturnLock, cpuVars
<1>1. ~AtHelper /\ ~AtHelper'
  BY DEF AtHelper
<1>2. trapMutex = 1
  BY <1>1, NotCritical
<1>3. Typed'
  BY <1>2 DEF IInv, Typed, ctxVars
<1>4. CpuInv'
  BY <1>1 DEF IInv, CpuInv, Own, ctxVars
<1> QED
  BY <1>1, <1>2, <1>3, <1>4, CodeStep

\* What runs in a task keeps its place while only the context in control
\* changes: no stack holds that context.
LEMMA OwnKept ==
  ASSUME IInv, UNCHANGED stack,
         \A d \in Contexts \ {InControl} : calls'[d] = calls[d]
  PROVE  \A t \in Tasks, r \in Regs : Own(r, t) => Own(r, t)'
<1> SUFFICES ASSUME NEW t \in Tasks, NEW r \in Regs, Own(r, t)
             PROVE  Own(r, t)'
  OBVIOUS
<1>1. r.sp \in Nat
  BY DEF Regs
<1>2. CASE r.pc = "code"
  BY <1>2 DEF Own
<1>3. CASE r.pc # "code"
  <2>1. r.sp \in 1 .. Len(stack[t])
    BY <1>1, <1>3 DEF Own, IInv, Typed
  <2>2. Waits(stack[t][r.sp], t, r.sp)
    BY <2>1 DEF IInv, StackInv
  <2>3. calls'[stack[t][r.sp]] = calls[stack[t][r.sp]]
    BY <2>2 DEF Waits
  <2> QED
    BY <2>3 DEF Own
<1> QED
  BY <1>2, <1>3

\* trap_Call68k and the end of trap_thread switch to the emulator with pc at
\* a helper trap: the context stays in control until that trap is executed.
LEMMA SwitchInv ==
  ASSUME IInv, NEW c \in Contexts, CallSwitch(c) \/ ExitSwitch(c) PROVE IInv'
<1> USE DEF CallSwitch, ExitSwitch, TGoto, emuVars
<1>1. emu = "wait" /\ emuContext = c /\ ~AtHelper /\ InControl = c
  BY ThreadInControl
<1>2. trapMutex = 0 /\ toTrap[c] = 0 /\ toEmu[c] = 0
  BY <1>1, MutexHolder DEF IInv, ControlInv
<1>3. /\ saved[c] \in Regs /\ saved[c].task = thisTask /\ saved[c].sp = regs.sp
      /\ regs \in Regs /\ regs.task = thisTask
  BY <1>1 DEF IInv, CalledInv, ControlInv, Typed, CpuInv
<1>4. /\ regs' \in Regs /\ regs'.pc \in {"callTrap", "exitTrap"}
      /\ regs'.task = thisTask /\ regs'.sp = regs.sp /\ regs'.intmask = 7
  BY <1>3 DEF Regs, Pcs
<1>5. AtHelper' /\ InControl' = c
  BY <1>1, <1>4 DEF AtHelper, InControl
<1>6. Typed'
  <2>0. Typed /\ (tpc[c] = "calling" => calls[c] < MaxCalls[c])
    BY DEF IInv, ValueInv
  <2>1. CASE CallSwitch(c)
    <3>0. calls[c] \in Nat /\ MaxCalls[c] \in Nat
      BY <2>0, TrapsAssumption DEF Typed
    <3>01. calls[c] < MaxCalls[c]
      BY <2>0, <2>1
    <3>1. calls[c] + 1 \in Nat /\ calls[c] + 1 <= MaxCalls[c]
      BY <3>0, <3>01
    <3>2. calls' \in [Contexts -> Nat]
      BY <2>0, <2>1, <3>1 DEF Typed
    <3>3. \A d \in Contexts : calls'[d] <= MaxCalls[d]
      BY <2>0, <2>1, <3>1 DEF Typed
    <3>4. funcAddr' \in [Contexts -> CallIds \cup {NoCall}]
      BY <2>0, <2>1, <3>1 DEF Typed, CallIds
    <3> QED
      BY <1>4, <2>0, <2>1, <3>2, <3>3, <3>4 DEF Typed
  <2>2. CASE ExitSwitch(c)
    BY <1>4, <2>0, <2>2 DEF Typed
  <2> QED
    BY <2>1, <2>2
<1>7. Left(c)'
  <2>0. Typed
    BY DEF IInv
  <2>1. CASE CallSwitch(c)
    BY <1>3, <2>0, <2>1 DEF Left, Typed, Regs
  <2>2. CASE ExitSwitch(c)
    BY <1>3, <2>0, <2>2 DEF Left, Typed, Regs
  <2> QED
    BY <2>1, <2>2
<1>8. \A d \in Contexts \ {c} : /\ tpc'[d] = tpc[d] /\ calls'[d] = calls[d]
                                /\ toEmu'[d] = toEmu[d]
  BY DEF IInv, Typed
<1>9. \A t \in Tasks, r \in Regs : Own(r, t) => Own(r, t)'
  BY <1>1, <1>8, OwnKept
<1>10. CpuInv'
  <2>1. ASSUME NEW t \in Tasks \ {thisTask}
        PROVE  Own(taskRegs[t], t)' /\ taskRegs[t].sp = Len(stack[t])
    <3>1. Own(taskRegs[t], t) /\ taskRegs[t].sp = Len(stack[t])
      BY DEF IInv, CpuInv
    <3> QED
      BY <1>9, <3>1 DEF Own
  <2> QED
    BY <1>4, <1>5, <1>1, <2>1 DEF IInv, CpuInv
<1>11. StackInv'
  <2> SUFFICES ASSUME NEW t \in Tasks, NEW i \in 1 .. Len(stack[t])
               PROVE  Waits(stack[t][i], t, i)'
    BY DEF StackInv
  <2>1. Waits(stack[t][i], t, i)
    BY DEF IInv, StackInv
  <2> QED
    BY <1>1, <1>5, <1>8, <2>1 DEF Waits
<1>12. MutexInv'
  BY <1>2, <1>5 DEF MutexInv, Critical
<1>13. ASSUME NEW d \in Contexts
       PROVE  FreeInv(d)' /\ CalledInv(d)' /\ ControlInv(d)' /\ ValueInv(d)'
  <2>0. FreeInv(d) /\ CalledInv(d) /\ ControlInv(d) /\ ValueInv(d)
    BY DEF IInv
  <2>1. CASE d = c
    <3>0. tpc[c] # "free"
      OBVIOUS
    <3>1. tpc'[c] \in {"called", "dead"} /\ toEmu'[c] = 1
      BY <1>2 DEF IInv, Typed
    <3>2. Own(saved[c], saved[c].task)'
      <4>1. Own(saved[c], thisTask) /\ saved' = saved /\ thisTask \in Tasks
        BY <1>3, <2>0, <2>1, <3>0 DEF CalledInv, IInv, Typed
      <4> QED
        BY <1>3, <1>9, <4>1 DEF Own
    <3>3. FreeInv(c)' /\ ValueInv(c)'
      BY <1>2, <3>1 DEF FreeInv, ValueInv
    <3>4. CalledInv(c)'
      BY <1>3, <1>5, <3>2 DEF CalledInv
    <3>5. ControlInv(c)'
      BY <1>1, <1>2, <1>3, <1>4, <1>5, <1>7, <3>1 DEF ControlInv
    <3> QED
      BY <2>1, <3>3, <3>4, <3>5
  <2>2. CASE d # c
    <3>1. tpc[d] # "free" => Own(saved[d], saved[d].task)'
      BY <1>9, <2>0 DEF CalledInv, Own, Regs
    <3> QED
      BY <1>1, <1>5, <1>8, <2>0, <2>2, <3>1
      DEF FreeInv, CalledInv, ControlInv, ValueInv, IInv, Typed
  <2> QED
    BY <2>1, <2>2
<1>14. emuContext' # NoContext /\ currentContext' # NoContext
  BY <1>1, TrapsAssumption
<1> QED
  BY <1>6, <1>10, <1>11, <1>12, <1>13, <1>14 DEF IInv

\* The emulator goes on at the helper trap of the context that woke it, with
\* which trap_HandleExtendedTrap or m68k_return_handler waited.
LEMMA EmuResumesInv ==
  ASSUME IInv, EmuResumes PROVE IInv'
<1> USE DEF EmuResumes, cpuVars
<1> DEFINE c == emuContext
<1>1. c \in Contexts /\ InControl = c
  BY DEF IInv, Typed, InControl
<1>2. ControlInv(c) /\ Typed
  BY <1>1 DEF IInv
<1>3. AtHelper /\ toEmu[c] = 1 /\ currentContext = c
  BY <1>1, <1>2 DEF ControlInv, Left, Typed
<1>4. AtHelper' /\ InControl' = c
  BY <1>3 DEF AtHelper, InControl
<1>5. toEmu' = [toEmu EXCEPT ![c] = 0]
  BY <1>1, <1>2, <1>3 DEF Typed
<1>51. Typed'
  BY <1>1, <1>2, <1>5 DEF Typed
<1>6. CpuInv'
  BY <1>3, <1>4 DEF IInv, CpuInv, Own
<1>7. StackInv'
  BY <1>1, <1>4 DEF IInv, StackInv, Waits
<1>8. MutexInv'
  BY <1>3, <1>4 DEF IInv, MutexInv, Critical
<1>9. ASSUME NEW d \in Contexts
      PROVE  FreeInv(d)' /\ CalledInv(d)' /\ ControlInv(d)' /\ ValueInv(d)'
  <2>0. FreeInv(d) /\ CalledInv(d) /\ ControlInv(d) /\ ValueInv(d)
    BY DEF IInv
  <2>1. toEmu'[d] = IF d = c THEN 0 ELSE toEmu[d]
    BY <1>2, <1>5 DEF Typed
  <2>2. FreeInv(d)' /\ ValueInv(d)'
    BY <2>0, <2>1, <1>2, <1>3 DEF FreeInv, ValueInv
  <2>3. CalledInv(d)'
    BY <1>1, <1>4, <2>0, <2>1 DEF CalledInv, Own
  <2>4. ControlInv(d)'
    BY <1>1, <1>3, <1>4, <2>0, <2>1 DEF ControlInv, Left
  <2> QED
    BY <2>2, <2>3, <2>4
<1>10. currentContext # NoContext
  BY <1>1, <1>3, TrapsAssumption
<1> QED
  BY <1>51, <1>6, <1>7, <1>8, <1>9, <1>10 DEF IInv

\* A context that is not in control is free or waits for its call.
LEMMA Outside ==
  ASSUME IInv, NEW d \in Contexts, d # InControl
  PROVE  tpc[d] \in {"free", "called"} /\ toTrap[d] = 0 /\ toEmu[d] = 0
BY DEF IInv, FreeInv, CalledInv

\* m68k_call_handler: the context goes on the stack of its task, above what
\* was there when its trap was invoked, and the function's code runs.
LEMMA CallTrapInv ==
  ASSUME IInv, CallTrap PROVE IInv'
<1> DEFINE c == currentContext
           s == stack[thisTask]
<1> USE DEF CallTrap, emuVars, ctxVars
<1>0. Typed /\ AtHelper
  BY DEF IInv, AtHelper
<1>1. c \in Contexts /\ InControl = c
  BY <1>0 DEF IInv, Typed, InControl, AtHelper
<1>2. /\ FreeInv(c) /\ CalledInv(c) /\ ControlInv(c) /\ ValueInv(c) /\ CpuInv
      /\ StackInv /\ MutexInv
  BY <1>1 DEF IInv
<1>3. /\ tpc[c] = "called" /\ toTrap[c] = 0 /\ toEmu[c] = 0
      /\ funcAddr[c] = <<c, calls[c]>> /\ calls[c] \in Nat
      /\ saved[c] \in Regs /\ saved[c].task = thisTask
      /\ saved[c].sp = regs.sp /\ saved[c].intmask = 0
  BY <1>0, <1>1, <1>2 DEF ControlInv, Left, CalledInv, Own, Typed
<1>4. trapMutex = 0
  BY <1>0, <1>2 DEF MutexInv, Critical
<1>5. s \in Seq(Contexts) /\ regs.sp = Len(s) /\ regs.task = thisTask
  BY <1>0, <1>2 DEF CpuInv, Typed
<1>6. SubSeq(s, 1, Len(s)) = s
  BY <1>5, SubSeqFull
<1>7. /\ Len(Append(s, c)) = Len(s) + 1
      /\ \A i \in 1 .. Len(s) : Append(s, c)[i] = s[i]
      /\ Append(s, c)[Len(s) + 1] = c
      /\ Append(s, c) \in Seq(Contexts)
  BY <1>1, <1>5, AppendProperties
<1>8. stack' = [stack EXCEPT ![thisTask] = Append(s, c)]
  BY <1>5, <1>6 DEF Typed
<1>9. stack'[thisTask] = Append(s, c) /\ \A t \in Tasks \ {thisTask} : stack'[t] = stack[t]
  BY <1>0, <1>8 DEF Typed
<1>10. /\ regs' \in Regs /\ regs'.pc = "func" /\ regs'.func = <<c, calls[c]>>
       /\ regs'.sp = Len(s) + 1 /\ regs'.intmask = 0 /\ regs'.task = thisTask
  <2>1. regs' = [regs EXCEPT !.pc = "func", !.func = <<c, calls[c]>>,
                             !.sp = @ + 1, !.intmask = 0]
    BY <1>3
  <2>2. <<c, calls[c]>> \in CallIds /\ regs.sp \in Nat /\ regs \in Regs
    BY <1>0, <1>1, <1>3 DEF CallIds, Typed, Regs
  <2> HIDE DEF CallTrap, c
  <2>3. regs' = [pc |-> "func", func |-> <<c, calls[c]>>, task |-> regs.task,
                 sp |-> regs.sp + 1, intmask |-> 0]
    BY <2>1, <2>2 DEF Regs
  <2>4. regs' \in Regs
    BY <2>2, <2>3 DEF Regs, Pcs
  <2> QED
    BY <1>5, <2>3, <2>4
<1>11. ~AtHelper' /\ InControl' = NoContext
  BY <1>10 DEF AtHelper, InControl
<1>12. \A d \in Contexts : d # InControl'
  BY <1>11, TrapsAssumption
<1>13. Typed'
  <2>1. stack' \in [Tasks -> Seq(Contexts)]
    BY <1>0, <1>7, <1>8 DEF Typed
  <2> QED
    BY <1>0, <1>4, <1>10, <2>1 DEF Typed
<1>14. \A t \in Tasks, r \in Regs : Own(r, t) => Own(r, t)'
  <2> SUFFICES ASSUME NEW t \in Tasks, NEW r \in Regs, Own(r, t)
               PROVE  Own(r, t)'
    OBVIOUS
  <2>1. CASE t = thisTask
    <3>1. r.sp \in Nat /\ r.sp <= Len(s) /\ Len(s) \in Nat
      BY <1>5, <2>1 DEF Own, Regs
    <3>2. r.sp > 0 => stack'[t][r.sp] = stack[t][r.sp]
      <4>1. r.sp > 0 => r.sp \in 1 .. Len(s)
        BY <3>1
      <4> QED
        BY <1>7, <1>9, <2>1, <4>1
    <3>3. r.sp <= Len(stack'[t])
      <4>1. Len(stack'[t]) = Len(s) + 1
        BY <1>7, <1>9, <2>1, Zenon
      <4> HIDE DEF CallTrap, s
      <4> QED
        BY <3>1, <4>1
    <3>4. calls' = calls
      OBVIOUS
    <3> QED
      BY <3>1, <3>2, <3>3, <3>4 DEF Own
  <2>2. CASE t # thisTask
    BY <1>9, <2>2 DEF Own
  <2> QED
    BY <2>1, <2>2
<1>15. CpuInv'
  <2>1. ASSUME NEW t \in Tasks \ {thisTask}
        PROVE  Own(taskRegs[t], t)' /\ taskRegs[t].sp = Len(stack'[t])
    <3>1. Own(taskRegs[t], t) /\ taskRegs[t].sp = Len(stack[t]) /\ taskRegs[t] \in Regs
      BY <1>2 DEF CpuInv, Own
    <3> QED
      BY <1>9, <1>14, <3>1 DEF Own
  <2>2. Own(regs, thisTask)'
    BY <1>5, <1>7, <1>9, <1>10 DEF Own
  <2> QED
    BY <1>7, <1>9, <1>10, <1>11, <2>1, <2>2 DEF CpuInv
<1>16. StackInv'
  <2> SUFFICES ASSUME NEW t \in Tasks, NEW i \in 1 .. Len(stack'[t])
               PROVE  Waits(stack[t][i], t, i)'
    BY DEF StackInv
  <2>1. CASE t = thisTask /\ i = Len(s) + 1
    <3>1. stack'[t][i] = c /\ i - 1 = regs.sp
      BY <1>5, <1>7, <1>9, <2>1
    <3> QED
      BY <1>1, <1>3, <1>12, <2>1, <3>1 DEF Waits
  <2>2. CASE ~(t = thisTask /\ i = Len(s) + 1)
    <3>1. i \in 1 .. Len(stack[t]) /\ stack'[t][i] = stack[t][i]
      BY <1>5, <1>7, <1>9, <2>2
    <3>2. Waits(stack[t][i], t, i)
      BY <1>2, <3>1 DEF StackInv
    <3> QED
      BY <1>12, <3>1, <3>2 DEF Waits
  <2> QED
    BY <2>1, <2>2
<1>17. MutexInv'
  <2>1. \A d \in Contexts : tpc[d] \in {"free", "called"} /\ toTrap[d] = 0
    BY <1>1, <1>3, Outside
  <2> QED
    BY <1>4, <1>11, <2>1 DEF MutexInv, Critical
<1>18. ASSUME NEW d \in Contexts
       PROVE  FreeInv(d)' /\ CalledInv(d)' /\ ControlInv(d)' /\ ValueInv(d)'
  <2>0. FreeInv(d) /\ CalledInv(d) /\ ControlInv(d) /\ ValueInv(d)
    BY DEF IInv
  <2>1. FreeInv(d)' /\ ValueInv(d)' /\ ControlInv(d)'
    BY <1>12, <2>0 DEF FreeInv, ValueInv, ControlInv
  <2>2. tpc[d] # "free" => Own(saved[d], saved[d].task)'
    <3>1. saved' = saved /\ (saved[d] \in Regs => saved[d].task \in Tasks)
      BY DEF Regs
    <3> HIDE DEF CallTrap
    <3>2. tpc[d] # "free" => saved[d] \in Regs /\ Own(saved[d], saved[d].task)
      BY <2>0 DEF CalledInv
    <3> QED
      BY <1>14, <3>1, <3>2 DEF Own
  <2>3. CalledInv(d)'
    <3>1. CASE d = c
      BY <1>3, <1>5, <1>7, <1>9, <2>2, <3>1 DEF CalledInv
    <3>2. CASE d # c /\ tpc[d] # "free"
      <4>1. /\ tpc[d] = "called" /\ toEmu[d] = 0 /\ toTrap[d] = 0
            /\ saved[d] \in Regs /\ saved[d].task \in Tasks /\ saved[d].sp \in Nat
            /\ saved[d].sp < Len(stack[saved[d].task])
            /\ stack[saved[d].task][saved[d].sp + 1] = d
        BY <1>1, <2>0, <3>2 DEF CalledInv, Regs
      <4>2. /\ saved[d].sp < Len(stack'[saved[d].task])
            /\ stack'[saved[d].task][saved[d].sp + 1] = d
        BY <1>5, <1>7, <1>9, <4>1
      <4> QED
        BY <2>2, <3>2, <4>1, <4>2 DEF CalledInv
    <3> QED
      BY <3>1, <3>2 DEF CalledInv
  <2> QED
    BY <2>1, <2>3
<1> QED
  BY <1>11, <1>13, <1>15, <1>16, <1>17, <1>18 DEF IInv

\* trap_HandleExtendedTrap: the context and its thread are made, and the
\* emulator waits for them.
LEMMA InvokeTrapInv ==
  ASSUME IInv, NEW c \in Contexts, InvokeTrap(c) PROVE IInv'
<1> USE DEF InvokeTrap, cpuVars
<1>1. ~AtHelper /\ ~AtHelper' /\ InControl' = c /\ c # NoContext
  BY TrapsAssumption DEF AtHelper, InControl
<1>2. trapMutex = 1 /\ InControl = NoContext
  BY <1>1, NotCritical
<1>3. Typed /\ CpuInv /\ StackInv /\ FreeInv(c)
  BY DEF IInv
<1>4. \A d \in Contexts : tpc[d] \in {"free", "called"} /\ toTrap[d] = 0 /\ toEmu[d] = 0
  BY <1>2, Outside, TrapsAssumption
<1>5. Typed'
  BY <1>3 DEF Typed
<1>6. tpc'[c] = "start" /\ toEmu'[c] = 0 /\ toTrap'[c] = 1 /\ saved'[c] = regs
  BY <1>3 DEF Typed
<1>7. \A d \in Contexts \ {c} : /\ tpc'[d] = tpc[d] /\ toEmu'[d] = toEmu[d]
                                /\ toTrap'[d] = toTrap[d] /\ saved'[d] = saved[d]
  BY <1>3 DEF Typed
<1>8. CpuInv'
  BY <1>1, <1>3 DEF CpuInv, Own
<1>9. StackInv'
  <2> SUFFICES ASSUME NEW t \in Tasks, NEW i \in 1 .. Len(stack[t])
               PROVE  Waits(stack[t][i], t, i)'
    BY DEF StackInv
  <2>1. Waits(stack[t][i], t, i)
    BY <1>3 DEF StackInv
  <2> QED
    BY <1>1, <1>7, <2>1 DEF Waits
<1>10. MutexInv'
  <2>1. \A d \in Contexts : tpc'[d] \in {"free", "called", "start"} /\ (tpc'[d] = "called" => toTrap'[d] = 0)
    BY <1>4, <1>6, <1>7
  <2> QED
    BY <1>1, <1>2, <2>1 DEF MutexInv, Critical
<1>11. ASSUME NEW d \in Contexts
       PROVE  FreeInv(d)' /\ CalledInv(d)' /\ ControlInv(d)' /\ ValueInv(d)'
  <2>0. FreeInv(d) /\ CalledInv(d) /\ ControlInv(d) /\ ValueInv(d)
    BY DEF IInv
  <2>1. CASE d = c
    <3>1. Own(saved[c], saved[c].task)' /\ saved'[c] \in Regs
      BY <1>1, <1>3, <1>6 DEF CpuInv, Own
    <3>2. CalledInv(c)'
      BY <1>1, <3>1 DEF CalledInv
    <3>3. ControlInv(c)'
      BY <1>1, <1>3, <1>6 DEF ControlInv, CpuInv
    <3>4. FreeInv(c)' /\ ValueInv(c)'
      BY <1>3, <1>6 DEF FreeInv, ValueInv
    <3> QED
      BY <2>1, <3>2, <3>3, <3>4
  <2>2. CASE d # c
    <3>1. tpc[d] # "free" => Own(saved[d], saved[d].task)'
      BY <1>7, <2>0, <2>2 DEF CalledInv, Own
    <3>2. d # InControl
      BY <1>2, TrapsAssumption
    <3> QED
      BY <1>1, <1>7, <2>0, <2>2, <3>1, <3>2
      DEF FreeInv, CalledInv, ControlInv, ValueInv
  <2> QED
    BY <2>1, <2>2
<1> QED
  BY <1>1, <1>5, <1>8, <1>9, <1>10, <1>11 DEF IInv

\* m68k_return_handler: the context on top of the stack of the task that
\* runs is the one whose function has returned; its value goes to it.
LEMMA ReturnTrapInv ==
  ASSUME IInv, ReturnTrap PROVE IInv'
<1> DEFINE s == stack[thisTask]
           n == Len(s)
           q == SubSeq(s, 1, n - 1)
<1>0. Typed /\ CpuInv /\ StackInv /\ MutexInv /\ emu = "returning"
  BY DEF IInv, ReturnTrap, ReturnOf
<1>1. /\ regs.pc = "returnTrap" /\ Own(regs, thisTask) /\ ~AtHelper
      /\ regs.task = thisTask /\ regs.sp = n
  BY <1>0 DEF CpuInv, AtHelper
<1>2. s \in Seq(Contexts) /\ n \in Nat /\ n > 0 /\ n \in 1 .. n
  BY <1>0, <1>1 DEF Own, Typed
<1>3. PICK c \in Contexts : c = s[n]
  BY <1>0, <1>2 DEF Typed
<1>31. regs.func = <<c, calls[c]>> /\ InControl = NoContext
  BY <1>0, <1>1, <1>3 DEF Own, InControl
<1>4. /\ q \in Seq(Contexts) /\ Len(q) = n - 1
      /\ \A i \in 1 .. n - 1 : q[i] = s[i]
  BY <1>2, SubSeqProperties
<1>5. /\ retval' = [retval EXCEPT ![c] = <<c, calls[c]>>]
      /\ toTrap' = [toTrap EXCEPT ![c] = @ + 1]
      /\ emuContext' = c /\ emu' = "wait"
      /\ regs' = [regs EXCEPT !.sp = n - 1, !.func = NoCall]
      /\ stack' = [stack EXCEPT ![thisTask] = q]
      /\ UNCHANGED <<taskRegs, thisTask, currentContext, trapMutex, toEmu,
                     tpc, saved, funcAddr, calls>>
  BY <1>1, <1>3, <1>31 DEF ReturnTrap, ReturnOf
<1> HIDE DEF q, n
<1>6. Waits(c, thisTask, n) /\ CalledInv(c) /\ FreeInv(c)
  <2>1. thisTask \in Tasks /\ n \in 1 .. Len(stack[thisTask])
    BY <1>0, <1>2 DEF Typed, n
  <2>2. Waits(stack[thisTask][n], thisTask, n)
    BY <1>0, <2>1 DEF StackInv
  <2>3. CalledInv(c) /\ FreeInv(c)
    BY <1>3 DEF IInv
  <2> QED
    BY <1>3, <2>2, <2>3
<1>7. c # InControl /\ toTrap[c] = 0 /\ toEmu[c] = 0
  BY <1>6, <1>31, TrapsAssumption DEF Waits, CalledInv
<1>8. toTrap' = [toTrap EXCEPT ![c] = 1]
  BY <1>5, <1>7
<1>9. /\ regs' \in Regs /\ regs'.pc = "returnTrap" /\ regs'.task = thisTask
      /\ regs'.sp = n - 1
  <2>1. regs' = [pc |-> regs.pc, func |-> NoCall, task |-> regs.task,
                 sp |-> n - 1, intmask |-> regs.intmask]
    BY <1>0, <1>5 DEF Typed, Regs
  <2> QED
    BY <1>0, <1>1, <1>2, <2>1 DEF Typed, Regs, Pcs
<1>10. ~AtHelper' /\ InControl' = c
  BY <1>5, <1>9 DEF AtHelper, InControl
<1>11. stack'[thisTask] = q /\ \A t \in Tasks \ {thisTask} : stack'[t] = stack[t]
  BY <1>0, <1>5 DEF Typed
<1>12. Typed'
  <2>1. stack' \in [Tasks -> Seq(Contexts)]
    BY <1>0, <1>4, <1>5 DEF Typed
  <2>2. <<c, calls[c]>> \in CallIds
    BY <1>0, <1>3 DEF Typed, CallIds
  <2>3. retval' \in [Contexts -> CallIds \cup {NoCall}]
    BY <1>0, <1>5, <2>2 DEF Typed
  <2>4. toTrap' \in [Contexts -> Nat]
    BY <1>0, <1>8 DEF Typed
  <2>5. /\ regs' \in Regs /\ emuContext' \in Contexts \cup {NoContext}
        /\ emu' \in {"run", "wait", "returning"}
        /\ UNCHANGED <<taskRegs, thisTask, currentContext, trapMutex, toEmu,
                       tpc, saved, funcAddr, calls>>
    BY <1>3, <1>5, <1>9
  <2> QED
    BY <1>0, <2>1, <2>3, <2>4, <2>5 DEF Typed
<1>13. \A t \in Tasks, r \in Regs :
         Own(r, t) /\ (t = thisTask => r.sp < n) => Own(r, t)'
  <2> SUFFICES ASSUME NEW t \in Tasks, NEW r \in Regs, Own(r, t),
                      t = thisTask => r.sp < n
               PROVE  Own(r, t)'
    OBVIOUS
  <2>0. calls' = calls
    BY <1>5
  <2>1. CASE t = thisTask
    <3>1. r.sp \in Nat /\ r.sp <= n - 1
      BY <1>2, <2>1 DEF Regs
    <3>2. r.sp > 0 => stack'[t][r.sp] = stack[t][r.sp]
      <4>1. r.sp > 0 => r.sp \in 1 .. n - 1
        BY <1>2, <3>1
      <4> QED
        BY <1>4, <1>11, <2>1, <4>1
    <3>3. r.sp <= Len(stack'[t])
      BY <1>4, <1>11, <2>1, <3>1
    <3> QED
      BY <2>0, <3>1, <3>2, <3>3 DEF Own
  <2>2. CASE t # thisTask
    BY <1>11, <2>0, <2>2 DEF Own
  <2> QED
    BY <2>1, <2>2
<1>14. CpuInv'
  <2>1. ASSUME NEW t \in Tasks \ {thisTask}
        PROVE  Own(taskRegs[t], t)' /\ taskRegs[t].sp = Len(stack'[t])
    <3>1. Own(taskRegs[t], t) /\ taskRegs[t].sp = Len(stack[t]) /\ taskRegs[t] \in Regs
      BY <1>0 DEF CpuInv, Own
    <3> QED
      BY <1>5, <1>11, <1>13, <3>1 DEF Own
  <2>2. emu' = "wait" /\ thisTask' = thisTask /\ taskRegs' = taskRegs
    BY <1>5
  <2> QED
    BY <1>4, <1>9, <1>10, <1>11, <2>1, <2>2 DEF CpuInv
<1>15. ASSUME NEW t \in Tasks, NEW i \in 1 .. Len(stack'[t])
       PROVE  /\ i \in 1 .. Len(stack[t]) /\ stack'[t][i] = stack[t][i]
              /\ stack[t][i] # c
  <2>1. i \in 1 .. Len(stack[t]) /\ stack'[t][i] = stack[t][i] /\ (t = thisTask => i < n)
    <3>1. CASE t = thisTask
      BY <1>2, <1>4, <1>11, <3>1 DEF n
    <3>2. CASE t # thisTask
      BY <1>11, <3>2
    <3> QED
      BY <3>1, <3>2
  <2>2. Waits(stack[t][i], t, i)
    BY <1>0, <2>1 DEF StackInv
  <2> QED
    BY <1>2, <1>6, <2>1, <2>2 DEF Waits
<1>16. StackInv'
  <2> SUFFICES ASSUME NEW t \in Tasks, NEW i \in 1 .. Len(stack'[t])
               PROVE  Waits(stack[t][i], t, i)'
    BY DEF StackInv
  <2>1. i \in 1 .. Len(stack[t]) /\ stack'[t][i] = stack[t][i] /\ stack[t][i] # c
    BY <1>15
  <2>2. Waits(stack[t][i], t, i)
    BY <1>0, <2>1 DEF StackInv
  <2> QED
    BY <1>5, <1>10, <2>1, <2>2 DEF Waits
<1>17. MutexInv'
  <2>1. trapMutex = 0
    BY <1>0 DEF MutexInv, Critical
  <2>2. tpc'[c] = "called" /\ toTrap'[c] > 0
    BY <1>0, <1>3, <1>5, <1>6, <1>8 DEF Typed, Waits
  <2> QED
    BY <1>3, <1>5, <2>1, <2>2 DEF MutexInv, Critical
<1>18. ASSUME NEW d \in Contexts, d # c
       PROVE  FreeInv(d)' /\ CalledInv(d)' /\ ControlInv(d)' /\ ValueInv(d)'
  <2>0. FreeInv(d) /\ CalledInv(d) /\ ValueInv(d) /\ d # InControl
    BY <1>31, TrapsAssumption DEF IInv
  <2>1. /\ toTrap'[d] = toTrap[d] /\ retval'[d] = retval[d] /\ tpc' = tpc
        /\ toEmu' = toEmu /\ calls' = calls /\ saved' = saved
    BY <1>0, <1>5, <1>8, <1>18 DEF Typed
  <2>2. FreeInv(d)' /\ ValueInv(d)' /\ ControlInv(d)'
    BY <1>10, <1>18, <2>0, <2>1 DEF FreeInv, ValueInv, ControlInv
  <2>3. CASE tpc[d] # "free"
    <3>1. /\ tpc[d] = "called" /\ toEmu[d] = 0 /\ toTrap[d] = 0
          /\ saved[d] \in Regs /\ saved[d].task \in Tasks /\ saved[d].sp \in Nat
          /\ saved[d].sp < Len(stack[saved[d].task])
          /\ stack[saved[d].task][saved[d].sp + 1] = d
          /\ Own(saved[d], saved[d].task)
      BY <2>0, <2>3 DEF CalledInv, Regs
    <3>2. saved[d].task = thisTask => saved[d].sp < n - 1
      <4>1. saved[d].task = thisTask => saved[d].sp + 1 # n
        BY <1>3, <1>18, <3>1
      <4> QED
        BY <1>2, <3>1, <4>1 DEF n
    <3>3. /\ saved[d].sp < Len(stack'[saved[d].task])
          /\ stack'[saved[d].task][saved[d].sp + 1] = d
      <4>1. CASE saved[d].task = thisTask
        <5>1. saved[d].sp + 1 \in 1 .. n - 1
          BY <1>2, <3>1, <3>2, <4>1
        <5> QED
          BY <1>2, <1>4, <1>11, <3>1, <3>2, <4>1, <5>1
      <4>2. CASE saved[d].task # thisTask
        BY <1>11, <3>1, <4>2
      <4> QED
        BY <4>1, <4>2
    <3>4. saved[d].task = thisTask => saved[d].sp < n
      BY <1>2, <3>1, <3>2
    <3>5. Own(saved[d], saved[d].task)'
      BY <1>13, <2>1, <3>1, <3>4 DEF Own
    <3> QED
      BY <2>1, <2>2, <3>1, <3>3, <3>5 DEF CalledInv
  <2> QED
    BY <2>1, <2>2, <2>3 DEF CalledInv
<1>19. FreeInv(c)' /\ CalledInv(c)' /\ ControlInv(c)' /\ ValueInv(c)'
  <2>1. /\ tpc'[c] = "called" /\ toTrap'[c] = 1 /\ toEmu'[c] = 0
        /\ saved' = saved /\ calls' = calls /\ retval'[c] = <<c, calls[c]>>
        /\ saved[c] \in Regs /\ Own(saved[c], thisTask)
        /\ saved[c].task = thisTask /\ saved[c].sp = n - 1
    BY <1>0, <1>3, <1>5, <1>6, <1>7, <1>8 DEF Typed, Waits, CalledInv
  <2>2. Own(saved[c], saved[c].task)'
    <3>1. saved[c].sp < n /\ thisTask \in Tasks
      BY <1>0, <1>2, <2>1 DEF Typed
    <3> QED
      BY <1>13, <2>1, <3>1 DEF Own
  <2>3. FreeInv(c)' /\ ValueInv(c)'
    BY <2>1 DEF FreeInv, ValueInv
  <2>4. CalledInv(c)'
    BY <1>10, <2>1, <2>2 DEF CalledInv
  <2>5. ControlInv(c)'
    BY <1>5, <1>9, <1>10, <2>1 DEF ControlInv
  <2> QED
    BY <2>3, <2>4, <2>5
<1>20. emuContext' # NoContext
  BY <1>3, <1>5, TrapsAssumption
<1>21. \A d \in Contexts :
         FreeInv(d)' /\ CalledInv(d)' /\ ControlInv(d)' /\ ValueInv(d)'
  BY <1>18, <1>19
<1> QED
  BY <1>10, <1>12, <1>14, <1>16, <1>17, <1>20, <1>21 DEF IInv

\* exit_trap_handler: the task that invoked the trap goes on where it was,
\* and nothing is left of the context.
LEMMA ExitTrapInv ==
  ASSUME IInv, ExitTrap PROVE IInv'
<1> DEFINE c == currentContext
<1>0. /\ emu = "run" /\ AtHelper /\ Typed /\ CpuInv /\ StackInv
      /\ MutexInv /\ c # NoContext
  BY DEF IInv, AtHelper, ExitTrap
<1>1. c \in Contexts /\ InControl = c
  BY <1>0 DEF InControl, Typed
<1>2. CalledInv(c) /\ ControlInv(c)
  BY <1>1 DEF IInv
<1>3. /\ tpc[c] = "dead" /\ toEmu[c] = 0 /\ toTrap[c] = 0
      /\ saved[c] \in Regs /\ Own(saved[c], thisTask)
      /\ saved[c].task = thisTask /\ saved[c].sp = regs.sp
  BY <1>0, <1>1, <1>2 DEF ControlInv, CalledInv, ExitTrap
<1>4. trapMutex = 0
  BY <1>0 DEF MutexInv, Critical
<1>5. /\ regs' = saved[c] /\ trapMutex' = 1
      /\ tpc' = [tpc EXCEPT ![c] = "free"]
      /\ saved' = [saved EXCEPT ![c] = NoRegs]
      /\ funcAddr' = [funcAddr EXCEPT ![c] = NoCall]
      /\ retval' = [retval EXCEPT ![c] = NoCall]
      /\ calls' = [calls EXCEPT ![c] = 0]
      /\ UNCHANGED <<taskRegs, thisTask, stack, emu, emuContext,
                     currentContext, toEmu, toTrap>>
  BY <1>4 DEF ExitTrap, emuVars
<1> HIDE DEF c
<1>6. ~AtHelper' /\ InControl' = NoContext
  BY <1>0, <1>3, <1>5 DEF Own, AtHelper, InControl
<1>7. \A d \in Contexts : d # InControl'
  BY <1>6, TrapsAssumption
<1>8. /\ tpc'[c] = "free" /\ calls'[c] = 0
      /\ \A d \in Contexts \ {c} :
           /\ tpc'[d] = tpc[d] /\ saved'[d] = saved[d] /\ calls'[d] = calls[d]
           /\ retval'[d] = retval[d] /\ funcAddr'[d] = funcAddr[d]
  BY <1>0, <1>1, <1>5 DEF Typed
<1>9. \A t \in Tasks, r \in Regs : Own(r, t) => Own(r, t)'
  BY <1>1, <1>5, <1>8, OwnKept
<1>10. Typed'
  <2>1. \A d \in Contexts : calls'[d] <= MaxCalls[d]
    <3> SUFFICES ASSUME NEW d \in Contexts PROVE calls'[d] <= MaxCalls[d]
      OBVIOUS
    <3>1. MaxCalls[d] \in Nat /\ calls[d] <= MaxCalls[d]
      BY <1>0, TrapsAssumption DEF Typed
    <3> QED
      BY <1>8, <3>1
  <2> QED
    BY <1>0, <1>1, <1>3, <1>5, <2>1 DEF Typed
<1>11. CpuInv'
  <2>1. ASSUME NEW t \in Tasks \ {thisTask}
        PROVE  Own(taskRegs[t], t)' /\ taskRegs[t].sp = Len(stack[t])
    <3>1. Own(taskRegs[t], t) /\ taskRegs[t].sp = Len(stack[t]) /\ taskRegs[t] \in Regs
      BY <1>0 DEF CpuInv, Own
    <3> QED
      BY <1>5, <1>9, <3>1 DEF Own
  <2>2. Own(regs, thisTask)'
    <3>1. thisTask \in Tasks
      BY <1>0 DEF Typed
    <3> QED
      BY <1>3, <1>5, <1>9, <3>1 DEF Own
  <2>3. /\ emu' = "run" /\ thisTask' = thisTask /\ taskRegs' = taskRegs
        /\ stack' = stack /\ regs'.task = thisTask
        /\ regs'.sp = Len(stack[thisTask])
    BY <1>0, <1>3, <1>5 DEF CpuInv
  <2> QED
    BY <1>6, <2>1, <2>2, <2>3 DEF CpuInv
<1>12. StackInv'
  <2> SUFFICES ASSUME NEW t \in Tasks, NEW i \in 1 .. Len(stack[t])
               PROVE  Waits(stack[t][i], t, i)'
    BY <1>5 DEF StackInv
  <2>1. Waits(stack[t][i], t, i)
    BY <1>0 DEF StackInv
  <2> QED
    BY <1>1, <1>5, <1>7, <1>8, <2>1 DEF Waits
<1>13. MutexInv'
  <2>1. \A d \in Contexts : tpc'[d] \in {"free", "called"} /\ toTrap'[d] = 0
    BY <1>1, <1>3, <1>5, <1>8, Outside
  <2> QED
    BY <1>0, <1>5, <1>6, <2>1 DEF MutexInv, Critical
<1>14. ASSUME NEW d \in Contexts
       PROVE  FreeInv(d)' /\ CalledInv(d)' /\ ControlInv(d)' /\ ValueInv(d)'
  <2>0. FreeInv(d) /\ CalledInv(d) /\ ValueInv(d)
    BY DEF IInv
  <2>1. CASE d = c
    BY <1>3, <1>5, <1>7, <1>8, <2>1 DEF FreeInv, CalledInv, ControlInv, ValueInv
  <2>2. CASE d # c
    <3>1. tpc[d] # "free" => Own(saved[d], saved[d].task)'
      <4>1. tpc[d] # "free" => saved[d] \in Regs /\ Own(saved[d], saved[d].task) /\ saved[d].task \in Tasks
        BY <2>0 DEF CalledInv, Regs
      <4> QED
        BY <1>8, <1>9, <2>2, <4>1 DEF Own
    <3>2. toEmu' = toEmu /\ toTrap' = toTrap /\ stack' = stack
      BY <1>5
    <3> QED
      BY <1>1, <1>7, <1>8, <2>0, <2>2, <3>1, <3>2
      DEF FreeInv, CalledInv, ControlInv, ValueInv
  <2> QED
    BY <2>1, <2>2
<1> QED
  BY <1>0, <1>5, <1>6, <1>10, <1>11, <1>12, <1>13, <1>14 DEF IInv

-----------------------------------------------------------------------------
(* The theorems.                                                           *)

\* Every step of the 68k, the emulator's thread and the handlers' threads
\* keeps the invariant.
LEMMA NextInv == IInv /\ [Next]_vars => IInv'
<1> SUFFICES ASSUME IInv, [Next]_vars PROVE IInv'
  OBVIOUS
<1>1. ASSUME NEW t \in Tasks, TaskSwitch(t) PROVE IInv'
  BY <1>1, TaskSwitchInv
<1>2. ASSUME FuncReturns PROVE IInv'
  BY <1>2, FuncReturnsInv
<1>3. ASSUME EmuStep PROVE IInv'
  <2>1. CASE EmuResumes
    BY <2>1, EmuResumesInv
  <2>2. CASE CallTrap
    BY <2>2, CallTrapInv
  <2>3. CASE ReturnLock
    BY <2>3, ReturnLockInv
  <2>4. CASE ReturnTrap
    BY <2>4, ReturnTrapInv
  <2>5. CASE ExitTrap
    BY <2>5, ExitTrapInv
  <2> QED
    BY <1>3, <2>1, <2>2, <2>3, <2>4, <2>5 DEF EmuStep
<1>4. ASSUME NEW c \in Contexts, InvokeTrap(c) PROVE IInv'
  BY <1>4, InvokeTrapInv
<1>5. ASSUME NEW c \in Contexts, ThreadStep(c) PROVE IInv'
  <2>1. CASE ThreadStarts(c)
    BY <2>1, ThreadStartsInv
  <2>2. CASE CallLock(c) \/ ExitLock(c)
    BY <2>2, CallLockInv
  <2>3. CASE CallSwitch(c) \/ ExitSwitch(c)
    BY <2>3, SwitchInv
  <2>4. CASE CallWoken(c)
    BY <2>4, CallWokenInv
  <2>5. CASE CallUnlock(c)
    BY <2>5, CallUnlockInv
  <2> QED
    BY <1>5, <2>1, <2>2, <2>3, <2>4, <2>5 DEF ThreadStep
<1>6. CASE UNCHANGED vars
  <2> USE <1>6 DEF vars, cpuVars, emuVars, ctxVars
  <2>1. AtHelper' = AtHelper /\ InControl' = InControl
    BY DEF AtHelper, InControl
  <2>2. Typed'
    BY DEF IInv, Typed
  <2>3. CpuInv'
    BY <2>1 DEF IInv, CpuInv, Own
  <2>4. StackInv'
    BY <2>1 DEF IInv, StackInv, Waits
  <2>5. MutexInv'
    BY <2>1 DEF IInv, MutexInv, Critical
  <2>6. ASSUME NEW c \in Contexts
        PROVE  FreeInv(c)' /\ CalledInv(c)' /\ ControlInv(c)' /\ ValueInv(c)'
    BY <2>1 DEF IInv, FreeInv, CalledInv, ControlInv, ValueInv, Own, Left,
       Handling
  <2> QED
    BY <2>1, <2>2, <2>3, <2>4, <2>5, <2>6 DEF IInv
<1> QED
  BY <1>1, <1>2, <1>3, <1>4, <1>5, <1>6 DEF Next

\* The 68k's stacks, the semaphores and the mutex say at every moment which
\* of the emulator and the handlers' threads has control: the inductive
\* invariant.
THEOREM Invariance == Spec => []IInv
BY InitInv, NextInv, PTL DEF Spec

\* The emulator and the handlers' threads never run together, and trap_mutex
\* is taken and released in turn, whatever the nesting of traps and calls.
THEOREM TrapsSafe == Spec => []Inv
<1>1. ASSUME IInv PROVE Inv
  <2> USE <1>1
  <2>1. Typed /\ MutexInv /\ CpuInv
    BY DEF IInv
  <2>2. TypeOK
    BY <2>1, TrapsAssumption DEF Typed, TypeOK
  <2>3. OneAtATime
    <3>1. ASSUME NEW c \in Contexts, Handling(c)
          PROVE  emu = "wait" /\ InControl = c
      BY <3>1, ThreadInControl DEF Handling
    <3> QED
      BY <3>1 DEF OneAtATime
  <2>4. MutexBalanced
    <3>1. ASSUME NEW c \in Contexts,
                 tpc[c] \in {"calling", "exiting", "woken"}
                   \/ (tpc[c] = "called" /\ toTrap[c] > 0)
          PROVE  emu # "returning" /\ ~AtHelper /\ InControl = c
      BY <3>1, ThreadInControl
    <3>2. emu = "returning" => ~AtHelper
      BY <2>1 DEF CpuInv, AtHelper
    <3> QED
      BY <2>1, <3>1, <3>2 DEF MutexBalanced, MutexInv, Critical, AtHelper
  <2> QED
    BY <2>2, <2>3, <2>4 DEF Inv
<1> QED
  BY <1>1, Invariance, PTL

\* While the 68k runs, regs is the state of the task Exec believes is
\* running, though handlers restore and overwrite it in between.
THEOREM RegsAreOfThisTask == Spec => []RegsOfThisTask
<1>1. IInv => RegsOfThisTask
  BY DEF IInv, CpuInv, RegsOfThisTask
<1> QED
  BY <1>1, Invariance, PTL

\* trap_Call68k returns to every handler the value of the function that
\* handler called, however calls nest and tasks interleave.
THEOREM ValuesAreRight == Spec => []RightValue
<1>1. IInv => RightValue
  BY DEF IInv, ValueInv, RightValue
<1> QED
  BY <1>1, Invariance, PTL
=============================================================================
