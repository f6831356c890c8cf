-------------------------------- MODULE Sockets --------------------------------
(***************************************************************************)
(* bsdsocket.library: a task that has opened it and the thread of its      *)
(* socketbase sb (bsdsocket.c, bsdsocket-posix-new.c).  A call leaves its  *)
(* arguments in sb, posts sb->sem and waits, in the emulated Amiga, for    *)
(* the signal the thread sends when it is done, or for a break, which      *)
(* wakes the thread through the pipe sb->sockabort.  Each socketbase has   *)
(* a thread of its own and shares nothing with the others.                 *)
(***************************************************************************)
EXTENDS Integers, Sequences

CONSTANTS
    BreakMask,   \* sb->eintrsigs: {"break"}, or {} when the program has cleared it
    MaxSem,      \* calls the thread has not begun (a bound)
    MaxSent      \* signals sent and not yet delivered (a bound)

ASSUME SocketsAssumption ==
    BreakMask \subseteq {"break"} /\ {MaxSem, MaxSent} \subseteq Nat \ {0}

VARIABLES
    pc, call, wssigs,      \* the task in the library, its call, WaitSelect's sigmp
    sigs,                  \* signals of the task that are set
    action, sem, aborted,  \* sb->action, sb->sem, something is in sb->sockabort
    tpc, doing,            \* the thread, and the action it took up
    sent,                  \* uae_Signals on their way through native2amiga
    served,                \* what the thread has done since the call began
    interrupted            \* a call was given up while the thread was at it

taskVars == <<pc, call, wssigs, sigs>>
sbVars == <<action, sem, aborted>>
threadVars == <<tpc, doing, sent>>
ghostVars == <<served, interrupted>>
vars == <<taskVars, sbVars, threadVars, ghostVars>>

Connect == 1  Send == 2  Recv == 3  GetHost == 4  Select == 5  Accept == 6
Calls == Connect..Accept       \* 7, gethostbyaddr, is like 4
Kill == 0

Init ==
    /\ pc = "closed" /\ call = Kill /\ wssigs = {} /\ sigs = {}
    /\ action = Kill /\ sem = 0 /\ aborted = FALSE
    /\ tpc = "gone" /\ doing = Kill /\ sent = 0
    /\ served = <<>> /\ interrupted = FALSE

-----------------------------------------------------------------------------
(* The task.  Its Wait lets the rest of the Amiga run.                      *)

(* a new socketbase; AllocSignal clears the signal, but one sent by the     *)
(* thread of an earlier base may still come                                 *)
alloc_socketbase ==
    /\ pc = "closed" /\ pc' = "idle" /\ call' = Kill /\ wssigs' = {}
    /\ sigs' = sigs \ {"sock"}
    /\ action' = Kill /\ sem' = 0 /\ aborted' = FALSE
    /\ tpc' = "wait" /\ doing' = Kill
    /\ served' = <<>> /\ interrupted' = (sent # 0)
    /\ UNCHANGED sent

Signal(s) ==
    /\ pc \notin {"closed", "closing"} /\ sigs' = sigs \cup {s}
    /\ UNCHANGED <<pc, call, wssigs, sbVars, threadVars, ghostVars>>

(* the program looks at its signals and clears one                          *)
ClearSignal(s) ==
    /\ pc = "idle" /\ s \in sigs /\ sigs' = sigs \ {s}
    /\ UNCHANGED <<pc, call, wssigs, sbVars, threadVars, ghostVars>>

Begin(a, at) ==
    /\ pc = "idle" /\ pc' = at
    /\ sem < MaxSem /\ sem + sent < MaxSent
    /\ call' = a /\ action' = a /\ sem' = sem + 1 /\ served' = <<>>
    /\ UNCHANGED <<sigs, aborted, threadVars, interrupted>>

(* host_connect, host_sendto, host_recvfrom, host_accept and                *)
(* host_gethostbynameaddr                                                   *)
HostCall(a) == Begin(a, "wait") /\ UNCHANGED wssigs

(* WaitSelect returns at once when a signal it may wait for is set          *)
WaitSelectPreempted ==
    /\ pc = "idle" /\ "user" \in sigs /\ sigs' = sigs \ {"user"}
    /\ UNCHANGED <<pc, call, wssigs, sbVars, threadVars, ghostVars>>

(* without sockets it only waits                                            *)
WaitSelectNone ==
    /\ pc = "idle" /\ "user" \notin sigs /\ pc' = "sleep"
    /\ UNCHANGED <<call, wssigs, sigs, sbVars, threadVars, ghostVars>>

WaitSelectWakes ==
    /\ pc = "sleep" /\ "user" \in sigs /\ pc' = "idle" /\ sigs' = sigs \ {"user"}
    /\ UNCHANGED <<call, wssigs, sbVars, threadVars, ghostVars>>

host_WaitSelect(ws) ==
    /\ ws \cap sigs = {}
    /\ Begin(Select, "select") /\ wssigs' = ws

sockabort == aborted' = TRUE
clearsockabort == aborted' = FALSE

(* Wait: what has come of the signals in the mask                           *)
Got(mask) == sigs \cap ({"sock"} \cup mask)

(* waitsig: a break ends the call whatever the thread is doing; it is set   *)
(* again for the program                                                    *)
waitsig(then) ==
    /\ Got(BreakMask) # {} /\ pc' = then
    /\ sigs' = sigs \ {"sock"}
    /\ IF Got(BreakMask) \cap BreakMask # {}
       THEN sockabort /\ interrupted' = TRUE
       ELSE UNCHANGED <<aborted, interrupted>>
    /\ UNCHANGED <<call, wssigs, action, sem, threadVars, served>>

HostCallWakes == pc = "wait" /\ waitsig("idle")

(* WaitSelect is woken by a signal before the thread: it wakes the thread   *)
(* and waits for it                                                         *)
Bad_WaitSelectBroken ==         \* nobody wakes the thread
    /\ pc = "select" /\ LET got == Got(BreakMask \cup wssigs) IN
          /\ got # {} /\ sigs' = sigs \ got
          /\ pc' = IF "sock" \in got THEN "clear" ELSE "abort"
    /\ UNCHANGED <<call, wssigs, sbVars, threadVars, ghostVars>>
WaitSelectBroken ==
    /\ pc = "select" /\ LET got == Got(BreakMask \cup wssigs) IN
          /\ got # {} /\ sigs' = sigs \ got
          /\ IF "sock" \in got THEN pc' = "clear" /\ UNCHANGED aborted
             ELSE pc' = "abort" /\ sockabort
    /\ UNCHANGED <<call, wssigs, action, sem, threadVars, ghostVars>>

WaitSelectAborts == pc = "abort" /\ waitsig("clear")

Bad_WaitSelectEnds ==           \* the thread may have been done before the abort
    /\ pc = "clear" /\ pc' = "idle" /\ UNCHANGED aborted
    /\ UNCHANGED <<call, wssigs, sigs, action, sem, threadVars, ghostVars>>
WaitSelectEnds ==
    /\ pc = "clear" /\ pc' = "idle" /\ clearsockabort
    /\ UNCHANGED <<call, wssigs, sigs, action, sem, threadVars, ghostVars>>

(* All file descriptors are closed and the thread is told to end; then the  *)
(* emulator's thread waits for it.                                          *)
Bad_host_sbcleanup ==           \* the thread is not woken
    /\ pc' = "closing" /\ action' = Kill
    /\ UNCHANGED <<call, wssigs, sem, aborted, threadVars, ghostVars>>
host_sbcleanup ==
    /\ pc' = "closing" /\ action' = Kill /\ sem' = sem + 1
    /\ UNCHANGED <<call, wssigs, aborted, threadVars, ghostVars>>

free_socketbase == pc = "idle" /\ UNCHANGED sigs /\ host_sbcleanup

(* the machine is reset, in whatever call the task is                       *)
bsdlib_reset == pc \notin {"closed", "closing"} /\ sigs' = {} /\ host_sbcleanup

uae_wait_thread ==
    /\ pc = "closing" /\ tpc = "gone" /\ pc' = "closed"
    /\ UNCHANGED <<call, wssigs, sigs, sbVars, threadVars, ghostVars>>

Deliver ==                      \* the interrupt of native2amiga
    /\ sent > 0 /\ pc # "closing"
    /\ sent' = sent - 1 /\ sigs' = sigs \cup {"sock"}
    /\ UNCHANGED <<pc, call, wssigs, sbVars, tpc, doing, ghostVars>>

TaskStep ==
    HostCallWakes \/ WaitSelectBroken \/ WaitSelectAborts \/ WaitSelectEnds
    \/ uae_wait_thread \/ Deliver

-----------------------------------------------------------------------------
(* The thread of the base.                                                  *)

ThreadTakes ==
    /\ tpc = "wait" /\ sem > 0 /\ sem' = sem - 1
    /\ doing' = action
    /\ tpc' = CASE action = Kill -> "gone"
                [] action = GetHost -> "host"
                [] action = Select -> "select"
                [] OTHER -> "try"
    /\ UNCHANGED <<taskVars, action, aborted, sent, ghostVars>>

(* The call is made: its result is in sb, and the task is to be told.       *)
Done ==
    /\ tpc' = "signal"
    /\ served' = IF Len(served) < 2 THEN Append(served, doing) ELSE served
    /\ UNCHANGED interrupted

(* The socket would block, unless it has been closed: select, on the        *)
(* socket only if sb->action still is a call of this kind.                  *)
Blocks ==
    /\ pc # "closing"
    /\ tpc' = IF action \in {Connect, Send, Recv, GetHost, Accept} THEN "block" ELSE "deaf"
    /\ UNCHANGED ghostVars

(* bsdthr_Send_2, bsdthr_Recv_2 and bsdthr_Accept_2, and Connect_2 when it  *)
(* has connected and asks how that went                                     *)
Tries ==
    /\ tpc = "try" /\ ~(doing = Connect /\ action = Connect)
    /\ Done \/ (doing # Connect /\ Blocks)
    /\ UNCHANGED <<taskVars, sbVars, doing, sent>>

Connects ==
    /\ tpc = "try" /\ doing = Connect /\ action = Connect /\ tpc' = "connected"
    /\ UNCHANGED <<taskVars, sbVars, doing, sent, ghostVars>>

(* "I need to set the action to something other than 1"                     *)
ConnectHack ==
    /\ tpc = "connected" /\ action' = Send
    /\ \/ Done
       \/ /\ pc # "closing" /\ tpc' = "block" /\ UNCHANGED ghostVars
    /\ UNCHANGED <<taskVars, sem, aborted, doing, sent>>

(* The peer: a socket is ready, or WaitSelect's time is out.                *)
Ready ==
    /\ ~aborted /\ pc # "closing"
    /\ \/ tpc = "block" /\ tpc' = "try" /\ UNCHANGED ghostVars
       \/ tpc = "select" /\ Done
    /\ UNCHANGED <<taskVars, sbVars, doing, sent>>

(* a byte in sockabort: EINTR                                               *)
SelectAborted ==
    /\ tpc \in {"block", "deaf", "select"} /\ aborted /\ pc # "closing"
    /\ tpc' = "signal" /\ clearsockabort
    /\ UNCHANGED <<taskVars, action, sem, doing, sent, ghostVars>>

(* Select fails, on a signal of the host or because the program, whose call *)
(* was broken off, has closed the socket: the call is over, and a byte in   *)
(* sockabort stays.                                                         *)
SelectFails ==
    /\ tpc \in {"block", "deaf"} /\ pc # "closing" /\ Done
    /\ UNCHANGED <<taskVars, sbVars, doing, sent>>

(* What select does when what it watches is closed under it is unspecified: *)
(* it may return now, or never.                                             *)
SelectClosed ==
    /\ tpc \in {"block", "deaf", "select"} /\ pc = "closing"
    /\ tpc' = "signal"
    /\ UNCHANGED <<taskVars, sbVars, doing, sent, ghostVars>>

GetHostReturns ==
    /\ tpc = "host" /\ Done
    /\ UNCHANGED <<taskVars, sbVars, doing, sent>>

SETSIGNAL ==
    /\ tpc = "signal" /\ tpc' = "wait" /\ sent' = sent + 1
    /\ UNCHANGED <<taskVars, sbVars, doing, ghostVars>>

ThreadStep ==
    ThreadTakes \/ Tries \/ Connects \/ ConnectHack \/ SelectAborted
    \/ GetHostReturns \/ SETSIGNAL

Next ==
    \/ alloc_socketbase \/ free_socketbase \/ bsdlib_reset
    \/ \E s \in {"user", "break"} : Signal(s) \/ ClearSignal(s)
    \/ \E a \in Calls \ {Select} : HostCall(a)
    \/ WaitSelectPreempted \/ WaitSelectNone \/ WaitSelectWakes
    \/ \E ws \in SUBSET {"user"} : host_WaitSelect(ws)
    \/ TaskStep \/ ThreadStep \/ Ready \/ SelectFails \/ SelectClosed

Spec == Init /\ [][Next]_vars

(* Exec schedules the task, the host its threads, and a resolver answers in *)
(* the end.  Nothing is assumed of peers, of WaitSelect's timeout, of       *)
(* failures, or of what comes back from a select whose descriptors were     *)
(* closed.                                                                  *)
FairSpec == Spec /\ WF_vars(TaskStep) /\ WF_vars(ThreadStep)

-----------------------------------------------------------------------------
(* Properties.                                                              *)

(* A call that returns what the thread has left in sb returns its own       *)
(* result, and was made once: no signal, abort or action of an earlier call *)
(* is left over.  A break that comes in WaitSelect's first Wait, or a       *)
(* signal it waits for, does no harm; one that ends waitsig does, since it  *)
(* does not wait for the thread, and so does a signal of an earlier base.   *)
ByThread == /\ pc \in {"wait", "select"} /\ pc' \in {"idle", "clear"}
            /\ sigs \cap (BreakMask \cup (IF pc = "select" THEN wssigs ELSE {})) = {}
OwnResult == [][ByThread => interrupted \/ served = <<call>>]_vars

(* A break ends a call, and a break or a signal of its own ends WaitSelect, *)
(* though the peer never answers and whatever calls were given up before.   *)
SignalHeard ==
    (\/ pc = "wait" /\ sigs \cap BreakMask # {}
     \/ pc = "select" /\ sigs \cap (BreakMask \cup wssigs) # {})
    ~> pc \in {"idle", "closing"}

(* "We need to join with the socket thread": closing the library or a reset *)
(* goes on, unless the thread is in a select whose descriptors were closed, *)
(* or was in connect and has put 2 in the place of the action 0 that ends   *)
(* it.                                                                      *)
Joined == (pc = "closing") ~> (\/ pc = "closed"
                               \/ tpc \in {"block", "deaf", "select"}
                               \/ action # Kill)
=============================================================================
