---------------------------- MODULE Sockets_proofs ----------------------------
(***************************************************************************)
(* Theorems about the calls of bsdsocket.library (Sockets), however many   *)
(* of them and of signals are outstanding and whichever break mask is set. *)
(***************************************************************************)
EXTENDS Sockets, TLAPS

-----------------------------------------------------------------------------
(* The invariant: where the task waits for its thread, exactly one of the   *)
(* following is on its way: the post, the call, or the signal.              *)

Working == {"try", "connected", "block", "deaf", "select", "host"}

SocketsTypeOK ==
    /\ pc \in {"closed", "idle", "sleep", "wait", "select", "abort", "clear", "closing"}
    /\ call \in Calls \cup {Kill} /\ wssigs \subseteq {"user"}
    /\ sigs \subseteq {"sock", "user", "break"}
    /\ action \in Calls \cup {Kill} /\ sem \in Nat /\ aborted \in BOOLEAN
    /\ tpc \in Working \cup {"wait", "signal", "gone"}
    /\ doing \in Calls \cup {Kill} /\ sent \in Nat
    /\ served \in Seq(Calls \cup {Kill}) /\ interrupted \in BOOLEAN

NoSignal == sent = 0 /\ "sock" \notin sigs

Quiet == tpc = "wait" /\ sem = 0 /\ NoSignal

Asked == tpc = "wait" /\ sem = 1 /\ NoSignal /\ action = call /\ served = <<>>

AtWork == tpc \in Working /\ sem = 0 /\ NoSignal /\ doing = call /\ served = <<>>

Answered ==
    /\ sem = 0
    /\ \/ tpc = "signal" /\ NoSignal
       \/ tpc = "wait" /\ sent = 1 /\ "sock" \notin sigs
       \/ tpc = "wait" /\ sent = 0 /\ "sock" \in sigs

CallInv ==
    ~interrupted =>
        /\ pc \in {"idle", "sleep"} => Quiet /\ ~aborted
        /\ pc = "clear" => Quiet
        /\ pc \in {"wait", "select", "abort"} =>
              call \in Calls /\ (Asked \/ AtWork \/ Answered)
        /\ pc \in {"wait", "select"} =>
              ~aborted /\ (Answered => served = <<call>>)

-----------------------------------------------------------------------------
(* The types.                                                               *)

(* The emulator starts with no socketbase: every variable has its type.     *)
LEMMA InitTypeOK == Init => SocketsTypeOK
<1> SUFFICES ASSUME Init PROVE SocketsTypeOK
  OBVIOUS
<1>1. wssigs \subseteq {"user"} /\ sigs \subseteq {"sock", "user", "break"}
  BY DEF Init
<1>2. served \in Seq(Calls \cup {Kill})
  BY DEF Init
<1>3. {call, action, doing} \subseteq Calls \cup {Kill} /\ {sem, sent} \subseteq Nat
  BY DEF Init
<1>4. aborted \in BOOLEAN /\ interrupted \in BOOLEAN
  BY DEF Init
<1> QED
  BY <1>1, <1>2, <1>3, <1>4 DEF Init, SocketsTypeOK

(* Every step of the task, the thread and the peers keeps the types.        *)
LEMMA NextTypeOK == SocketsTypeOK /\ [Next]_vars => SocketsTypeOK'
<1> SUFFICES ASSUME SocketsTypeOK, [Next]_vars PROVE SocketsTypeOK'
  OBVIOUS
<1> USE SocketsAssumption DEF SocketsTypeOK, Working, Connect, Send, Recv, GetHost, Select,
    Accept, Calls, Kill, taskVars, sbVars, threadVars, ghostVars
<1>1. CASE alloc_socketbase
  <2>1. interrupted' \in BOOLEAN
    <3>1. interrupted' = (sent # 0)
      BY <1>1, Zenon DEF alloc_socketbase
    <3> QED
      BY <3>1, Zenon
  <2>2. /\ pc' = "idle" /\ call' = Kill /\ wssigs' = {} /\ sigs' = sigs \ {"sock"}
        /\ action' = Kill /\ sem' = 0 /\ aborted' = FALSE
        /\ tpc' = "wait" /\ doing' = Kill /\ sent' = sent /\ served' = <<>>
    BY <1>1, Zenon DEF alloc_socketbase
  <2>3. pc' \in {"idle"} /\ call' \in Calls \cup {Kill} /\ wssigs' \subseteq {"user"}
    BY <2>2
  <2>4. sigs' \subseteq {"sock", "user", "break"}
    BY <2>2
  <2>5. action' \in Calls \cup {Kill} /\ sem' \in Nat /\ aborted' \in BOOLEAN
    BY <2>2
  <2>6. doing' \in Calls \cup {Kill} /\ sent' \in Nat
    BY <2>2
  <2>7. served' \in Seq(Calls \cup {Kill})
    BY <2>2
  <2> QED
    BY <2>1, <2>2, <2>3, <2>4, <2>5, <2>6, <2>7
<1>2. CASE free_socketbase
  BY <1>2 DEF free_socketbase, host_sbcleanup
<1>3. CASE bsdlib_reset
  BY <1>3 DEF bsdlib_reset, host_sbcleanup
<1>4. CASE \E s \in {"user", "break"} : Signal(s)
  BY <1>4 DEF Signal
<1>5. CASE \E s \in {"user", "break"} : ClearSignal(s)
  BY <1>5 DEF ClearSignal
<1>6. CASE \E a \in Calls \ {Select} : HostCall(a)
  BY <1>6 DEF HostCall, Begin
<1>7. CASE WaitSelectPreempted
  BY <1>7 DEF WaitSelectPreempted
<1>8. CASE WaitSelectNone
  BY <1>8 DEF WaitSelectNone
<1>9. CASE WaitSelectWakes
  BY <1>9 DEF WaitSelectWakes
<1>10. CASE \E ws \in SUBSET {"user"} : host_WaitSelect(ws)
  BY <1>10 DEF host_WaitSelect, Begin
<1>11. CASE HostCallWakes
  BY <1>11 DEF HostCallWakes, waitsig, Got, sockabort
<1>12. CASE WaitSelectBroken
  BY <1>12 DEF WaitSelectBroken, Got, sockabort
<1>13. CASE WaitSelectAborts
  BY <1>13 DEF WaitSelectAborts, waitsig, Got, sockabort
<1>14. CASE WaitSelectEnds
  BY <1>14 DEF WaitSelectEnds, clearsockabort
<1>15. CASE uae_wait_thread
  BY <1>15 DEF uae_wait_thread
<1>16. CASE Deliver
  BY <1>16 DEF Deliver
<1>17. CASE ThreadTakes
  BY <1>17 DEF ThreadTakes
<1>18. CASE Tries
  BY <1>18 DEF Tries, Done, Blocks
<1>19. CASE Connects
  BY <1>19 DEF Connects
<1>20. CASE ConnectHack
  BY <1>20 DEF ConnectHack, Done
<1>21. CASE SelectAborted
  BY <1>21 DEF SelectAborted, clearsockabort
<1>22. CASE GetHostReturns
  BY <1>22 DEF GetHostReturns, Done
<1>23. CASE SETSIGNAL
  BY <1>23 DEF SETSIGNAL
<1>24. CASE Ready
  BY <1>24 DEF Ready, Done
<1>25. CASE SelectClosed
  BY <1>25 DEF SelectClosed
<1>26. CASE UNCHANGED vars
  BY <1>26 DEF vars
<1>27. CASE SelectFails
  BY <1>27 DEF SelectFails, Done
<1> QED
  BY <1>1, <1>2, <1>3, <1>4, <1>5, <1>6, <1>7, <1>8, <1>9, <1>10, <1>11, <1>12, <1>13,
    <1>14, <1>15, <1>16, <1>17, <1>18, <1>19, <1>20, <1>21, <1>22, <1>23, <1>24, <1>25,
    <1>26, <1>27 DEF Next, TaskStep, ThreadStep

(* Each variable of the task, its socketbase and its thread has its type    *)
(* (bsdsocket.h, struct socketbase), however many posts and signals wait.   *)
THEOREM TypeCorrect == Spec => []SocketsTypeOK
BY InitTypeOK, NextTypeOK, PTL DEF Spec

-----------------------------------------------------------------------------
(* The calls.                                                               *)

(* The first call made since the task asked is all that has been served.    *)
LEMMA FirstServed ==
  ASSUME served = <<>>, NEW x
  PROVE  (IF Len(served) < 2 THEN Append(served, x) ELSE served) = <<x>>
OBVIOUS

(* Every step keeps one of post, call and signal on its way (waitsig,       *)
(* host_WaitSelect, bsdlib_threadfunc and the aborts of bsdsocket.c).        *)
LEMMA NextCallInv == SocketsTypeOK /\ CallInv /\ [Next]_vars => CallInv'
<1> SUFFICES ASSUME SocketsTypeOK, CallInv, [Next]_vars PROVE CallInv'
  OBVIOUS
<1> USE SocketsAssumption DEF SocketsTypeOK, Working, CallInv, Quiet, NoSignal, Asked,
    AtWork, Answered, Connect, Send, Recv, GetHost, Select, Accept, Calls, Kill, taskVars,
    sbVars, threadVars, ghostVars
<1>1. CASE alloc_socketbase
  <2>1. interrupted' <=> sent # 0
    BY <1>1, Zenon DEF alloc_socketbase
  <2>2. /\ pc' = "idle" /\ sigs' = sigs \ {"sock"} /\ sem' = 0 /\ aborted' = FALSE
        /\ tpc' = "wait" /\ sent' = sent
    BY <1>1, Zenon DEF alloc_socketbase
  <2> QED
    BY <2>1, <2>2
<1>2. CASE free_socketbase
  BY <1>2 DEF free_socketbase, host_sbcleanup
<1>3. CASE bsdlib_reset
  BY <1>3 DEF bsdlib_reset, host_sbcleanup
<1>4. CASE \E s \in {"user", "break"} : Signal(s)
  BY <1>4 DEF Signal
<1>5. CASE \E s \in {"user", "break"} : ClearSignal(s)
  BY <1>5 DEF ClearSignal
<1>6. CASE \E a \in Calls \ {Select} : HostCall(a)
  BY <1>6 DEF HostCall, Begin
<1>7. CASE WaitSelectPreempted
  BY <1>7 DEF WaitSelectPreempted
<1>8. CASE WaitSelectNone
  BY <1>8 DEF WaitSelectNone
<1>9. CASE WaitSelectWakes
  BY <1>9 DEF WaitSelectWakes
<1>10. CASE \E ws \in SUBSET {"user"} : host_WaitSelect(ws)
  BY <1>10 DEF host_WaitSelect, Begin
<1>11. CASE HostCallWakes
  BY <1>11 DEF HostCallWakes, waitsig, Got, sockabort
<1>12. CASE WaitSelectBroken
  BY <1>12 DEF WaitSelectBroken, Got, sockabort
<1>13. CASE WaitSelectAborts
  BY <1>13 DEF WaitSelectAborts, waitsig, Got, sockabort
<1>14. CASE WaitSelectEnds
  BY <1>14 DEF WaitSelectEnds, clearsockabort
<1>15. CASE uae_wait_thread
  BY <1>15 DEF uae_wait_thread
<1>16. CASE Deliver
  BY <1>16 DEF Deliver
<1>17. CASE ThreadTakes
  BY <1>17 DEF ThreadTakes
<1>18. CASE Tries
  <2>1. CASE Done /\ AtWork /\ ~interrupted
    <3>1. served' = <<doing>>
      BY <2>1, FirstServed DEF Done
    <3> QED
      BY <1>18, <2>1, <3>1 DEF Tries, Done
  <2>2. CASE Done /\ ~AtWork /\ ~interrupted
    BY <1>18, <2>2 DEF Tries, Done
  <2>3. CASE Blocks
    BY <1>18, <2>3 DEF Tries, Blocks
  <2>4. CASE Done /\ interrupted
    BY <1>18, <2>4 DEF Tries, Done
  <2> QED
    BY <1>18, <2>1, <2>2, <2>3, <2>4 DEF Tries
<1>19. CASE Connects
  BY <1>19 DEF Connects
<1>20. CASE ConnectHack
  BY <1>20, FirstServed DEF ConnectHack, Done
<1>21. CASE SelectAborted
  BY <1>21 DEF SelectAborted, clearsockabort
<1>22. CASE GetHostReturns
  BY <1>22, FirstServed DEF GetHostReturns, Done
<1>23. CASE SETSIGNAL
  BY <1>23 DEF SETSIGNAL
<1>24. CASE Ready
  <2>1. CASE Done /\ AtWork /\ ~interrupted
    <3>1. served' = <<doing>>
      BY <2>1, FirstServed DEF Done
    <3> QED
      BY <1>24, <2>1, <3>1 DEF Ready, Done
  <2>2. CASE Done /\ ~AtWork /\ ~interrupted /\ tpc = "select"
    BY <1>24, <2>2 DEF Ready, Done
  <2>3. CASE tpc = "block" /\ tpc' = "try" /\ UNCHANGED ghostVars
    BY <1>24, <2>3 DEF Ready
  <2>4. CASE Done /\ interrupted
    BY <1>24, <2>4 DEF Ready, Done
  <2> QED
    BY <1>24, <2>1, <2>2, <2>3, <2>4 DEF Ready
<1>25. CASE SelectClosed
  BY <1>25 DEF SelectClosed
<1>26. CASE UNCHANGED vars
  BY <1>26 DEF vars
<1>27. CASE SelectFails
  BY <1>27, FirstServed DEF SelectFails, Done
<1> QED
  BY <1>1, <1>2, <1>3, <1>4, <1>5, <1>6, <1>7, <1>8, <1>9, <1>10, <1>11, <1>12, <1>13,
    <1>14, <1>15, <1>16, <1>17, <1>18, <1>19, <1>20, <1>21, <1>22, <1>23, <1>24, <1>25,
    <1>26, <1>27 DEF Next, TaskStep, ThreadStep

(* Where the task returns what its thread left in sb, the thread has done   *)
(* this call and nothing else, or a call was given up before.               *)
LEMMA NextOwnResult ==
  SocketsTypeOK /\ CallInv /\ [Next]_vars
    => [ByThread => interrupted \/ served = <<call>>]_vars
<1> SUFFICES ASSUME SocketsTypeOK, CallInv, Next, ByThread, ~interrupted
             PROVE  served = <<call>>
  BY DEF vars
<1>1. pc \in {"wait", "select"} /\ pc' \in {"idle", "clear"}
  BY DEF ByThread
<1>2. HostCallWakes \/ WaitSelectBroken
  BY <1>1 DEF Next, TaskStep, ThreadStep, taskVars, alloc_socketbase, free_socketbase,
    bsdlib_reset, host_sbcleanup, Signal, ClearSignal, HostCall, Begin,
    WaitSelectPreempted, WaitSelectNone, WaitSelectWakes, host_WaitSelect,
    WaitSelectAborts, waitsig, WaitSelectEnds, uae_wait_thread, Deliver, ThreadTakes,
    Tries, Connects, ConnectHack, Ready, SelectAborted, SelectFails, SelectClosed, GetHostReturns, SETSIGNAL
<1>3. "sock" \in sigs
  <2>1. CASE HostCallWakes
    BY <2>1 DEF HostCallWakes, waitsig, Got, ByThread
  <2>2. CASE WaitSelectBroken
    BY <2>2 DEF WaitSelectBroken, Got, ByThread
  <2> QED
    BY <1>2, <2>1, <2>2
<1>4. Answered
  BY <1>1, <1>3 DEF CallInv, Asked, AtWork, NoSignal
<1> QED
  BY <1>1, <1>4 DEF CallInv

(* A call that the thread has ended returns its own result, once made: no   *)
(* post, signal, abort or action of an earlier call of the base is left     *)
(* over for it (bsdsocket-posix-new.c, host_connect to host_WaitSelect).    *)
THEOREM OwnResultHolds == Spec => OwnResult
<1>1. Init => SocketsTypeOK /\ CallInv
  BY InitTypeOK DEF Init, CallInv
<1>2. SocketsTypeOK /\ CallInv /\ [Next]_vars => SocketsTypeOK' /\ CallInv'
  BY NextTypeOK, NextCallInv
<1> QED
  BY <1>1, <1>2, NextOwnResult, PTL DEF Spec, OwnResult

=============================================================================
