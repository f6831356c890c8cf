--------------------------- MODULE FilesysPackets ---------------------------
(***************************************************************************)
(* DOS packets of the virtual file systems, in a build with                *)
(* UAE_FILESYS_THREADS.  Each unit has an Amiga task (filesys.asm) that    *)
(* receives packets at its message port, a host thread (filesys_thread)    *)
(* that carries them out, a pipe in each direction, and three counters of  *)
(* completed commands that the EXTER interrupt and the task use to tell    *)
(* the task that something is ready (exter_int_helper, cases 0, 1, 2, 4).  *)
(*                                                                         *)
(* The pipes are the queues of module Fifo, which CommPipe implements.     *)
(* 68k code runs on the emulator's thread: a trap that blocks stops every  *)
(* task, and the interrupt server runs before any task.                    *)
(***************************************************************************)
EXTENDS Integers, Sequences, SequencesExt, FiniteSets

CONSTANTS NUnits,       \* mounted virtual units
          Packets,      \* addresses of DOS packets
          UnitOf,       \* the unit each packet is sent to
          MayFail,      \* packets that filesys_handler may refuse
          Limit,        \* outstanding started commands (20 in filesys.asm)
          UnitCap,      \* words unit_pipe holds (49)
          BackCap,      \* words back_pipe holds (49)
          CounterInit,  \* initial value of packet_counter_sem: 0, a mistake
          MaxResets,    \* bound: resets of the machine
          Dummy, Death  \* the dummy message; the null packet of a reset

Units == 1 .. NUnits

ASSUME FilesysAssumption ==
  /\ NUnits \in Nat \ {0} /\ Limit \in Nat \ {0}
  /\ UnitCap \in Nat \ {0} /\ BackCap \in Nat \ {0}
  /\ UnitOf \in [Packets -> Units] /\ MayFail \subseteq Packets
  /\ Dummy \notin Packets /\ Death \notin Packets
  /\ CounterInit \in {0, 1} /\ MaxResets \in Nat

VARIABLES
  \* the Amiga's tasks
  unsent, port,           \* packets not sent yet; the units' message ports
  task, msg,              \* where a unit's task is; the message it handles
  queue, status,          \* its list 4(a3); field 4 of each message
  d5, scan,               \* its count of started commands; place in the list
  replied,                \* the packets answered
  \* the emulator's thread
  emu, emuUnit, written,  \* the handler's place; words written so far
  server, unitNo,         \* exter_server; the static unit_no
  intRequested, intreq,
  sent, acked, complete,  \* cmds_sent, cmds_acked, cmds_complete
  \* the host threads and the pipes
  unitPipe, backPipe, thread, words, counterSem, active, goDown, syncSem,
  resets

taskVars == <<unsent, port, task, msg, queue, status, d5, scan, replied>>
emuVars == <<emu, emuUnit, written>>
intVars == <<server, unitNo, intRequested, intreq>>
countVars == <<sent, acked, complete>>
threadVars == <<unitPipe, backPipe, thread, words, counterSem, active,
                goDown, syncSem>>
vars == <<taskVars, emuVars, intVars, countVars, threadVars, resets>>

\* filesys_start_threads, once the Amiga has booted.
Init ==
  /\ unsent = Packets
  /\ port = [u \in Units |-> <<>>]
  /\ task = [u \in Units |-> "wait"] /\ msg = [u \in Units |-> Dummy]
  /\ queue = [u \in Units |-> <<>>] /\ status = [p \in Packets |-> 0]
  /\ d5 = [u \in Units |-> 0] /\ scan = [u \in Units |-> 0]
  /\ replied = {}
  /\ emu = "run" /\ emuUnit = 0 /\ written = 0
  /\ server = "idle" /\ unitNo = 1
  /\ intreq = 0
  /\ sent = [u \in Units |-> 0] /\ acked = [u \in Units |-> 0]
  /\ complete = [u \in Units |-> 0]
  /\ unitPipe = [u \in Units |-> <<>>] /\ backPipe = [u \in Units |-> 0]
  /\ thread = [u \in Units |-> "read"] /\ words = [u \in Units |-> <<>>]
  /\ counterSem = CounterInit
  /\ goDown = [u \in Units |-> 0] /\ syncSem = [u \in Units |-> 0]
  /\ intRequested = 0 /\ active = 0 /\ resets = 0

-----------------------------------------------------------------------------
(* The unit's task: FSML_loop                                              *)

Runs68k == emu = "run" /\ server = "idle"

Goto(u, from, to) == task[u] = from /\ task' = [task EXCEPT ![u] = to]

\* A program sends a packet.
Send(p) ==
  /\ Runs68k /\ p \in unsent
  /\ unsent' = unsent \ {p}
  /\ port' = [port EXCEPT ![UnitOf[p]] = Append(@, p)]
  /\ UNCHANGED <<task, msg, queue, status, d5, scan, replied, emuVars,
                 intVars, countVars, threadVars, resets>>

\* WaitPort, GetMsg
GetMsg(u) ==
  /\ Runs68k /\ port[u] # <<>>
  /\ Goto(u, "wait", IF Head(port[u]) = Dummy THEN "dummy" ELSE "dos")
  /\ msg' = [msg EXCEPT ![u] = Head(port[u])]
  /\ port' = [port EXCEPT ![u] = Tail(@)]
  /\ UNCHANGED <<unsent, queue, status, d5, scan, replied, emuVars, intVars,
                 countVars, threadVars, resets>>

\* Mutant: the count of completed commands is taken from cmds_sent.
BadRelease(u) ==
  /\ Runs68k /\ Goto(u, "dummy", "scan")
  /\ complete' = [complete EXCEPT ![u] = sent[u]]
  /\ backPipe' = [backPipe EXCEPT ![u] = 0]
  /\ scan' = [scan EXCEPT ![u] = 1]
  /\ UNCHANGED <<unsent, port, msg, queue, status, d5, replied, emuVars,
                 intVars, sent, acked, unitPipe, thread, words, counterSem,
                 active, goDown, syncSem, resets>>

\* Mutant: the locks are not taken back.
BadReleaseKeeps(u) ==
  /\ Runs68k /\ Goto(u, "dummy", "scan")
  /\ complete' = [complete EXCEPT ![u] = acked[u]]
  /\ scan' = [scan EXCEPT ![u] = 1]
  /\ UNCHANGED <<unsent, port, msg, queue, status, d5, replied, emuVars,
                 intVars, sent, acked, unitPipe, backPipe, thread, words, counterSem,
                 active, goDown, syncSem, resets>>

\* exter_int_helper (1): release the message lock, take back the locks.
Release(u) ==
  /\ Runs68k /\ Goto(u, "dummy", "scan")
  /\ complete' = [complete EXCEPT ![u] = acked[u]]
  /\ backPipe' = [backPipe EXCEPT ![u] = 0]
  /\ scan' = [scan EXCEPT ![u] = 1]
  /\ UNCHANGED <<unsent, port, msg, queue, status, d5, replied, emuVars,
                 intVars, sent, acked, unitPipe, thread, words, counterSem,
                 active, goDown, syncSem, resets>>

\* Mutant: the answered command stays in the list.
BadScanReplyLinked(u) ==
  /\ Runs68k /\ task[u] = "scan" /\ scan[u] <= Len(queue[u])
  /\ LET p == queue[u][scan[u]]
     IN /\ status[p] < 0
        /\ replied' = replied \cup {p}
  /\ d5' = [d5 EXCEPT ![u] = @ - 1]
  /\ UNCHANGED <<unsent, port, task, msg, queue, status, scan, emuVars, intVars,
                 countVars, threadVars, resets>>

\* Mutant: the status is not looked at.
BadScanReplyEarly(u) ==
  /\ Runs68k /\ task[u] = "scan" /\ scan[u] <= Len(queue[u])
  /\ LET p == queue[u][scan[u]]
     IN /\ queue' = [queue EXCEPT ![u] = RemoveAt(@, scan[u])]
        /\ replied' = replied \cup {p}
  /\ d5' = [d5 EXCEPT ![u] = @ - 1]
  /\ UNCHANGED <<unsent, port, task, msg, status, scan, emuVars, intVars,
                 countVars, threadVars, resets>>

\* Mutant: the count of started commands is not lowered.
BadScanReplyD5(u) ==
  /\ Runs68k /\ task[u] = "scan" /\ scan[u] <= Len(queue[u])
  /\ LET p == queue[u][scan[u]]
     IN /\ status[p] < 0
        /\ queue' = [queue EXCEPT ![u] = RemoveAt(@, scan[u])]
        /\ replied' = replied \cup {p}
  /\ UNCHANGED <<unsent, port, task, msg, status, d5, scan, emuVars, intVars,
                 countVars, threadVars, resets>>

\* FSML_check_old: reply and unlink a command that has completed ...
ScanReply(u) ==
  /\ Runs68k /\ task[u] = "scan" /\ scan[u] <= Len(queue[u])
  /\ LET p == queue[u][scan[u]]
     IN /\ status[p] < 0
        /\ queue' = [queue EXCEPT ![u] = RemoveAt(@, scan[u])]
        /\ replied' = replied \cup {p}
  /\ d5' = [d5 EXCEPT ![u] = @ - 1]
  /\ UNCHANGED <<unsent, port, task, msg, status, scan, emuVars, intVars,
                 countVars, threadVars, resets>>

\* ... and pass over one that has not.
ScanNext(u) ==
  /\ Runs68k /\ task[u] = "scan" /\ scan[u] <= Len(queue[u])
  /\ status[queue[u][scan[u]]] >= 0
  /\ scan' = [scan EXCEPT ![u] = @ + 1]
  /\ UNCHANGED <<unsent, port, task, msg, queue, status, d5, replied,
                 emuVars, intVars, countVars, threadVars, resets>>

ScanEnd(u) ==
  /\ Runs68k /\ scan[u] > Len(queue[u]) /\ Goto(u, "scan", "wait")
  /\ UNCHANGED <<unsent, port, msg, queue, status, d5, scan, replied,
                 emuVars, intVars, countVars, threadVars, resets>>

\* "Too many commands queued."
TooMany(u) ==
  /\ Runs68k /\ d5[u] >= Limit /\ Goto(u, "dos", "enqueue")
  /\ status' = [status EXCEPT ![msg[u]] = 1]
  /\ UNCHANGED <<unsent, port, msg, queue, d5, scan, replied, emuVars,
                 intVars, countVars, threadVars, resets>>

\* filesys_handler refuses the packet (a bad address, a unit that has not been
\* initialised): it is answered at once (FSML_Reply).
Refuse(u) ==
  /\ Runs68k /\ d5[u] < Limit /\ msg[u] \in MayFail /\ Goto(u, "dos", "wait")
  /\ replied' = replied \cup {msg[u]}
  /\ UNCHANGED <<unsent, port, msg, queue, status, d5, scan, emuVars,
                 intVars, countVars, threadVars, resets>>

\* filesys_handler: the trap begins.
DoCommand(u) ==
  /\ Runs68k /\ d5[u] < Limit /\ Goto(u, "dos", "trap")
  /\ emu' = "count" /\ emuUnit' = u /\ written' = 0
  /\ UNCHANGED <<unsent, port, msg, queue, status, d5, scan, replied,
                 intVars, countVars, threadVars, resets>>

\* wait (packet_counter_sem); active_fs_packets++; post.  "The packet wasn't
\* processed yet."
CountPacket ==
  /\ emu = "count" /\ counterSem > 0
  /\ active' = active + 1
  /\ status' = [status EXCEPT ![msg[emuUnit]] = 0]
  /\ emu' = "write"
  /\ UNCHANGED <<unsent, port, task, msg, queue, d5, scan, replied, emuUnit,
                 written, intVars, countVars, unitPipe, backPipe, thread,
                 words, counterSem, goDown, syncSem, resets>>

\* The packet, the message and the locks go down the pipe, a word at a time;
\* after the third the trap returns 1.
WritePacket ==
  /\ emu = "write" /\ Len(unitPipe[emuUnit]) < UnitCap
  /\ unitPipe' = [unitPipe EXCEPT ![emuUnit] = Append(@, msg[emuUnit])]
  /\ written' = written + 1
  /\ IF written < 2
     THEN UNCHANGED <<emu, task, d5>>
     ELSE /\ emu' = "run"
          /\ Goto(emuUnit, "trap", "enqueue")
          /\ d5' = [d5 EXCEPT ![emuUnit] = @ + 1]
  /\ UNCHANGED <<unsent, port, msg, queue, status, scan, replied, emuUnit,
                 intVars, countVars, backPipe, thread, words, counterSem,
                 active, goDown, syncSem, resets>>

\* FSML_Enqueue: at the head of the list.
Enqueue(u) ==
  /\ Runs68k /\ Goto(u, "enqueue", "wait")
  /\ queue' = [queue EXCEPT ![u] = <<msg[u]>> \o @]
  /\ UNCHANGED <<unsent, port, msg, status, d5, scan, replied, emuVars,
                 intVars, countVars, threadVars, resets>>

TaskStep(u) ==
  \/ GetMsg(u) \/ Release(u) \/ ScanReply(u) \/ ScanNext(u) \/ ScanEnd(u)
  \/ TooMany(u) \/ Refuse(u) \/ DoCommand(u) \/ Enqueue(u)
HandlerStep == CountPacket \/ WritePacket

-----------------------------------------------------------------------------
(* The host thread: filesys_thread                                         *)

TGoto(u, from, to) == thread[u] = from /\ thread' = [thread EXCEPT ![u] = to]

ReadWord(u) ==
  /\ thread[u] = "read" /\ Len(words[u]) < 3 /\ unitPipe[u] # <<>>
  /\ words' = [words EXCEPT ![u] = Append(@, Head(unitPipe[u]))]
  /\ unitPipe' = [unitPipe EXCEPT ![u] = Tail(@)]
  /\ UNCHANGED <<taskVars, emuVars, intVars, countVars, backPipe, thread,
                 counterSem, active, goDown, syncSem, resets>>

\* Mutant: the death message is dropped like a packet.
BadDropDeaf(u) ==
  /\ thread[u] = "read" /\ Len(words[u]) = 3 /\ goDown[u] = 1
  /\ words' = [words EXCEPT ![u] = <<>>]
  /\ UNCHANGED <<taskVars, emuVars, intVars, countVars, unitPipe, backPipe,
                 counterSem, active, goDown, syncSem, thread, resets>>

\* Mutant: every packet dropped is taken for the death message's answer.
BadDropPosts(u) ==
  /\ thread[u] = "read" /\ Len(words[u]) = 3 /\ goDown[u] = 1
  /\ words' = [words EXCEPT ![u] = <<>>]
  /\ IF words[u][1] = Death
     THEN /\ syncSem' = [syncSem EXCEPT ![u] = @ + 1]
          /\ thread' = [thread EXCEPT ![u] = "gone"]
     ELSE /\ syncSem' = [syncSem EXCEPT ![u] = @ + 1]
          /\ UNCHANGED thread
  /\ UNCHANGED <<taskVars, emuVars, intVars, countVars, unitPipe, backPipe,
                 counterSem, active, goDown, resets>>

\* FS_GO_DOWN: packets are dropped until the death message comes.
Drop(u) ==
  /\ thread[u] = "read" /\ Len(words[u]) = 3 /\ goDown[u] = 1
  /\ words' = [words EXCEPT ![u] = <<>>]
  /\ IF words[u][1] = Death
     THEN /\ syncSem' = [syncSem EXCEPT ![u] = @ + 1]
          /\ thread' = [thread EXCEPT ![u] = "gone"]
     ELSE UNCHANGED <<syncSem, thread>>
  /\ UNCHANGED <<taskVars, emuVars, intVars, countVars, unitPipe, backPipe,
                 counterSem, active, goDown, resets>>

\* handle_packet, then "Mark the packet as processed".
Handle(u) ==
  /\ Len(words[u]) = 3 /\ goDown[u] = 0 /\ TGoto(u, "read", "sent")
  /\ status' = [status EXCEPT ![words[u][2]] = -1]
  /\ words' = [words EXCEPT ![u] = <<>>]
  /\ UNCHANGED <<unsent, port, task, msg, queue, d5, scan, replied, emuVars,
                 intVars, countVars, unitPipe, backPipe, counterSem, active,
                 goDown, syncSem, resets>>

\* cmds_sent++
CountSent(u) ==
  /\ TGoto(u, "sent", "int")
  /\ sent' = [sent EXCEPT ![u] = @ + 1]
  /\ UNCHANGED <<taskVars, emuVars, intVars, acked, complete, unitPipe,
                 backPipe, words, counterSem, active, goDown, syncSem,
                 resets>>

\* Mutant: no interrupt is asked for.
BadRaiseInt(u) ==
  /\ TGoto(u, "int", "count")
  /\ UNCHANGED <<taskVars, emuVars, intVars, countVars, unitPipe, backPipe,
                 words, counterSem, active, goDown, syncSem, resets>>

\* uae_int_requested = 1
RaiseInt(u) ==
  /\ TGoto(u, "int", "count")
  /\ intRequested' = 1
  /\ UNCHANGED <<taskVars, emuVars, server, unitNo, intreq, countVars,
                 unitPipe, backPipe, words, counterSem, active, goDown,
                 syncSem, resets>>

\* Mutant: active_fs_packets is not lowered.
BadUncount(u) ==
  /\ counterSem > 0 /\ TGoto(u, "count", "back")
  /\ active' = active
  /\ UNCHANGED <<taskVars, emuVars, intVars, countVars, unitPipe, backPipe,
                 words, counterSem, goDown, syncSem, resets>>

\* wait (packet_counter_sem); active_fs_packets--; post
Uncount(u) ==
  /\ counterSem > 0 /\ TGoto(u, "count", "back")
  /\ active' = active - 1
  /\ UNCHANGED <<taskVars, emuVars, intVars, countVars, unitPipe, backPipe,
                 words, counterSem, goDown, syncSem, resets>>

\* "Send back the locks."
SendLocks(u) ==
  /\ backPipe[u] < BackCap /\ TGoto(u, "back", "read")
  /\ backPipe' = [backPipe EXCEPT ![u] = @ + 1]
  /\ UNCHANGED <<taskVars, emuVars, intVars, countVars, unitPipe, words,
                 counterSem, active, goDown, syncSem, resets>>

ThreadStep(u) ==
  \/ ReadWord(u) \/ Drop(u) \/ Handle(u) \/ CountSent(u) \/ RaiseInt(u)
  \/ Uncount(u) \/ SendLocks(u)

-----------------------------------------------------------------------------
(* The interrupt: hsync_handler, exter_server                              *)

Hsync ==
  /\ emu = "run" /\ intRequested = 1 /\ intreq = 0
  /\ intreq' = 1
  /\ UNCHANGED <<taskVars, emuVars, server, unitNo, intRequested, countVars,
                 threadVars, resets>>

\* Case 0: "Clear the interrupt flag _before_ we do any processing."
EnterServer ==
  /\ Runs68k /\ intreq = 1 /\ intRequested = 1
  /\ intRequested' = 0 /\ unitNo' = 1 /\ server' = "loop"
  /\ UNCHANGED <<taskVars, emuVars, intreq, countVars, threadVars, resets>>

\* Mutant: the message is sent whether or not it is free.
BadNeeds(u) == acked[u] # sent[u]

\* Case 2: the next unit that "needs a message sent": one whose last message
\* has been received and that has completed commands since.
Needs(u) == acked[u] = complete[u] /\ acked[u] # sent[u]

PutDummy(u) ==
  /\ emu = "run" /\ server = "loop"
  /\ u >= unitNo /\ Needs(u) /\ \A v \in unitNo .. (u - 1) : ~Needs(v)
  /\ acked' = [acked EXCEPT ![u] = sent[u]]
  /\ port' = [port EXCEPT ![u] = Append(@, Dummy)]
  /\ unitNo' = u + 1
  /\ UNCHANGED <<unsent, task, msg, queue, status, d5, scan, replied,
                 emuVars, server, intRequested, intreq, sent, complete,
                 threadVars, resets>>

NoneNeeds ==
  /\ emu = "run" /\ server = "loop"
  /\ \A v \in Units : v >= unitNo => ~Needs(v)
  /\ server' = "done" /\ unitNo' = NUnits + 1
  /\ UNCHANGED <<taskVars, emuVars, intRequested, intreq, countVars,
                 threadVars, resets>>

\* Mutant: the flag is cleared after the processing.
BadLeaveServer ==
  /\ emu = "run" /\ server = "done"
  /\ server' = "idle" /\ intreq' = 0 /\ intRequested' = 0
  /\ UNCHANGED <<taskVars, emuVars, unitNo, countVars,
                 threadVars, resets>>

\* Case 4, and Exec's acknowledgement of the interrupt.
LeaveServer ==
  /\ emu = "run" /\ server = "done"
  /\ server' = "idle" /\ intreq' = 0
  /\ UNCHANGED <<taskVars, emuVars, unitNo, intRequested, countVars,
                 threadVars, resets>>

ServerStep == EnterServer \/ (\E u \in Units : PutDummy(u)) \/ NoneNeeds
              \/ LeaveServer

-----------------------------------------------------------------------------
(* Reset: filesys_prepare_reset, filesys_reset, filesys_start_threads      *)

Reset ==
  /\ emu = "run" /\ resets < MaxResets
  /\ emu' = "reset" /\ emuUnit' = 1 /\ written' = 0
  /\ goDown' = [goDown EXCEPT ![1] = 1]
  /\ UNCHANGED <<taskVars, intVars, countVars, unitPipe, backPipe, thread,
                 words, counterSem, active, syncSem, resets>>

SendDeath ==
  /\ emu = "reset" /\ written < 3 /\ Len(unitPipe[emuUnit]) < UnitCap
  /\ unitPipe' = [unitPipe EXCEPT ![emuUnit] = Append(@, Death)]
  /\ written' = written + 1
  /\ UNCHANGED <<taskVars, emu, emuUnit, intVars, countVars, backPipe,
                 thread, words, counterSem, active, goDown, syncSem, resets>>

\* The thread has gone down: on to the next unit's ...
NextDown ==
  /\ emu = "reset" /\ written = 3 /\ syncSem[emuUnit] > 0
  /\ emuUnit < NUnits
  /\ emuUnit' = emuUnit + 1 /\ written' = 0
  /\ goDown' = [goDown EXCEPT ![emuUnit + 1] = 1]
  /\ syncSem' = [syncSem EXCEPT ![emuUnit] = @ - 1]
  /\ UNCHANGED <<taskVars, emu, intVars, countVars, unitPipe, backPipe,
                 thread, words, counterSem, active, resets>>

\* ... or boot again.  Nothing clears uae_int_requested, or takes
\* the packets dropped off active_fs_packets.
Reboot ==
  /\ emu = "reset" /\ written = 3 /\ syncSem[emuUnit] > 0
  /\ emuUnit = NUnits
  /\ unsent' = Packets
  /\ port' = [u \in Units |-> <<>>]
  /\ task' = [u \in Units |-> "wait"] /\ msg' = [u \in Units |-> Dummy]
  /\ queue' = [u \in Units |-> <<>>] /\ status' = [p \in Packets |-> 0]
  /\ d5' = [u \in Units |-> 0] /\ scan' = [u \in Units |-> 0]
  /\ replied' = {}
  /\ emu' = "run" /\ emuUnit' = 0 /\ written' = 0
  /\ server' = "idle" /\ unitNo' = 1
  /\ intreq' = 0
  /\ sent' = [u \in Units |-> 0] /\ acked' = [u \in Units |-> 0]
  /\ complete' = [u \in Units |-> 0]
  /\ unitPipe' = [u \in Units |-> <<>>] /\ backPipe' = [u \in Units |-> 0]
  /\ thread' = [u \in Units |-> "read"] /\ words' = [u \in Units |-> <<>>]
  /\ goDown' = [u \in Units |-> 0] /\ syncSem' = [u \in Units |-> 0]
  /\ resets' = resets + 1
  /\ UNCHANGED <<intRequested, counterSem, active>>

ResetStep == SendDeath \/ NextDown \/ Reboot

-----------------------------------------------------------------------------

Next ==
  \/ \E p \in Packets : Send(p)
  \/ \E u \in Units : TaskStep(u) \/ ThreadStep(u)
  \/ HandlerStep \/ Hsync \/ ServerStep \/ Reset \/ ResetStep

Spec == Init /\ [][Next]_vars

\* The host schedules its threads, Exec its tasks (a unit's task waits in
\* WaitPort or runs); the interrupt comes before both, and hsync_handler runs
\* on every line.  Nothing obliges a program to send a packet, or the user to
\* reset the machine.
FairSpec ==
  /\ Spec
  /\ \A u \in Units : WF_vars(TaskStep(u)) /\ WF_vars(ThreadStep(u))
  /\ WF_vars(HandlerStep) /\ WF_vars(Hsync) /\ WF_vars(ServerStep)
  /\ WF_vars(ResetStep)

-----------------------------------------------------------------------------
(* Properties                                                              *)

Elems(s) == {s[i] : i \in 1 .. Len(s)}
Times(x, s) == Cardinality({i \in 1 .. Len(s) : s[i] = x})
Holds(u) == task[u] \in {"dos", "trap", "enqueue"}

\* Every variable has its type, and the three counts of a unit are ordered:
\* cmds_complete <= cmds_acked <= cmds_sent.
TypeOK ==
  /\ unsent \subseteq Packets /\ replied \subseteq Packets
  /\ port \in [Units -> Seq(Packets \cup {Dummy})]
  /\ task \in [Units -> {"wait", "dummy", "scan", "dos", "trap", "enqueue"}]
  /\ msg \in [Units -> Packets \cup {Dummy}]
  /\ queue \in [Units -> Seq(Packets)] /\ status \in [Packets -> {-1, 0, 1}]
  /\ d5 \in [Units -> 0 .. Limit] /\ scan \in [Units -> Nat]
  /\ emu \in {"run", "count", "write", "reset"}
  /\ emuUnit \in {0} \cup Units /\ written \in 0 .. 3
  /\ server \in {"idle", "loop", "done"} /\ unitNo \in 1 .. NUnits + 1
  /\ intRequested \in {0, 1} /\ intreq \in {0, 1}
  /\ \A u \in Units : /\ complete[u] \in Nat /\ acked[u] \in Nat
                      /\ sent[u] \in Nat
                      /\ complete[u] <= acked[u] /\ acked[u] <= sent[u]
  /\ unitPipe \in [Units -> Seq(Packets \cup {Death})]
  /\ backPipe \in [Units -> 0 .. BackCap]
  /\ thread \in [Units -> {"read", "sent", "int", "count", "back", "gone"}]
  /\ words \in [Units -> Seq(Packets \cup {Death})]
  /\ counterSem \in {0, 1} /\ active \in Nat
  /\ goDown \in [Units -> {0, 1}] /\ syncSem \in [Units -> {0, 1}]
  /\ resets \in 0 .. MaxResets

\* "Only one dummy message is used per filesystem unit": the counts keep the
\* interrupt server from putting it in the port while it is there, or before
\* its last receipt has been acted on.
OneDummy ==
  \A u \in Units : Times(Dummy, port[u])
                   + (IF task[u] = "dummy" THEN 1 ELSE 0)
                   = (IF acked[u] # complete[u] THEN 1 ELSE 0)

\* A packet is in one place: not sent, in its unit's port, in the task's
\* hands, once in the unit's list, or answered; it is never answered twice.
PacketInOnePlace ==
  \A p \in Packets :
    LET u == UnitOf[p]
    IN (IF p \in unsent THEN 1 ELSE 0) + Times(p, port[u])
       + (IF Holds(u) /\ msg[u] = p THEN 1 ELSE 0)
       + Times(p, queue[u]) + (IF p \in replied THEN 1 ELSE 0) = 1

\* A command of the list is answered only after the unit's thread has carried
\* it out.
AnsweredWhenDone ==
  \A p \in replied : status[p] # -1 => p \in MayFail

\* The task's register d5, which limits what is in the pipes, is the number of
\* commands of the list that were started and not answered.
D5Counts ==
  \A u \in Units :
    d5[u] = Cardinality({i \in 1 .. Len(queue[u]) : status[queue[u][i]] # 1})
            + (IF task[u] = "enqueue" /\ status[msg[u]] # 1 THEN 1 ELSE 0)

\* "We can get too many interrupts, but never not enough": while a command of
\* the list has completed and has not been answered, something is still to
\* come that makes the task go through the list.
NeverNotEnough ==
  \A u \in Units : \A i \in 1 .. Len(queue[u]) :
    status[queue[u][i]] = -1 =>
      \/ thread[u] \in {"sent", "int"}
      \/ intRequested = 1
      \/ server = "loop" /\ unitNo <= u /\ acked[u] # sent[u]
      \/ acked[u] # complete[u]
      \/ task[u] = "scan" /\ scan[u] <= i

\* 1 if unit_pipe could hold as many commands as may be started.
Spare == IF UnitCap < 3 * Limit THEN 0 ELSE 1

\* The limit of started commands keeps the thread from waiting for room in
\* back_pipe.  Locks come back for the commands of one scan of the list and
\* for those started before the next: twice the limit, 40 of 49 words, and one
\* more if unit_pipe could hold all the commands that may be started.
BackPipeRoom == \A u \in Units : backPipe[u] <= 2 * Limit + Spare

\* active_fs_packets is 0 when no packet is with a thread (the sound code lets
\* a stopped CPU wait only then).  A reset that drops packets breaks this.
ActiveCounts ==
  (/\ emu = "run" /\ resets = 0
   /\ \A u \in Units : /\ thread[u] \in {"read", "back"}
                       /\ words[u] = <<>> /\ unitPipe[u] = <<>>)
    => active = 0

\* A reset never boots while a thread of the last session lives.
ThreadsGoneAtReboot ==
  [][resets' # resets => \A u \in Units : thread[u] = "gone"]_vars

\* "We can handle an unlimited number of unstarted commands": every packet sent
\* to a unit is answered, unless the machine is reset.
EveryPacketAnswered ==
  \A p \in Packets :
    (p \in Elems(port[UnitOf[p]])) ~> (p \in replied \/ emu = "reset")

\* Every packet that a trap has begun to hand to a thread is answered, unless
\* the machine is reset: thread, interrupt server and task pass it on.
HandedOverAnswered ==
  \A p \in Packets :
    (p \in Elems(unitPipe[UnitOf[p]])) ~> (p \in replied \/ emu = "reset")

\* A write to unit_pipe does not stop the emulator for good: a trap that hands
\* a packet over to a pipe that may be full, and a reset that sends its death
\* messages behind the packets, come to an end.
PipeWritesReturn == (emu \in {"write", "reset"}) ~> (emu = "run")

\* The counts of a unit that task, server and thread keep without a lock agree
\* with what they count, and its pipes have room.
Inv == TypeOK /\ AnsweredWhenDone /\ D5Counts /\ BackPipeRoom /\ ActiveCounts
=============================================================================
