---------------------------- MODULE Native2Amiga ----------------------------
(***************************************************************************)
(* Exec calls made from host threads: native2amiga.c, its pipe             *)
(* native2amiga_pending, and the EXTER interrupt that carries the calls    *)
(* out on the emulated Amiga (exter_int_helper in filesys.c, called by     *)
(* exter_server in filesys.asm).                                           *)
(*                                                                         *)
(* A call is a sequence of words, the opcode first.  uae_ReplyMsg,         *)
(* uae_PutMsg and uae_Signal write the words one by one, the last with     *)
(* no_buffer, and raise uae_int_requested, which hsync_handler polls.      *)
(* The emulator's thread is the reader of the pipe.                        *)
(***************************************************************************)
EXTENDS CommPipe, SequencesExt

CONSTANTS Calls         \* for each host thread, the calls it makes in turn

\* The opcode of a call and the number of arguments it takes.
Arity == [Signal |-> 2, PutMsg |-> 2, ReplyMsg |-> 1]
Opcodes == DOMAIN Arity

ASSUME CallsAssumption ==
  /\ Calls \in [Writers -> Seq(Seq(Words))]
  /\ \A w \in Writers : \A i \in DOMAIN Calls[w] :
       /\ Calls[w][i][1] \in Opcodes
       /\ Len(Calls[w][i]) = 1 + Arity[Calls[w][i][1]]

VARIABLES
  callNo,         \* how many calls each thread has completed
  sent,           \* how many words of its current call it has written
  intRequested,   \* uae_int_requested
  intreq,         \* the EXTER bit of INTREQ
  intSem,         \* singlethread_int_sem
  server,         \* where exter_server is
  partial,        \* the words of the call being read
  delivered       \* the Exec calls made on the Amiga, in order

hostVars == <<callNo, sent>>
amigaVars == <<intRequested, intreq, intSem, server, partial, delivered>>
n2aVars == <<vars, hostVars, amigaVars>>

N2AInit ==
  /\ Init
  /\ callNo = [w \in Writers |-> 0]
  /\ sent = [w \in Writers |-> 0]
  /\ intRequested = 0 /\ intreq = 0 /\ intSem = 1
  /\ server = "idle" /\ partial = <<>> /\ delivered = <<>>

-----------------------------------------------------------------------------
(* uae_ReplyMsg, uae_PutMsg, uae_Signal, on a host thread                  *)

Current(w) == Calls[w][callNo[w] + 1]

\* The next word: the last one of the call is written with no_buffer.
WriteWord(w) ==
  /\ callNo[w] < Len(Calls[w]) /\ sent[w] < Len(Current(w))
  /\ BeginWrite(w, Current(w)[sent[w] + 1],
                IF sent[w] + 1 = Len(Current(w)) THEN 1 ELSE 0)
  /\ sent' = [sent EXCEPT ![w] = @ + 1]
  /\ UNCHANGED <<callNo, amigaVars>>

\* Mutant: the interrupt is not requested.
BadRequestInt(w) ==
  /\ callNo[w] < Len(Calls[w]) /\ sent[w] = Len(Current(w))
  /\ wpc[w] = "idle"
  /\ callNo' = [callNo EXCEPT ![w] = @ + 1]
  /\ sent' = [sent EXCEPT ![w] = 0]
  /\ UNCHANGED <<vars, amigaVars>>

\* After the last word: uae_int_requested = 1.
RequestInt(w) ==
  /\ callNo[w] < Len(Calls[w]) /\ sent[w] = Len(Current(w))
  /\ wpc[w] = "idle"
  /\ intRequested' = 1
  /\ callNo' = [callNo EXCEPT ![w] = @ + 1]
  /\ sent' = [sent EXCEPT ![w] = 0]
  /\ UNCHANGED <<vars, intreq, intSem, server, partial, delivered>>

WritePipe(w) == WriteStep(w) /\ UNCHANGED <<hostVars, amigaVars>>

-----------------------------------------------------------------------------
(* The emulator's thread.  While exter_int_helper reads the pipe nothing   *)
(* else of the emulator runs.                                              *)

\* hsync_handler: if (uae_int_requested) INTREQ (0xA000)
Hsync ==
  /\ server \in {"idle", "loop", "done"}
  /\ intRequested = 1 /\ intreq' = 1
  /\ UNCHANGED <<vars, hostVars, intRequested, intSem, server, partial,
                 delivered>>

\* CIA-B raises the same interrupt (RethinkICRB in cia.c).
OtherExter ==
  /\ server = "idle" /\ intreq' = 1
  /\ UNCHANGED <<vars, hostVars, intRequested, intSem, server, partial,
                 delivered>>

\* exter_int_helper, d0 = 0: is the interrupt for us?  The flag is cleared
\* before any work is done.
EnterServer ==
  /\ server = "idle" /\ intreq = 1
  /\ intRequested = 1 /\ intSem > 0
  /\ intSem' = intSem - 1
  /\ intRequested' = 0
  /\ server' = "loop"
  /\ UNCHANGED <<vars, hostVars, intreq, partial, delivered>>

\* Mutant: an interrupt that is not for us releases the lock all the same.
BadNotForUs ==
  /\ server = "idle" /\ intreq = 1
  /\ intRequested = 0 \/ intSem = 0
  /\ intreq' = 0 /\ intSem' = intSem + 1
  /\ UNCHANGED <<vars, hostVars, intRequested, server, partial, delivered>>

\* It is not, and Exec acknowledges it.
NotForUs ==
  /\ server = "idle" /\ intreq = 1
  /\ intRequested = 0 \/ intSem = 0
  /\ intreq' = 0
  /\ UNCHANGED <<vars, hostVars, intRequested, intSem, server, partial,
                 delivered>>

\* d0 = 2: while (comm_pipe_has_data (&native2amiga_pending)) read an opcode.
FindWork ==
  /\ server = "loop" /\ HasData
  /\ BeginRead
  /\ server' = "opcode"
  /\ UNCHANGED <<hostVars, intRequested, intreq, intSem, partial, delivered>>

\* The read of the opcode has returned.  An unknown one is dropped.
ReadOpcode ==
  /\ server = "opcode" /\ rpc = "idle"
  /\ IF got \in Opcodes
     THEN partial' = <<got>> /\ server' = "args" /\ BeginRead
     ELSE server' = "loop" /\ UNCHANGED <<vars, partial>>
  /\ UNCHANGED <<hostVars, intRequested, intreq, intSem, delivered>>

\* Mutant: one argument too few is read.
BadReadArg ==
  /\ server = "args" /\ rpc = "idle"
  /\ partial' = <<>>
  /\ delivered' = Append(delivered, Append(partial, got))
  /\ server' = "loop"
  /\ UNCHANGED <<vars, hostVars, intRequested, intreq, intSem>>

\* The read of an argument has returned: read another, or return to
\* exter_server, which makes the call.
ReadArg ==
  /\ server = "args" /\ rpc = "idle"
  /\ LET call == Append(partial, got)
     IN \/ /\ Len(call) <= Arity[call[1]]
           /\ partial' = call
           /\ BeginRead
           /\ UNCHANGED <<server, delivered>>
        \/ /\ Len(call) = Arity[call[1]] + 1
           /\ partial' = <<>>
           /\ delivered' = Append(delivered, call)
           /\ server' = "loop"
           /\ UNCHANGED vars
  /\ UNCHANGED <<hostVars, intRequested, intreq, intSem>>

\* No more work.
NoWork ==
  /\ server = "loop" /\ ~HasData
  /\ server' = "done"
  /\ UNCHANGED <<vars, hostVars, intRequested, intreq, intSem, partial,
                 delivered>>

\* Mutant: the interrupt flag is cleared when the work is done.
BadLeaveServer ==
  /\ server = "done"
  /\ intSem' = intSem + 1
  /\ intreq' = 0 /\ intRequested' = 0
  /\ server' = "idle"
  /\ UNCHANGED <<vars, hostVars, partial, delivered>>

\* d0 = 4 releases the lock; Exec acknowledges the interrupt.
LeaveServer ==
  /\ server = "done"
  /\ intSem' = intSem + 1
  /\ intreq' = 0
  /\ server' = "idle"
  /\ UNCHANGED <<vars, hostVars, intRequested, partial, delivered>>

ReadPipe == ReadStep /\ UNCHANGED <<hostVars, amigaVars>>

HostStep(w) == WriteWord(w) \/ RequestInt(w) \/ WritePipe(w)

ServerStep == \/ EnterServer \/ NotForUs \/ FindWork \/ ReadOpcode \/ ReadArg
              \/ NoWork \/ LeaveServer \/ ReadPipe

N2ANext == (\E w \in Writers : HostStep(w)) \/ Hsync \/ OtherExter
           \/ ServerStep

N2ASpec == N2AInit /\ [][N2ANext]_n2aVars

\* The threads run; hsync comes every scanline; the Amiga's Exec does not
\* keep interrupts disabled for ever.
N2AFairSpec ==
  /\ N2ASpec
  /\ \A w \in Writers : WF_n2aVars(HostStep(w))
  /\ WF_n2aVars(Hsync) /\ WF_n2aVars(ServerStep)

-----------------------------------------------------------------------------
(* Properties                                                              *)

\* The words a thread has written belong to its current call; the server is
\* in one of its states and never holds singlethread_int_sem twice.
N2ATypeOK ==
  /\ TypeOK
  /\ \A w \in Writers :
       /\ callNo[w] \in 0 .. Len(Calls[w])
       /\ sent[w] \in 0 .. 3
  /\ intRequested \in {0, 1} /\ intreq \in {0, 1} /\ intSem \in {0, 1}
  /\ server \in {"idle", "loop", "opcode", "args", "done"}
  /\ partial \in Seq(Words \cup {NoWord})

\* native2amiga.h: the functions "do exactly the same thing as their Amiga
\* counterpart": the Exec calls made are calls the threads asked for, each
\* whole, and at most once.
CallsIntact ==
  /\ \A i \in DOMAIN delivered :
       \E w \in Writers : delivered[i] \in ToSet(Calls[w])
  /\ IsInjective(delivered)

\* The interrupt flag is cleared before the pipe is looked at, so that "we
\* can get too many interrupts, but never not enough": when the server is
\* idle and every call asked for has been written, a call that is still in
\* the pipe has an interrupt coming.
NeverNotEnough ==
  (/\ server = "idle" /\ HasData
   /\ \A w \in Writers : sent[w] = 0) => intRequested = 1

\* Every call a host thread completes is made on the Amiga.
CallsMade ==
  \A w \in Writers : \A i \in DOMAIN Calls[w] :
     callNo[w] >= i ~> Calls[w][i] \in ToSet(delivered)

\* The invariant of the interrupt server: its state, and that no call is left
\* in the pipe without an interrupt to come.
N2AInv == N2ATypeOK /\ NeverNotEnough
=============================================================================
