------------------------------- MODULE Serial -------------------------------
(***************************************************************************)
(* The serial port (serial.c), polled by the CIA's horizontal and vertical *)
(* handlers, together with the interrupts it asks for (Interrupts).        *)
(*                                                                         *)
(* Bytes that come in are numbered: byte b is in the tty, then in inbuf,   *)
(* then in the data bits of SERDATR.                                       *)
(***************************************************************************)
EXTENDS Interrupts

CONSTANTS Bytes,        \* bytes the other side sends
          OutSize,      \* sizeof outbuf: 1024
          Demand        \* currprefs.serial_demand: open while DTR is on

ASSUME SerialAssumption ==
  /\ Bytes \in Nat /\ OutSize \in Nat \ {0} /\ Demand \in BOOLEAN
  /\ "rbf" \in Sources

VARIABLES
  fetched,      \* bytes that have been read from the tty
  taken,        \* those that have left inbuf
  data,         \* the byte in serdat
  got,          \* the last byte the program has read
  waitqueue, doreadser, serdev, dtr,
  outlast

inVars == <<fetched, taken, data, got, waitqueue>>
lineVars == <<serdev, dtr>>
serVars == <<inVars, doreadser, lineVars, outlast>>
vars == <<intVars, serVars>>

\* serial_open: the device may not open, and serdev then stays 0.
Opened == {0, 1}

\* serial_init
Init ==
  /\ IntInit
  /\ fetched = 0 /\ taken = 0 /\ data = 0 /\ got = 0
  /\ waitqueue = 0 /\ doreadser = 0 /\ outlast = 0
  /\ serdev \in (IF Demand THEN {0} ELSE Opened) /\ dtr = 0

-----------------------------------------------------------------------------
(* The program's accesses                                                  *)

\* Mutant: the buffer is flushed only when it is written beyond its end.
BadSERDAT ==
  /\ Insn
  /\ IF Demand /\ dtr = 0 THEN UNCHANGED <<outlast, intreq>>
     ELSE /\ outlast' = IF outlast > OutSize THEN 0 ELSE outlast + 1
          /\ intreq' = intreq \cup ({"tbe"} \cap Sources)
  /\ UNCHANGED <<intena, intmask, flags, held, quit, inVars, doreadser,
                 lineVars>>

\* A write to SERDAT goes to outbuf; TBE is requested without SPCFLAG_INT.
SERDAT ==
  /\ Insn
  /\ IF Demand /\ dtr = 0 THEN UNCHANGED <<outlast, intreq>>
     ELSE /\ outlast' = (outlast + 1) % OutSize
          /\ intreq' = intreq \cup ({"tbe"} \cap Sources)
  /\ UNCHANGED <<intena, intmask, flags, held, quit, inVars, doreadser,
                 lineVars>>

SERDATR ==
  /\ Insn /\ waitqueue' = 0 /\ got' = data
  /\ UNCHANGED <<paulaVars, intmask, flags, held, quit, fetched, taken, data,
                 doreadser, lineVars, outlast>>

\* CIA-B's port A: serial_dtr_on, serial_dtr_off.  When the device did not
\* open, the line is on all the same.
Dtr(on) ==
  /\ Insn /\ dtr # on /\ dtr' = on
  /\ serdev' \in IF ~Demand THEN {serdev} ELSE IF on = 1 THEN Opened ELSE {0}
  /\ UNCHANGED <<paulaVars, intmask, flags, held, quit, inVars, doreadser,
                 outlast>>

-----------------------------------------------------------------------------
(* Horizontal and vertical blank                                           *)

\* SERDATS finds a byte that the program has not read: RBF, again.
Waiting == serdev = 1 /\ waitqueue = 1
\* Mutant: the byte that waits is not looked at.
BadReceiveGuard == waitqueue \in {0, 1}
ReceiveGuard == waitqueue = 0

\* Mutant: RBF is requested only when the byte comes.
BadAskAgain ==
  /\ Waiting /\ doreadser' = 1
  /\ UNCHANGED <<intreq, inVars>>

AskAgain ==
  /\ Waiting /\ doreadser' = 1
  /\ intreq' = intreq \cup {"rbf"} /\ UNCHANGED inVars

\* serial_read: from the buffer, or from the tty, which may have any number of
\* bytes.
Receive ==
  /\ serdev = 1 /\ ReceiveGuard
  /\ IF taken < fetched THEN UNCHANGED fetched ELSE fetched' \in taken + 1 .. Bytes
  /\ taken' = taken + 1 /\ data' = taken + 1
  /\ waitqueue' = 1 /\ doreadser' = 1
  /\ intreq' = intreq \cup {"rbf"}
  /\ UNCHANGED got

NothingToRead ==
  /\ serdev = 0 \/ (waitqueue = 0 /\ taken = fetched)
  /\ doreadser' = 0 /\ UNCHANGED <<intreq, inVars>>

\* CIA_hsync_handler, when it polls: SERDATS.  The request is written to
\* intreq, and no flag is set.
Hsync ==
  /\ InCycles /\ doreadser = 1
  /\ AskAgain \/ Receive \/ NothingToRead
  /\ UNCHANGED <<intena, cpuVars, held, quit, lineVars, outlast>>

\* serial_flush_buffer writes outbuf, or drops what a closed port holds.
Flush ==
  /\ outlast' = 0
  /\ taken' = IF serdev = 1 THEN taken ELSE fetched
  /\ UNCHANGED <<fetched, data, got, waitqueue>>

\* vsync_handler; when m68k_run is to end, CIA_vsync_handler is not called.
Vsync(redraw) ==
  /\ IntVsync(redraw)
  /\ IF quit' > 0 THEN UNCHANGED <<inVars, doreadser, outlast>>
                  ELSE doreadser' = 1 /\ Flush
  /\ UNCHANGED lineVars

\* CIA_reset drops DTR.
Reset ==
  /\ IntReset
  /\ dtr' = 0 /\ serdev' = IF Demand THEN 0 ELSE serdev
  /\ UNCHANGED <<inVars, doreadser, outlast>>

Program ==
  \/ IntInsn /\ UNCHANGED serVars
  \/ SERDAT \/ SERDATR \/ \E on \in {0, 1} : Dtr(on)

Next ==
  \/ Program
  \/ IntEvent /\ UNCHANGED serVars
  \/ Hsync \/ (\E redraw \in BOOLEAN : Vsync(redraw))
  \/ (CpuStep \/ UaeQuit \/ UaeReset) /\ UNCHANGED serVars
  \/ Reset

Spec == Init /\ [][Next]_vars

\* The emulator goes on, and lines and frames end: the two events are always
\* active, and do_cycles runs each when its time comes.
FairSpec ==
  /\ Spec
  /\ WF_vars(Program) /\ WF_vars(CpuStep /\ UNCHANGED serVars)
  /\ WF_vars(Reset)
  /\ SF_vars(Hsync) /\ SF_vars(Vsync(TRUE))

-----------------------------------------------------------------------------
(* Properties                                                              *)

TypeOK ==
  /\ IntTypeOK
  /\ fetched \in 0 .. Bytes /\ taken \in 0 .. fetched
  /\ data \in 0 .. taken /\ got \in 0 .. data
  /\ {waitqueue, doreadser, serdev, dtr} \subseteq {0, 1}
  /\ outlast \in 0 .. OutSize - 1

\* A byte in SERDATR is replaced only when the program has read it.
ByteKept == [][data' # data => got = data]_vars

\* While a byte waits to be read and the port is open, its interrupt is
\* requested, again after the program has acknowledged it without reading.
ByteAsked ==
  (Waiting /\ "rbf" \notin intreq)
    ~> ("rbf" \in intreq \/ ~Waiting \/ quit > 0 \/ at = "gone")
=============================================================================
