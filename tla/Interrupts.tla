----------------------------- MODULE Interrupts -----------------------------
(***************************************************************************)
(* Interrupt requests and the 68k's loop (custom.c, newcpu.c).  Paula's    *)
(* registers INTREQ and INTENA are variables of the emulator; the loop     *)
(* m68k_run looks at them only when a flag of regs.spcflags tells it to.   *)
(* A request sets SPCFLAG_INT, the next pass through do_specialties makes  *)
(* SPCFLAG_DOINT of it, and the pass after that takes the interrupt: one   *)
(* instruction later, as on the chip.  A stopped 68k waits for the flags   *)
(* in a loop of its own.                                                   *)
(*                                                                         *)
(* The program is any program: an instruction is one of the accesses below *)
(* or one that touches none of this state.                                 *)
(***************************************************************************)
EXTENDS Integers, FiniteSets, FiniteSetsExt

CONSTANTS Sources,      \* the interrupts the program may enable; requests of
                        \* others are not recorded
          Level,        \* [Sources -> 1 .. 6]
          CiaSources,   \* those raised by a CIA: "ports", "exter"
          EnableSets,   \* sets of bits the program writes to INTENA together
          Masks         \* interrupt masks it puts in SR

\* Raised by the serial port, which writes intreq itself.
SerialSources == {"tbe", "rbf"}
Inten == "inten"        \* bit 14 of INTENA, the master enable
Flags == {"INT", "DOINT", "STOP", "BRK"}

ASSUME InterruptsAssumption ==
  /\ Level \in [Sources -> 1 .. 6] /\ Inten \notin Sources
  /\ CiaSources \subseteq Sources \ SerialSources
  /\ EnableSets \subseteq SUBSET (Sources \cup {Inten})
  /\ Masks \subseteq 0 .. 7

VARIABLES
  intreq,   \* the requests
  intena,   \* the enabled sources, and Inten
  intmask,  \* regs.intmask
  flags,    \* regs.spcflags
  held,     \* CIAs whose ICR has an enabled flag set
  quit,     \* quit_program: asked for (-1 quit, -2 reset), under way (1, 2)
  at        \* where m68k_run is

paulaVars == <<intreq, intena>>
cpuVars == <<intmask, flags, at>>
intVars == <<paulaVars, cpuVars, held, quit>>

\* "insn": before an instruction; "cycles", "stopcycles": in do_cycles, called
\* after an instruction or, in do_specialties, while stopped; "out": m68k_run
\* has returned to m68k_go; "gone": m68k_go has returned.
Places == {"insn", "cycles", "stopcycles", "out", "gone"}

IntInit ==
  /\ intreq = {} /\ intena = {} /\ intmask = 7 /\ flags = {}
  /\ held = {} /\ quit = 0 /\ at = "insn"

-----------------------------------------------------------------------------
(* custom.c                                                                *)

Setclr(bits, set, v) == IF set THEN bits \cup v ELSE bits \ v

\* intlev: the highest level enabled and requested.
IntLev ==
  LET asked == {Level[s] : s \in intreq \cap intena}
  IN IF Inten \in intena /\ asked # {} THEN Max(asked) ELSE -1

\* Clearing enable bits does not set SPCFLAG_INT: "There's stupid code out
\* there".
INTENA(set, v) ==
  /\ intena' = Setclr(intena, set, v)
  /\ flags' = IF set THEN flags \cup {"INT"} ELSE flags

\* INTREQ, with rethink_cias.
INTREQ(set, v) ==
  /\ intreq' = Setclr(intreq, set, v \cap Sources) \cup held'
  /\ flags' = flags \cup {"INT"}

-----------------------------------------------------------------------------
(* An instruction                                                          *)

Insn == at = "insn" /\ at' = "cycles"

Compute == Insn /\ UNCHANGED <<paulaVars, intmask, flags, held, quit>>

WriteIntena(set, v) ==
  /\ Insn /\ INTENA(set, v)
  /\ UNCHANGED <<intreq, intmask, held, quit>>

WriteIntreq(set, s) ==
  /\ Insn /\ UNCHANGED held /\ INTREQ(set, {s})
  /\ UNCHANGED <<intena, intmask, quit>>

\* A read of the ICR: the CIA no longer asks.
ReadIcr(s) ==
  /\ Insn /\ held' = held \ {s}
  /\ UNCHANGED <<paulaVars, intmask, flags, quit>>

\* Mutant: a lowered mask is not looked at.
BadWriteSR(m) ==
  /\ Insn /\ intmask' = m
  /\ UNCHANGED <<paulaVars, flags, held, quit>>

\* MOVE to SR, RTE: MakeFromSR.
WriteSR(m) ==
  /\ Insn /\ intmask' = m /\ flags' = flags \cup {"INT"}
  /\ UNCHANGED <<paulaVars, held, quit>>

Stop(m) ==
  /\ Insn /\ intmask' = m /\ flags' = flags \cup {"INT", "STOP"}
  /\ UNCHANGED <<paulaVars, held, quit>>

-----------------------------------------------------------------------------
(* Events, in do_cycles                                                    *)

InCycles == at \in {"cycles", "stopcycles"}

\* A flag in an ICR comes or is enabled: RethinkICRA, RethinkICRB.
CiaRaises(s) ==
  /\ InCycles /\ held' = held \cup {s}
  /\ intreq' = intreq \cup {s} /\ flags' = flags \cup {"INT"}
  /\ UNCHANGED <<intena, intmask, at, quit>>

\* The blitter, the copper, audio, the disk; calls of host threads.
DeviceRaises(s) ==
  /\ InCycles /\ UNCHANGED held /\ INTREQ(TRUE, {s})
  /\ UNCHANGED <<intena, intmask, at, quit>>

\* Mutant: the loop is not told to return.
BadVsyncQuit(redraw) ==
  IF redraw /\ quit < 0
  THEN quit' = -quit /\ flags' = flags \cup {"INT"}
  ELSE quit' = quit /\ flags' = flags \cup {"INT"}

\* vsync_handle_redraw: at the end of a frame that is redrawn, which at least
\* every second one is, a wish to quit or reset ends m68k_run.
VsyncQuit(redraw) ==
  IF redraw /\ quit < 0
  THEN quit' = -quit /\ flags' = flags \cup {"INT", "BRK"}
  ELSE quit' = quit /\ flags' = flags \cup {"INT"}

\* vsync_handler: INTREQ (0x8020), then the above.
IntVsync(redraw) ==
  /\ InCycles
  /\ intreq' = intreq \cup ({"vertb"} \cap Sources) \cup held
  /\ VsyncQuit(redraw)
  /\ UNCHANGED <<intena, intmask, at, held>>

\* uae_quit and uae_reset, from the window's events or the GUI.
UaeQuit ==
  /\ at # "gone" /\ quit # -1
  /\ quit' = -1 /\ UNCHANGED <<paulaVars, cpuVars, held>>
UaeReset ==
  /\ at # "gone" /\ quit = 0
  /\ quit' = -2 /\ UNCHANGED <<paulaVars, cpuVars, held>>

-----------------------------------------------------------------------------
(* do_specialties and m68k_go                                              *)

\* Mutant: SPCFLAG_DOINT is not remembered for the next instruction.
BadFinish(f) ==
  /\ flags' = IF "INT" \in f /\ "DOINT" \in f THEN {"DOINT"} ELSE {}
  /\ at' = IF "BRK" \in f THEN "out" ELSE "insn"

\* The end of do_specialties, f being the flags before it: SPCFLAG_INT becomes
\* SPCFLAG_DOINT, and SPCFLAG_BRK ends m68k_run.
Finish(f) ==
  /\ flags' = IF "INT" \in f THEN {"DOINT"} ELSE {}
  /\ at' = IF "BRK" \in f THEN "out" ELSE "insn"

\* Interrupt (intlev ()), which sets SPCFLAG_INT again.
Taken == IntLev > intmask
Take == intmask' = IntLev

\* After an instruction.
CyclesDone ==
  /\ at = "cycles" /\ "STOP" \notin flags
  /\ IF "DOINT" \in flags /\ Taken
     THEN Take /\ Finish(flags \cup {"INT"})
     ELSE UNCHANGED intmask /\ Finish(flags)
  /\ UNCHANGED <<paulaVars, held, quit>>

\* A stopped 68k lets time pass until a flag is set; then it takes an
\* interrupt, or waits on.  SPCFLAG_BRK is not looked at.
Stopped ==
  /\ at = "cycles" /\ "STOP" \in flags /\ at' = "stopcycles"
  /\ UNCHANGED <<paulaVars, intmask, flags, held, quit>>

Awake == at = "stopcycles" /\ flags \cap {"INT", "DOINT"} # {}

StopEnds ==
  /\ Awake /\ Taken
  /\ Take /\ Finish((flags \ {"DOINT"}) \cup {"INT"})
  /\ UNCHANGED <<paulaVars, held, quit>>

StopGoesOn ==
  /\ Awake /\ ~Taken
  /\ flags' = flags \ {"INT", "DOINT"}
  /\ UNCHANGED <<paulaVars, intmask, at, held, quit>>

\* m68k_go: m68k_run again, the end, or a reset.  The reset clears the enabled
\* interrupts, the CIAs and the flags (customreset), not the requests, and
\* sets the mask (m68k_reset).
IntGoOn ==
  /\ at = "out" /\ quit <= 0
  /\ at' = "insn" /\ UNCHANGED <<paulaVars, intmask, flags, held, quit>>

IntQuit ==
  /\ at = "out" /\ quit = 1
  /\ at' = "gone" /\ UNCHANGED <<paulaVars, intmask, flags, held, quit>>

IntReset ==
  /\ at = "out" /\ quit = 2
  /\ at' = "insn" /\ quit' = 0
  /\ intena' = {} /\ held' = {} /\ flags' = {} /\ intmask' = 7
  /\ UNCHANGED intreq

IntInsn ==
  \/ Compute
  \/ \E set \in BOOLEAN, v \in EnableSets : WriteIntena(set, v)
  \/ \E set \in BOOLEAN, s \in Sources : WriteIntreq(set, s)
  \/ \E s \in CiaSources : ReadIcr(s)
  \/ \E m \in Masks : WriteSR(m) \/ Stop(m)

IntEvent ==
  \/ \E s \in CiaSources : CiaRaises(s)
  \/ \E s \in Sources \ SerialSources : DeviceRaises(s)

CpuStep == CyclesDone \/ Stopped \/ StopEnds \/ StopGoesOn
           \/ IntGoOn \/ IntQuit

-----------------------------------------------------------------------------
(* Properties                                                              *)

IntTypeOK ==
  /\ intreq \subseteq Sources /\ intena \subseteq Sources \cup {Inten}
  /\ intmask \in 0 .. 7 /\ flags \subseteq Flags /\ at \in Places
  /\ held \subseteq CiaSources /\ quit \in {-2, -1, 0, 1, 2}

Due(s) == s \in intreq \cap intena /\ Inten \in intena /\ Level[s] > intmask

\* No interrupt is forgotten: while one other than the serial port's is due, a
\* flag tells the loop to look at the requests.
NoLostInterrupt ==
  \A s \in Sources \ SerialSources :
     Due(s) => flags \cap {"INT", "DOINT"} # {}

\* An interrupt that is due, the serial port's too, is taken unless the
\* program withdraws it: for the serial port, which sets no flag, the next
\* frame's vertical blank does.
RequestTaken ==
  \A s \in Sources : Due(s) ~> (~Due(s) \/ at = "gone")

Left == at \in {"out", "gone"}

\* F12-q: a wish to quit or reset ends the loop.
QuitHonoured == (quit < 0) ~> Left

\* ... unless the program stops the 68k for ever.
QuitUnlessStopped == ([]<>("STOP" \notin flags)) => QuitHonoured
=============================================================================
