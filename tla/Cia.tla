-------------------------------- MODULE Cia ---------------------------------
(***************************************************************************)
(* The timers of the two 8520 CIAs and their interrupts (cia.c).  The      *)
(* emulator does not count: CIA_calctimers works out when the next timer   *)
(* underflows and schedules the event ev_cia, CIA_update brings the timers *)
(* up to date when the event comes or the program writes a register, and   *)
(* compute_passed_time corrects what a read returns in between.            *)
(*                                                                         *)
(* Beside it the module keeps the timers as the chip does, counted down on *)
(* every E clock (chip, phase): what the lazy timers must be               *)
(* indistinguishable from.                                                 *)
(***************************************************************************)
EXTENDS Naturals, FiniteSets, FiniteSetsExt

CONSTANTS Cias,         \* the chips: {"A", "B"}
          Byte,         \* values of a byte: 256
          Div,          \* DIV10: emulator cycles of one E clock, 2560
          Wrap,         \* values of an unsigned long: no multiple of Div
          Los, His,     \* bytes the program writes to the timer registers
          CraValues,    \* values it writes to CRA ...
          CrbValues,    \* ... and to CRB
          Masks         \* interrupts it enables

TimerMax == Byte * Byte - 1
Values == 0 .. TimerMax

\* CRA: START, RUNMODE and INMODE; CRB: INMODE has two bits, of which
\* "phi2" is 00 and "ta" is 10.
Cra == [start : {0, 1}, oneshot : {0, 1}, inmode : {"phi2", "cnt"}]
Crb == [start : {0, 1}, oneshot : {0, 1},
        inmode : {"phi2", "cnt", "ta", "tacnt"}]
\* "other" stands for the alarm and, in CIA-A, the keyboard's serial port; FLG
\* is the disk's index hole in CIA-B, and in CIA-A a write to the printer.
Flags == {"ta", "tb", "other", "flg"}

\* The differences of cycle counts, at most one full count, fit a long.
ASSUME CiaAssumption ==
  /\ Byte \in Nat \ {0} /\ Div \in Nat \ {0}
  /\ Wrap \in Nat /\ Wrap > Div * (TimerMax + 2)
  /\ Los \subseteq 0 .. Byte - 1 /\ His \subseteq 0 .. Byte - 1
  /\ CraValues \subseteq Cra /\ CrbValues \subseteq Crb
  /\ Masks \subseteq SUBSET Flags

VARIABLES
  ta, tb,       \* ciaata, ciaatb, ciabta, ciabtb
  la, lb,       \* the latches ciaala, ciaalb, ...
  cra, crb,     \* the control registers
  icr, ir,      \* the flags of ciaaicr, ciabicr, and bit 7
  imask,        \* ciaaimask, ciabimask
  intreq,       \* per chip, its bit of INTREQ (PORTS, EXTER)
  div10,        \* cycles of the E clock gone at the last update
  elapsed,      \* get_cycles () - eventtab[ev_cia].oldcycles
  active,       \* eventtab[ev_cia].active
  remaining,    \* eventtab[ev_cia].evtime - get_cycles ()
  chip, phase   \* the reference

timerVars == <<ta, tb, cra, crb, icr, ir, intreq>>
latchVars == <<la, lb>>
eventVars == <<div10, elapsed, active, remaining>>
refVars == <<chip, phase>>
vars == <<timerVars, latchVars, imask, eventVars, refVars>>

Stopped == [start |-> 0, oneshot |-> 0, inmode |-> "phi2"]
ChipStopped == [ta |-> TimerMax, tb |-> TimerMax, startA |-> 0, startB |-> 0,
                icr |-> {}]

Init ==
  /\ ta = [c \in Cias |-> TimerMax] /\ tb = [c \in Cias |-> TimerMax]
  /\ la = [c \in Cias |-> TimerMax] /\ lb = [c \in Cias |-> TimerMax]
  /\ cra = [c \in Cias |-> Stopped] /\ crb = [c \in Cias |-> Stopped]
  /\ icr = [c \in Cias |-> {}] /\ ir = [c \in Cias |-> 0]
  /\ imask = [c \in Cias |-> {}] /\ intreq = [c \in Cias |-> 0]
  /\ div10 = 0 /\ elapsed = 0 /\ active = 0 /\ remaining = 0
  /\ chip = [c \in Cias |-> ChipStopped] /\ phase = 0

-----------------------------------------------------------------------------
(* CIA_update: the state of the timers after cc cycles                     *)

\* (cra & 0x21) == 0x01, (crb & 0x61) == 0x01, (crb & 0x61) == 0x41
CountsA(c) == cra[c].start = 1 /\ cra[c].inmode = "phi2"
CountsB(c) == crb[c].start = 1 /\ crb[c].inmode = "phi2"
Chained(c) == crb[c].start = 1 /\ crb[c].inmode = "ta"

\* Timer A underflows on the clock after it reads 0; timer B on its own
\* clocks, or on an underflow of timer A.
OvflA(c, n) == CountsA(c) /\ ta[c] + 1 = n
OvflB(c, n) == \/ CountsB(c) /\ tb[c] + 1 = n
               \/ Chained(c) /\ OvflA(c, n) /\ tb[c] = 0

UpdatedTa(n) ==
  [c \in Cias |-> IF OvflA(c, n) THEN la[c]
                  ELSE IF CountsA(c) THEN ta[c] - n ELSE ta[c]]
UpdatedTb(n) ==
  [c \in Cias |-> IF OvflB(c, n) THEN lb[c]
                  ELSE IF CountsB(c) THEN tb[c] - n
                  ELSE IF Chained(c) /\ OvflA(c, n) THEN tb[c] - 1 ELSE tb[c]]

\* A one-shot timer that has underflowed stops.
UpdatedCra(n) ==
  [c \in Cias |-> IF OvflA(c, n) /\ cra[c].oneshot = 1
                  THEN [cra[c] EXCEPT !.start = 0] ELSE cra[c]]
UpdatedCrb(n) ==
  [c \in Cias |-> IF OvflB(c, n) /\ crb[c].oneshot = 1
                  THEN [crb[c] EXCEPT !.start = 0] ELSE crb[c]]

Raised(c, n) == (IF OvflA(c, n) THEN {"ta"} ELSE {})
                \cup (IF OvflB(c, n) THEN {"tb"} ELSE {})

\* Mutant: the interrupt of timer B is left to the next one.
BadRaise(f) ==
  /\ icr' = [c \in Cias |-> icr[c] \cup f[c]]
  /\ ir' = [c \in Cias |-> IF "ta" \notin f[c] THEN ir[c]
              ELSE IF icr'[c] \cap imask[c] # {} THEN 1 ELSE 0]
  /\ intreq' = [c \in Cias |-> IF "ta" \in f[c] /\ ir'[c] = 1 THEN 1
                               ELSE intreq[c]]

\* Flags f are raised in each chip: RethinkICRA, RethinkICRB.
Raise(f) ==
  /\ icr' = [c \in Cias |-> icr[c] \cup f[c]]
  /\ ir' = [c \in Cias |-> IF f[c] = {} THEN ir[c]
              ELSE IF icr'[c] \cap imask[c] # {} THEN 1 ELSE 0]
  /\ intreq' = [c \in Cias |-> IF f[c] # {} /\ ir'[c] = 1 THEN 1
                               ELSE intreq[c]]

\* ccount, the cycles since the E clock of the last update began.
Ccount == (elapsed + div10) % Wrap

\* What a read of the timer registers returns (compute_passed_time).
ReadTa(c) == IF CountsA(c) THEN ta[c] - Ccount \div Div ELSE ta[c]
ReadTb(c) == IF CountsB(c) THEN tb[c] - Ccount \div Div ELSE tb[c]

-----------------------------------------------------------------------------
(* CIA_calctimers, from the timers and controls of the next state          *)

\* Mutant: timer B is forgotten.
BadDelays(d) ==
  {(Div - d) + Div * ta'[c] : c \in {x \in Cias : CountsA(x)'}}

\* The cycles to the underflow of each timer that counts E clocks, d cycles of
\* the current one being gone.  A chained timer B is left to timer A's event.
Delays(d) ==
  {(Div - d) + Div * ta'[c] : c \in {x \in Cias : CountsA(x)'}}
  \cup {(Div - d) + Div * tb'[c] : c \in {x \in Cias : CountsB(x)'}}

CalcTimers(d) ==
  /\ div10' = d /\ elapsed' = 0
  /\ IF Delays(d) = {} THEN active' = 0 /\ remaining' = 0
                       ELSE active' = 1 /\ remaining' = Min(Delays(d))

-----------------------------------------------------------------------------
(* The reference: an E clock of the chip                                   *)

ChipOvflA(c) == /\ chip[c].startA = 1 /\ cra[c].inmode = "phi2"
                /\ chip[c].ta = 0
ChipPulsesB(c) == /\ chip[c].startB = 1
                  /\ \/ crb[c].inmode = "phi2"
                     \/ crb[c].inmode = "ta" /\ ChipOvflA(c)
ChipOvflB(c) == ChipPulsesB(c) /\ chip[c].tb = 0

ChipClock ==
  [c \in Cias |->
    [ta |-> IF ChipOvflA(c) THEN la[c]
            ELSE IF chip[c].startA = 1 /\ cra[c].inmode = "phi2"
            THEN chip[c].ta - 1 ELSE chip[c].ta,
     tb |-> IF ChipOvflB(c) THEN lb[c]
            ELSE IF ChipPulsesB(c) THEN chip[c].tb - 1 ELSE chip[c].tb,
     startA |-> IF ChipOvflA(c) /\ cra[c].oneshot = 1 THEN 0
                ELSE chip[c].startA,
     startB |-> IF ChipOvflB(c) /\ crb[c].oneshot = 1 THEN 0
                ELSE chip[c].startB,
     icr |-> chip[c].icr \cup (IF ChipOvflA(c) THEN {"ta"} ELSE {})
                         \cup (IF ChipOvflB(c) THEN {"tb"} ELSE {})]]

-----------------------------------------------------------------------------
(* Time                                                                    *)

\* Only while no timer counts E clocks can ccount go through all the values of
\* an unsigned long.  The E clock then starts anew, and what was gone of the
\* last one is lost: the reference follows.
Wraps == Ccount + 1 = Wrap

ReferenceCycle ==
  /\ phase' = IF Wraps THEN 0 ELSE (phase + 1) % Div
  /\ chip' = IF phase + 1 = Div THEN ChipClock ELSE chip

\* do_cycles, a cycle in which ev_cia is not due ...
Cycle ==
  /\ active = 0 \/ remaining > 1
  /\ elapsed' = (elapsed + 1) % Wrap
  /\ remaining' = IF active = 1 THEN remaining - 1 ELSE 0
  /\ ReferenceCycle
  /\ UNCHANGED <<timerVars, latchVars, imask, div10, active>>

\* ... and one in which it is: CIA_handler.
CiaEvent ==
  /\ active = 1 /\ remaining = 1
  /\ LET cc == (elapsed + 1 + div10) % Wrap
         n == cc \div Div
     IN /\ ta' = UpdatedTa(n) /\ tb' = UpdatedTb(n)
        /\ cra' = UpdatedCra(n) /\ crb' = UpdatedCrb(n)
        /\ Raise([c \in Cias |-> Raised(c, n)])
        /\ CalcTimers(cc % Div)
  /\ ReferenceCycle
  /\ UNCHANGED <<latchVars, imask>>

-----------------------------------------------------------------------------
(* The program's accesses (WriteCIAA, WriteCIAB, ReadCIAA, ReadCIAB)       *)

Lo(l, v) == (l \div Byte) * Byte + v
Hi(l, v) == v * Byte + (l % Byte)

\* A write to a timer register or a control register: CIA_update, the write
\* (t, u, a, b: the timers and controls after it), CIA_calctimers.
Written(t, u, a, b, n) ==
  /\ ta' = t /\ tb' = u /\ cra' = a /\ crb' = b
  /\ Raise([c \in Cias |-> Raised(c, n)])
  /\ CalcTimers(Ccount % Div)
  /\ UNCHANGED <<imask, phase>>

\* Cases 4 and 6: the low byte of the latch.
WriteLoA(c, v) ==
  LET n == Ccount \div Div
  IN /\ la' = [la EXCEPT ![c] = Lo(@, v)]
     /\ Written(UpdatedTa(n), UpdatedTb(n), UpdatedCra(n), UpdatedCrb(n), n)
     /\ UNCHANGED <<lb, chip>>

WriteLoB(c, v) ==
  LET n == Ccount \div Div
  IN /\ lb' = [lb EXCEPT ![c] = Lo(@, v)]
     /\ Written(UpdatedTa(n), UpdatedTb(n), UpdatedCra(n), UpdatedCrb(n), n)
     /\ UNCHANGED <<la, chip>>

\* Cases 5 and 7: the high byte; a timer that is stopped or one-shot is
\* loaded, a one-shot one is started.
WriteHiA(c, v) ==
  LET n == Ccount \div Div
      cr == UpdatedCra(n)[c]
      load == cr.start = 0 \/ cr.oneshot = 1
  IN /\ la' = [la EXCEPT ![c] = Hi(@, v)]
     /\ Written([UpdatedTa(n) EXCEPT ![c] = IF load THEN la'[c] ELSE @],
                UpdatedTb(n),
                [UpdatedCra(n) EXCEPT ![c].start = IF cr.oneshot = 1 THEN 1
                                                   ELSE @],
                UpdatedCrb(n), n)
     /\ chip' = [chip EXCEPT
          ![c].ta = IF load THEN la'[c] ELSE @,
          ![c].startA = IF cr.oneshot = 1 THEN 1 ELSE @]
     /\ UNCHANGED lb

WriteHiB(c, v) ==
  LET n == Ccount \div Div
      cr == UpdatedCrb(n)[c]
      load == cr.start = 0 \/ cr.oneshot = 1
  IN /\ lb' = [lb EXCEPT ![c] = Hi(@, v)]
     /\ Written(UpdatedTa(n),
                [UpdatedTb(n) EXCEPT ![c] = IF load THEN lb'[c] ELSE @],
                UpdatedCra(n),
                [UpdatedCrb(n) EXCEPT ![c].start = IF cr.oneshot = 1 THEN 1
                                                   ELSE @], n)
     /\ chip' = [chip EXCEPT
          ![c].tb = IF load THEN lb'[c] ELSE @,
          ![c].startB = IF cr.oneshot = 1 THEN 1 ELSE @]
     /\ UNCHANGED la

\* Mutant: the timers are not brought up to date before the write.
BadWriteCra(c, v, load) ==
  /\ Written([ta EXCEPT ![c] = IF load THEN la[c] ELSE @], tb,
             [cra EXCEPT ![c] = v], crb, 0)
  /\ chip' = [chip EXCEPT ![c].ta = IF load THEN la[c] ELSE @,
                          ![c].startA = v.start]
  /\ UNCHANGED latchVars

\* Cases 14 and 15; LOAD (0x10) is a strobe.
WriteCra(c, v, load) ==
  LET n == Ccount \div Div
  IN /\ Written([UpdatedTa(n) EXCEPT ![c] = IF load THEN la[c] ELSE @],
                UpdatedTb(n), [UpdatedCra(n) EXCEPT ![c] = v],
                UpdatedCrb(n), n)
     /\ chip' = [chip EXCEPT ![c].ta = IF load THEN la[c] ELSE @,
                             ![c].startA = v.start]
     /\ UNCHANGED latchVars

WriteCrb(c, v, load) ==
  LET n == Ccount \div Div
  IN /\ Written(UpdatedTa(n),
                [UpdatedTb(n) EXCEPT ![c] = IF load THEN lb[c] ELSE @],
                UpdatedCra(n), [UpdatedCrb(n) EXCEPT ![c] = v], n)
     /\ chip' = [chip EXCEPT ![c].tb = IF load THEN lb[c] ELSE @,
                             ![c].startB = v.start]
     /\ UNCHANGED latchVars

\* Case 13: a read clears the flags and bit 7; a write sets the mask, and
\* rethinks nothing.
ReadIcr(c) ==
  /\ icr' = [icr EXCEPT ![c] = {}] /\ ir' = [ir EXCEPT ![c] = 0]
  /\ chip' = [chip EXCEPT ![c].icr = {}]
  /\ UNCHANGED <<ta, tb, cra, crb, intreq, latchVars, imask, eventVars, phase>>

WriteMask(c, m) ==
  /\ imask' = [imask EXCEPT ![c] = m]
  /\ UNCHANGED <<timerVars, latchVars, eventVars, refVars>>

\* An interrupt of another source: the disk index, the keyboard, the alarm.
Others(c) == IF c = "A" THEN {"other"} ELSE {"other", "flg"}
RaiseFlag(c, f) ==
  /\ Raise([x \in Cias |-> IF x = c THEN {f} ELSE {}])
  /\ chip' = [chip EXCEPT ![c].icr = @ \cup {f}]
  /\ UNCHANGED <<ta, tb, cra, crb, latchVars, imask, eventVars, phase>>

\* Case 1 of CIA-A, a byte for the printer: FLG is set without RethinkICRA.
WritePrb(c) ==
  /\ c = "A"
  /\ icr' = [icr EXCEPT ![c] = @ \cup {"flg"}]
  /\ chip' = [chip EXCEPT ![c].icr = @ \cup {"flg"}]
  /\ UNCHANGED <<ta, tb, cra, crb, ir, intreq, latchVars, imask, eventVars,
                 phase>>

\* Mutant: rethink_cias is not called.
BadClearIntreq(c) ==
  /\ intreq' = [intreq EXCEPT ![c] = 0]
  /\ UNCHANGED <<ta, tb, cra, crb, icr, ir, latchVars, imask, eventVars,
                 refVars>>

\* INTREQ: the program acknowledges the interrupt; rethink_cias.
ClearIntreq(c) ==
  /\ ir' = [x \in Cias |-> IF icr[x] \cap imask[x] # {} THEN 1 ELSE 0]
  /\ intreq' = [x \in Cias |-> IF ir'[x] = 1 THEN 1
                               ELSE IF x = c THEN 0 ELSE intreq[x]]
  /\ UNCHANGED <<ta, tb, cra, crb, icr, latchVars, imask, eventVars, refVars>>

Access(c) ==
  \/ \E v \in Los : WriteLoA(c, v) \/ WriteLoB(c, v)
  \/ \E v \in His : WriteHiA(c, v) \/ WriteHiB(c, v)
  \/ \E v \in CraValues, load \in BOOLEAN : WriteCra(c, v, load)
  \/ \E v \in CrbValues, load \in BOOLEAN : WriteCrb(c, v, load)
  \/ \E m \in Masks : WriteMask(c, m)
  \/ ReadIcr(c) \/ (\E f \in Others(c) : RaiseFlag(c, f)) \/ WritePrb(c)
  \/ ClearIntreq(c)

\* The machine's reset, with init_eventtab before it; INTREQ stays as it is.
CIA_reset ==
  /\ ta' = [c \in Cias |-> TimerMax] /\ tb' = [c \in Cias |-> TimerMax]
  /\ la' = [c \in Cias |-> TimerMax] /\ lb' = [c \in Cias |-> TimerMax]
  /\ cra' = [c \in Cias |-> Stopped] /\ crb' = [c \in Cias |-> Stopped]
  /\ icr' = [c \in Cias |-> {}] /\ ir' = [c \in Cias |-> 0]
  /\ imask' = [c \in Cias |-> {}]
  /\ CalcTimers(0)
  /\ chip' = [c \in Cias |-> ChipStopped] /\ phase' = 0
  /\ UNCHANGED intreq

Next == Cycle \/ CiaEvent \/ CIA_reset \/ \E c \in Cias : Access(c)

Spec == Init /\ [][Next]_vars

-----------------------------------------------------------------------------
(* Properties                                                              *)

\* Every register has its width (a timer that is taken past its underflow,
\* which the assertions of CIA_update exclude, does not); "all events should
\* lie in the future".
TypeOK ==
  /\ ta \in [Cias -> Values] /\ tb \in [Cias -> Values]
  /\ la \in [Cias -> Values] /\ lb \in [Cias -> Values]
  /\ cra \in [Cias -> Cra] /\ crb \in [Cias -> Crb]
  /\ icr \in [Cias -> SUBSET Flags] /\ imask \in [Cias -> SUBSET Flags]
  /\ ir \in [Cias -> {0, 1}] /\ intreq \in [Cias -> {0, 1}]
  /\ div10 \in 0 .. Div - 1 /\ elapsed \in 0 .. Wrap - 1
  /\ active \in {0, 1} /\ remaining \in 0 .. Wrap - 1
  /\ active = 1 <=> remaining > 0

\* The program cannot tell the timers from ones that count every E clock:
\* what it reads, when they stop and when their flags come.  The E clock is
\* regular, but for a wrap of the count of cycles while no timer counts.
TimersExact ==
  /\ \A c \in Cias : /\ ReadTa(c) = chip[c].ta /\ ReadTb(c) = chip[c].tb
                     /\ cra[c].start = chip[c].startA
                     /\ crb[c].start = chip[c].startB
                     /\ icr[c] = chip[c].icr
  /\ Ccount % Div = phase

\* While bit 7 of a chip's ICR is set, so is its bit of INTREQ: the program
\* cannot acknowledge the interrupt to Paula before it has read the ICR.
LevelTriggered == \A c \in Cias : ir[c] = 1 => intreq[c] = 1

\* A flag that comes while its interrupt is enabled requests the interrupt at
\* once, but for CIA-A's FLG, which WriteCIAA sets without RethinkICRA.  That
\* one too is requested when the program next acknowledges: INTREQ's bit is
\* never taken away while an enabled flag is set.
Late(c) == IF c = "A" THEN {"flg"} ELSE {}
InterruptInTime ==
  [][\A c \in Cias :
       /\ ((icr'[c] \ icr[c]) \ Late(c)) \cap imask[c] # {} => intreq'[c] = 1
       /\ intreq[c] = 1 /\ icr'[c] \cap imask'[c] # {} => intreq'[c] = 1]_vars

\* The chips' state, and that an enabled flag keeps requesting its interrupt.
Inv == TypeOK /\ LevelTriggered
=============================================================================
