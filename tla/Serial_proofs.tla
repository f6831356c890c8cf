--------------------------- MODULE Serial_proofs ----------------------------
(***************************************************************************)
(* Theorems about interrupt requests and the serial port (Interrupts,      *)
(* Serial): whatever the sources, their levels and the program.            *)
(***************************************************************************)
EXTENDS Serial, TLAPS

-----------------------------------------------------------------------------
(* intlev                                                                  *)

\* A nonempty set of levels has a greatest member, so that IntLev is at least
\* the level of every interrupt that could be taken.
LEMMA MaxLevel ==
  ASSUME NEW S \in SUBSET (1 .. 6), NEW x \in S
  PROVE  Max(S) \in S /\ Max(S) >= x
<1>1. \E m \in S : \A y \in S : m >= y
  <2>1. CASE 6 \in S
    BY <2>1
  <2>2. CASE 6 \notin S /\ 5 \in S
    BY <2>2
  <2>3. CASE S \subseteq 1 .. 4 /\ 4 \in S
    BY <2>3
  <2>4. CASE S \subseteq 1 .. 3 /\ 3 \in S
    BY <2>4
  <2>5. CASE S \subseteq 1 .. 2 /\ 2 \in S
    BY <2>5
  <2>6. CASE S \subseteq 1 .. 1
    BY <2>6
  <2> QED
    BY <2>1, <2>2, <2>3, <2>4, <2>5, <2>6
<1>2. \A y \in S : Max(S) >= y /\ Max(S) \in S
  BY <1>1 DEF Max
<1> QED
  BY <1>2

LEMMA IntLevRange ==
  ASSUME IntTypeOK
  PROVE  IntLev \in -1 .. 6
<1> DEFINE asked == {Level[s] : s \in intreq \cap intena}
<1>1. asked \in SUBSET (1 .. 6)
  BY InterruptsAssumption DEF IntTypeOK
<1>2. CASE asked = {}
  BY <1>2 DEF IntLev
<1>3. CASE asked # {}
  <2>1. PICK x \in asked : TRUE
    BY <1>3
  <2>2. Max(asked) \in asked
    BY <1>1, <2>1, MaxLevel
  <2> QED
    BY <1>1, <2>2 DEF IntLev
<1> QED
  BY <1>2, <1>3

LEMMA IntLevDue ==
  ASSUME IntTypeOK, NEW s \in Sources, s \in intreq \cap intena,
         Inten \in intena
  PROVE  IntLev >= Level[s]
<1> DEFINE asked == {Level[t] : t \in intreq \cap intena}
<1>1. asked \in SUBSET (1 .. 6)
  BY InterruptsAssumption DEF IntTypeOK
<1>2. Level[s] \in asked
  OBVIOUS
<1>3. Max(asked) >= Level[s]
  BY <1>1, <1>2, MaxLevel
<1> QED
  BY <1>2, <1>3 DEF IntLev

-----------------------------------------------------------------------------
(* Types                                                                   *)

LEMMA InitTypeOK == Init => TypeOK
<1> SUFFICES ASSUME Init PROVE TypeOK
  OBVIOUS
<1> QED
  BY InterruptsAssumption, SerialAssumption
     DEF Init, Opened, IntInit, TypeOK, IntTypeOK, Flags, Places

LEMMA FinishType ==
  ASSUME NEW f \in SUBSET Flags, Finish(f)
  PROVE  flags' \subseteq Flags /\ at' \in Places
BY DEF Finish, Flags, Places

LEMMA NextTypeOK == TypeOK /\ [Next]_vars => TypeOK'
<1> SUFFICES ASSUME TypeOK, [Next]_vars PROVE TypeOK'
  OBVIOUS
<1> USE DEF TypeOK, IntTypeOK
<1>v. CASE UNCHANGED vars
  BY <1>v DEF vars, intVars, paulaVars, cpuVars, serVars, inVars, lineVars
<1>1. CASE IntInsn /\ UNCHANGED serVars
  <2> USE <1>1, InterruptsAssumption DEF serVars, inVars, lineVars
  <2>1. CASE Compute
    BY <2>1 DEF Compute, Insn, paulaVars, Places
  <2>2. ASSUME NEW set \in BOOLEAN, NEW v \in EnableSets, WriteIntena(set, v)
        PROVE  TypeOK'
    BY <2>2 DEF WriteIntena, Insn, INTENA, Setclr, Places, Flags
  <2>3. ASSUME NEW set \in BOOLEAN, NEW s \in Sources, WriteIntreq(set, s)
        PROVE  TypeOK'
    BY <2>3 DEF WriteIntreq, Insn, INTREQ, Setclr, Places, Flags
  <2>4. ASSUME NEW s \in CiaSources, ReadIcr(s)
        PROVE  TypeOK'
    BY <2>4 DEF ReadIcr, Insn, paulaVars, Places
  <2>5. ASSUME NEW m \in Masks, WriteSR(m) \/ Stop(m)
        PROVE  TypeOK'
    BY <2>5 DEF WriteSR, Stop, Insn, paulaVars, Places, Flags
  <2> QED
    BY <1>1, <2>1, <2>2, <2>3, <2>4, <2>5 DEF IntInsn
<1>2. CASE SERDAT
  BY <1>2, SerialAssumption
     DEF SERDAT, Insn, inVars, lineVars, Places
<1>3. CASE SERDATR
  BY <1>3 DEF SERDATR, Insn, paulaVars, lineVars, Places
<1>4. ASSUME NEW on \in {0, 1}, Dtr(on)
      PROVE  TypeOK'
  BY <1>4 DEF Dtr, Opened, Insn, paulaVars, inVars, Places
<1>5. CASE IntEvent /\ UNCHANGED serVars
  <2> USE <1>5, InterruptsAssumption DEF serVars, inVars, lineVars
  <2>1. ASSUME NEW s \in CiaSources, CiaRaises(s)
        PROVE  TypeOK'
    BY <2>1 DEF CiaRaises, Flags
  <2>2. ASSUME NEW s \in Sources \ SerialSources, DeviceRaises(s)
        PROVE  TypeOK'
    BY <2>2 DEF DeviceRaises, INTREQ, Setclr, Flags
  <2> QED
    BY <1>5, <2>1, <2>2 DEF IntEvent
<1>6. CASE Hsync
  <2> USE <1>6 DEF Hsync, cpuVars, lineVars
  <2>1. CASE AskAgain
    BY <2>1, SerialAssumption DEF AskAgain, inVars
  <2>2. CASE Receive
    BY <2>2, SerialAssumption DEF Receive
  <2>3. CASE NothingToRead
    BY <2>3 DEF NothingToRead, inVars
  <2> QED
    BY <2>1, <2>2, <2>3
<1>7. ASSUME NEW redraw \in BOOLEAN, Vsync(redraw)
      PROVE  TypeOK'
  <2>1. IntTypeOK'
    <3>1. flags' \subseteq Flags /\ UNCHANGED <<intena, intmask, at, held>>
      BY <1>7 DEF Vsync, IntVsync, VsyncQuit, Flags
    <3>2. intreq' \subseteq Sources
      BY <1>7, InterruptsAssumption DEF Vsync, IntVsync
    <3>3. quit' = quit \/ (quit < 0 /\ quit' = -quit)
      BY <1>7 DEF Vsync, IntVsync, VsyncQuit
    <3>4. quit' \in {-2, -1, 0, 1, 2}
      BY <3>3
    <3> QED
      BY <3>1, <3>2, <3>4
  <2>2. taken' \in 0 .. fetched' /\ UNCHANGED <<fetched, data, got, waitqueue>>
    BY <1>7 DEF Vsync, Flush, inVars
  <2>3. outlast' \in 0 .. OutSize - 1 /\ doreadser' \in {0, 1}
    BY <1>7, SerialAssumption DEF Vsync, Flush, inVars
  <2>4. taken' >= taken
    BY <1>7 DEF Vsync, Flush, inVars
  <2> QED
    BY <1>7, <2>1, <2>2, <2>3, <2>4 DEF Vsync, lineVars
<1>8. CASE (CpuStep \/ UaeQuit \/ UaeReset) /\ UNCHANGED serVars
  <2> USE <1>8 DEF serVars, inVars, lineVars
  <2>0. Taken => IntLev \in 0 .. 7
    BY IntLevRange DEF Taken
  <2>1. CASE CyclesDone
    BY <2>1, <2>0, FinishType DEF CyclesDone, Take, paulaVars, Flags
  <2>2. CASE Stopped
    BY <2>2 DEF Stopped, paulaVars, Places
  <2>3. CASE StopEnds
    BY <2>3, <2>0, FinishType DEF StopEnds, Take, paulaVars, Flags
  <2>4. CASE StopGoesOn
    BY <2>4 DEF StopGoesOn, paulaVars
  <2>5. CASE IntGoOn \/ IntQuit
    BY <2>5 DEF IntGoOn, IntQuit, paulaVars, Places
  <2>6. CASE UaeQuit \/ UaeReset
    BY <2>6 DEF UaeQuit, UaeReset, paulaVars, cpuVars
  <2> QED
    BY <1>8, <2>1, <2>2, <2>3, <2>4, <2>5, <2>6 DEF CpuStep
<1>9. CASE Reset
  BY <1>9 DEF Reset, IntReset, inVars, Places
<1> QED
  BY <1>v, <1>1, <1>2, <1>3, <1>4, <1>5, <1>6, <1>7, <1>8, <1>9
     DEF Next, Program

\* Every variable of the interrupt logic and of the serial port stays in its
\* range; in particular a byte is read from inbuf only after it came from the
\* tty, and outlast stays within outbuf (serial.c: SERDAT's flush).
THEOREM TypeCorrect == Spec => []TypeOK
<1> QED
  BY InitTypeOK, NextTypeOK, PTL DEF Spec

-----------------------------------------------------------------------------
(* No interrupt is forgotten                                               *)

\* The end of do_specialties keeps SPCFLAG_INT in another form.
LEMMA FinishRemembers ==
  ASSUME NEW f \in SUBSET Flags, "INT" \in f, Finish(f)
  PROVE  flags' = {"DOINT"}
BY DEF Finish

\* An interrupt that is due is above the mask.
LEMMA DueTaken ==
  ASSUME TypeOK, NEW s \in Sources, Due(s)
  PROVE  Taken
<1>1. IntLev >= Level[s]
  BY IntLevDue DEF Due, TypeOK
<1>2. Level[s] > intmask /\ Level[s] \in 1 .. 6 /\ intmask \in 0 .. 7
  BY InterruptsAssumption DEF Due, TypeOK, IntTypeOK
<1>3. IntLev \in -1 .. 6
  BY IntLevRange DEF TypeOK
<1> QED
  BY <1>1, <1>2, <1>3 DEF Taken

\* A step that leaves the mask alone, sets no enable bit and makes no request
\* but the serial port's makes no other interrupt due.
LEMMA NotNewlyDue ==
  ASSUME NEW s \in Sources \ SerialSources, Due(s)',
         intreq' \ intreq \subseteq SerialSources, intena' \subseteq intena,
         UNCHANGED intmask
  PROVE  Due(s)
BY DEF Due

LEMMA NextNoLost ==
  TypeOK /\ NoLostInterrupt /\ [Next]_vars => NoLostInterrupt'
<1> SUFFICES ASSUME TypeOK, NoLostInterrupt, [Next]_vars,
                    NEW s \in Sources \ SerialSources, Due(s)'
             PROVE  flags' \cap {"INT", "DOINT"} # {}
  BY DEF NoLostInterrupt
<1>f. flags \subseteq Flags
  BY DEF TypeOK, IntTypeOK
<1>q. ASSUME intreq' \ intreq \subseteq SerialSources,
             intena' \subseteq intena, UNCHANGED <<intmask, flags>>
      PROVE  flags' \cap {"INT", "DOINT"} # {}
  <2>1. Due(s)
    BY <1>q, NotNewlyDue
  <2> QED
    BY <1>q, <2>1 DEF NoLostInterrupt
<1>v. CASE UNCHANGED vars
  BY <1>v, <1>q DEF vars, intVars, paulaVars, cpuVars
<1>1. CASE IntInsn
  <2>1. CASE Compute
    BY <2>1, <1>q DEF Compute, paulaVars
  <2>2. ASSUME NEW set \in BOOLEAN, NEW v \in EnableSets, WriteIntena(set, v)
        PROVE  flags' \cap {"INT", "DOINT"} # {}
    <3>1. CASE set
      BY <2>2, <3>1 DEF WriteIntena, INTENA
    <3>2. CASE ~set
      BY <2>2, <3>2, <1>q DEF WriteIntena, INTENA, Setclr
    <3> QED
      BY <3>1, <3>2
  <2>3. ASSUME NEW set \in BOOLEAN, NEW t \in Sources, WriteIntreq(set, t)
        PROVE  flags' \cap {"INT", "DOINT"} # {}
    BY <2>3 DEF WriteIntreq, INTREQ
  <2>4. ASSUME NEW t \in CiaSources, ReadIcr(t)
        PROVE  flags' \cap {"INT", "DOINT"} # {}
    BY <2>4, <1>q DEF ReadIcr, paulaVars
  <2>5. ASSUME NEW m \in Masks, WriteSR(m) \/ Stop(m)
        PROVE  flags' \cap {"INT", "DOINT"} # {}
    BY <2>5 DEF WriteSR, Stop
  <2> QED
    BY <1>1, <2>1, <2>2, <2>3, <2>4, <2>5 DEF IntInsn
<1>2. CASE SERDAT
  BY <1>2, <1>q DEF SERDAT, SerialSources
<1>3. CASE SERDATR
  BY <1>3, <1>q DEF SERDATR, paulaVars
<1>4. ASSUME NEW on \in {0, 1}, Dtr(on)
      PROVE  flags' \cap {"INT", "DOINT"} # {}
  BY <1>4, <1>q DEF Dtr, paulaVars
<1>5. CASE IntEvent
  BY <1>5 DEF IntEvent, CiaRaises, DeviceRaises, INTREQ
<1>6. CASE Hsync
  <2>1. intreq' \ intreq \subseteq SerialSources
    BY <1>6 DEF Hsync, AskAgain, Receive, NothingToRead, SerialSources
  <2> QED
    BY <1>6, <2>1, <1>q DEF Hsync, cpuVars
<1>7. ASSUME NEW redraw \in BOOLEAN, Vsync(redraw)
      PROVE  flags' \cap {"INT", "DOINT"} # {}
  BY <1>7 DEF Vsync, IntVsync, VsyncQuit
<1>8. CASE CyclesDone
  <2>1. CASE "DOINT" \in flags /\ Taken
    <3>1. Finish(flags \cup {"INT"})
      BY <1>8, <2>1 DEF CyclesDone
    <3> QED
      BY <3>1, <1>f, FinishRemembers DEF Flags
  <2>2. CASE ~("DOINT" \in flags /\ Taken)
    <3>1. Finish(flags) /\ UNCHANGED <<intreq, intena, intmask>>
      BY <1>8, <2>2 DEF CyclesDone, paulaVars
    <3>2. Due(s)
      BY <3>1 DEF Due
    <3>3. "DOINT" \notin flags
      BY <2>2, <3>2, DueTaken
    <3>4. "INT" \in flags
      BY <3>2, <3>3 DEF NoLostInterrupt
    <3> QED
      BY <3>1, <3>4, <1>f, FinishRemembers
  <2> QED
    BY <2>1, <2>2
<1>9. CASE Stopped
  BY <1>9, <1>q DEF Stopped, paulaVars
<1>10. CASE StopEnds
  <2>1. Finish((flags \ {"DOINT"}) \cup {"INT"})
    BY <1>10 DEF StopEnds
  <2> QED
    BY <2>1, <1>f, FinishRemembers DEF Flags
<1>11. CASE StopGoesOn
  <2>1. Due(s) /\ ~Taken
    BY <1>11 DEF StopGoesOn, paulaVars, Due
  <2> QED
    BY <2>1, DueTaken
<1>12. CASE IntGoOn \/ IntQuit \/ UaeQuit \/ UaeReset
  BY <1>12, <1>q DEF IntGoOn, IntQuit, UaeQuit, UaeReset, paulaVars, cpuVars
<1>13. CASE Reset
  BY <1>13 DEF Reset, IntReset, Due
<1> QED
  BY <1>v, <1>1, <1>2, <1>3, <1>4, <1>5, <1>6, <1>7, <1>8, <1>9, <1>10,
     <1>11, <1>12, <1>13
     DEF Next, Program, CpuStep

\* Whatever devices, levels and programs there are, an interrupt that is
\* enabled, requested and above the mask is never without a flag that makes
\* the loop look at it (custom.c: INTREQ, INTENA; newcpu.c: do_specialties,
\* MakeFromSR).  The serial port's are excepted: serial.c sets no flag.
THEOREM NoLost == Spec => []NoLostInterrupt
<1>1. Init => NoLostInterrupt
  BY DEF Init, IntInit, NoLostInterrupt, Due
<1> QED
  BY <1>1, NextNoLost, TypeCorrect, PTL DEF Spec

-----------------------------------------------------------------------------
(* Bytes received                                                          *)

\* While no byte waits, the last one has been read.
ReadInv == waitqueue = 0 => got = data

LEMMA NextReadInv == TypeOK /\ ReadInv /\ [Next]_vars => ReadInv'
<1> SUFFICES ASSUME TypeOK, ReadInv, [Next]_vars PROVE ReadInv'
  OBVIOUS
<1>1. CASE UNCHANGED <<data, got, waitqueue>>
  BY <1>1 DEF ReadInv
<1>2. CASE SERDATR
  BY <1>2 DEF SERDATR, ReadInv
<1>3. CASE Hsync
  <2>1. CASE Receive
    BY <2>1 DEF Receive, ReadInv
  <2>2. CASE AskAgain \/ NothingToRead
    BY <2>2, <1>1 DEF AskAgain, NothingToRead, inVars
  <2> QED
    BY <1>3, <2>1, <2>2 DEF Hsync
<1> QED
  BY <1>1, <1>2, <1>3
     DEF Next, Program, SERDAT, Dtr, Vsync, Flush, Reset, serVars, inVars, vars

\* The byte in SERDATR is replaced only after the program has read it
\* (serial.c: SERDATS returns while waitqueue is set).
THEOREM ByteIsKept == Spec => ByteKept
<1>1. Init => ReadInv
  BY DEF Init, ReadInv
<1>2. ReadInv /\ [Next]_vars => [data' # data => got = data]_vars
  <2> SUFFICES ASSUME ReadInv, [Next]_vars, data' # data PROVE got = data
    OBVIOUS
  <2>1. CASE UNCHANGED data
    BY <2>1
  <2>2. CASE Hsync
    BY <2>2
       DEF Hsync, AskAgain, Receive, NothingToRead, ReceiveGuard, inVars,
           ReadInv
  <2> QED
    BY <2>1, <2>2
       DEF Next, Program, SERDAT, SERDATR, Dtr, Vsync, Flush, Reset, serVars,
           inVars, vars
<1> QED
  BY <1>1, <1>2, NextReadInv, TypeCorrect, PTL DEF Spec, ByteKept
=============================================================================
