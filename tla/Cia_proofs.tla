----------------------------- MODULE Cia_proofs -----------------------------
(***************************************************************************)
(* Theorems about the CIA timers (Cia), for any number of chips, width of  *)
(* the registers, length of the E clock and values the program writes.     *)
(***************************************************************************)
EXTENDS Cia, FiniteSetTheorems, TLAPS

-----------------------------------------------------------------------------
(* The inductive invariant.                                                *)

ChipType ==
  /\ chip \in [Cias -> [ta : Values, tb : Values, startA : {0, 1},
                        startB : {0, 1}, icr : SUBSET Flags]]
  /\ phase \in 0 .. Div - 1

\* The event lies at the end of E clock k + 1 since the last update, and no
\* timer that counts E clocks holds less than k then.
Scheduled ==
  /\ active = 0 => \A c \in Cias : ~CountsA(c) /\ ~CountsB(c)
  /\ active = 1 => \E k \in Values :
       /\ elapsed + div10 + remaining = Div * (k + 1)
       /\ \A c \in Cias : /\ CountsA(c) => k <= ta[c]
                          /\ CountsB(c) => k <= tb[c]

IInv == TypeOK /\ LevelTriggered /\ TimersExact /\ ChipType /\ Scheduled

-----------------------------------------------------------------------------
(* Arithmetic.                                                             *)

\* A set of naturals has a least element: CIA_calctimers finds the next of
\* the underflows however many timers count.
LEMMA WellOrdered ==
  ASSUME NEW S, S \subseteq Nat, S # {}
  PROVE  \E m \in S : \A x \in S : m <= x
<1> DEFINE T == {0 .. k : k \in S}
<1>1. T \subseteq FiniteSubsetsOf(Nat)
  <2> SUFFICES ASSUME NEW k \in S PROVE 0 .. k \in FiniteSubsetsOf(Nat)
    OBVIOUS
  <2>1. IsFiniteSet(0 .. k)
    BY FS_Interval
  <2> QED
    BY <2>1 DEF FiniteSubsetsOf
<1>2. T # {}
  OBVIOUS
<1>3. PICK U \in T : \A V \in T : <<V, U>> \notin StrictSubsetOrdering(Nat)
  BY <1>1, <1>2, FS_StrictSubsetOrderingWellFounded, WFMin
<1>4. PICK m \in S : U = 0 .. m
  OBVIOUS
<1>5. ASSUME NEW x \in S, x < m PROVE FALSE
  <2>1. 0 .. x \in T /\ 0 .. x \subseteq 0 .. m /\ 0 .. x # 0 .. m
    BY <1>5
  <2>2. <<0 .. x, 0 .. m>> \in (SUBSET Nat) \X (SUBSET Nat)
    OBVIOUS
  <2>3. <<0 .. x, 0 .. m>> \in StrictSubsetOrdering(Nat)
    BY <2>1, <2>2 DEF StrictSubsetOrdering
  <2> QED
    BY <1>3, <1>4, <2>1, <2>3
<1> QED
  BY <1>5

\* The event is scheduled for the first of the underflows CIA_calctimers finds.
LEMMA MinOf ==
  ASSUME NEW S, S \subseteq Nat, S # {}
  PROVE  Min(S) \in S /\ \A x \in S : Min(S) <= x
<1> DEFINE P(x) == x \in S /\ \A y \in S : x <= y
<1>1. \E x : P(x)
  BY WellOrdered
<1>2. P(CHOOSE x : P(x))
  BY <1>1, Zenon
<1>3. Min(S) = CHOOSE x : P(x)
  BY Zenon DEF Min
<1> QED
  BY <1>2, <1>3, Zenon

\* Quotient and remainder of a count of cycles by the length of a clock.
LEMMA DivModUnique ==
  ASSUME NEW b \in Nat \ {0}, NEW q \in Nat, NEW r \in 0 .. b - 1
  PROVE  (b * q + r) \div b = q /\ (b * q + r) % b = r
BY SMT

\* What CIA_update computes from ccount: whole E clocks and the cycles left.
LEMMA DivMod ==
  ASSUME NEW a \in Nat, NEW b \in Nat \ {0}
  PROVE  a \div b \in Nat /\ a % b \in 0 .. b - 1 /\ a = b * (a \div b) + (a % b)
BY SMT

\* A count below the modulus is its own remainder.
LEMMA ModSmall ==
  ASSUME NEW b \in Nat \ {0}, NEW r \in 0 .. b - 1
  PROVE  r % b = r /\ r \div b = 0
<1>1. r = b * 0 + r
  OBVIOUS
<1> QED
  BY <1>1, DivModUnique

\* Products keep the order of the clocks.
LEMMA ClockBefore ==
  ASSUME NEW b \in Nat \ {0}, NEW q \in Nat, NEW m \in Nat,
         NEW r \in 0 .. b - 1, b * q + r < b * (m + 1)
  PROVE  q <= m
BY SMT

\* A byte written to a timer register leaves the latch in its range.
LEMMA LatchType ==
  ASSUME NEW l \in Values, NEW v \in 0 .. Byte - 1
  PROVE  Lo(l, v) \in Values /\ Hi(l, v) \in Values
<1>1. Byte \in Nat \ {0} /\ l \in Nat /\ v \in Nat /\ l < Byte * Byte
  BY CiaAssumption DEF Values, TimerMax
<1>2. PICK q \in Nat, r \in 0 .. Byte - 1 :
        l = Byte * q + r /\ q = l \div Byte /\ r = l % Byte
  BY <1>1, DivMod
<1>3. q <= Byte - 1
  <2>1. Byte * q + r < Byte * ((Byte - 1) + 1) /\ Byte - 1 \in Nat
    BY <1>1, <1>2
  <2> QED
    BY <1>1, <2>1, ClockBefore
<1>4. \A x, y \in 0 .. Byte - 1 : x * Byte + y \in 0 .. Byte * Byte - 1
  <2> SUFFICES ASSUME NEW x \in 0 .. Byte - 1, NEW y \in 0 .. Byte - 1
               PROVE  x * Byte + y \in 0 .. Byte * Byte - 1
    OBVIOUS
  <2>1. x * Byte <= (Byte - 1) * Byte
    BY <1>1
  <2>2. (Byte - 1) * Byte = Byte * Byte - Byte /\ x * Byte >= 0
    BY <1>1
  <2> QED
    BY <1>1, <2>1, <2>2
<1> QED
  BY <1>1, <1>2, <1>3, <1>4 DEF Lo, Hi, Values, TimerMax

-----------------------------------------------------------------------------
(* The schedule.                                                           *)

\* E clocks since the last update.
Clocks == Ccount \div Div

\* While timers count, the clock of the event is not reached and ccount does
\* not wrap: no timer is further behind than its value.
LEMMA Behind ==
  ASSUME IInv
  PROVE  /\ Clocks \in Nat /\ phase \in 0 .. Div - 1
         /\ phase = Ccount % Div /\ Ccount = Div * Clocks + phase
         /\ Ccount \in 0 .. Wrap - 1
         /\ \A c \in Cias : /\ CountsA(c) => Clocks <= ta[c]
                            /\ CountsB(c) => Clocks <= tb[c]
<1> USE CiaAssumption
<1>1. Div \in Nat \ {0} /\ Wrap \in Nat \ {0} /\ TimerMax + 2 \in Nat
      /\ Div * (TimerMax + 2) < Wrap /\ Div * (TimerMax + 2) \in Nat
  BY DEF TimerMax
<1>2. TypeOK /\ Ccount % Div = phase /\ phase \in 0 .. Div - 1 /\ Scheduled
  BY DEF IInv, TimersExact, ChipType
<1>3. Ccount \in 0 .. Wrap - 1
  <2>1. elapsed + div10 \in Nat
    BY <1>2 DEF TypeOK
  <2> QED
    BY <1>1, <2>1, DivMod DEF Ccount
<1>4. Clocks \in Nat /\ Ccount = Div * Clocks + phase
  <2>1. Ccount \in Nat
    BY <1>1, <1>3
  <2>2. /\ Ccount \div Div \in Nat
        /\ Ccount = Div * (Ccount \div Div) + (Ccount % Div)
    BY <1>1, <2>1, DivMod
  <2> QED
    BY <1>2, <2>2, Zenon DEF Clocks
<1>5. ASSUME NEW c \in Cias, CountsA(c) \/ CountsB(c)
      PROVE  /\ CountsA(c) => Clocks <= ta[c]
             /\ CountsB(c) => Clocks <= tb[c]
  <2>1. active = 1 /\ remaining > 0 /\ remaining \in Nat
        /\ elapsed \in Nat /\ div10 \in Nat
    BY <1>2, <1>5 DEF TypeOK, Scheduled
  <2>2. PICK k \in Values :
          /\ elapsed + div10 + remaining = Div * (k + 1)
          /\ CountsA(c) => k <= ta[c]
          /\ CountsB(c) => k <= tb[c]
    BY <1>2, <2>1 DEF Scheduled
  <2>3. k \in Nat /\ ta[c] \in Nat /\ tb[c] \in Nat /\ k <= TimerMax
    BY <1>2 DEF TypeOK, Values, TimerMax
  <2>4. elapsed + div10 < Div * (k + 1)
    BY <2>1, <2>2, <2>3, <1>1
  <2>5. Div * (k + 1) <= Div * (TimerMax + 2)
    BY <1>1, <2>3 DEF TimerMax
  <2>6. elapsed + div10 \in 0 .. Wrap - 1
    <3>1. Div * (k + 1) \in Nat
      BY <1>1, <2>3
    <3> QED
      BY <1>1, <2>1, <2>4, <2>5, <3>1
  <2>7. Ccount = elapsed + div10
    BY <1>1, <2>6, ModSmall DEF Ccount
  <2>8. Clocks <= k
    BY <1>1, <1>2, <1>4, <2>3, <2>4, <2>7, ClockBefore
  <2> QED
    BY <1>4, <2>2, <2>3, <2>8
<1>6. ASSUME NEW c \in Cias
      PROVE  /\ CountsA(c) => Clocks <= ta[c]
             /\ CountsB(c) => Clocks <= tb[c]
  BY <1>5
<1> QED
  BY <1>2, <1>3, <1>4, <1>6

\* The chips' timers are those of the registers, as after an update.
Synced ==
  \A c \in Cias :
    /\ chip[c].ta = ta[c] /\ chip[c].tb = tb[c]
    /\ chip[c].startA = cra[c].start /\ chip[c].startB = crb[c].start
    /\ chip[c].icr = icr[c]

TimersType ==
  /\ ta \in [Cias -> Values] /\ tb \in [Cias -> Values]
  /\ la \in [Cias -> Values] /\ lb \in [Cias -> Values]
  /\ cra \in [Cias -> Cra] /\ crb \in [Cias -> Crb]
  /\ icr \in [Cias -> SUBSET Flags] /\ imask \in [Cias -> SUBSET Flags]
  /\ ir \in [Cias -> {0, 1}] /\ intreq \in [Cias -> {0, 1}]

\* After an update in the phase the chips are in, CIA_calctimers schedules
\* the event so that it comes before any timer is further behind.
LEMMA CalcInv ==
  ASSUME NEW d \in 0 .. Div - 1, phase' = d, CalcTimers(d),
         TimersType', LevelTriggered', Synced', ChipType'
  PROVE  IInv'
<1> DEFINE D == Delays(d)
<1>0. Div \in Nat \ {0} /\ d \in 0 .. Div - 1 /\ d \in Nat
  BY CiaAssumption DEF ChipType
<1>1. Div \in Nat \ {0} /\ Wrap \in Nat \ {0} /\ TimerMax + 2 \in Nat
      /\ Div * (TimerMax + 2) < Wrap /\ Div * (TimerMax + 2) \in Nat
      /\ d \in 0 .. Div - 1 /\ Div <= Div * (TimerMax + 2)
  BY CiaAssumption DEF TimerMax, ChipType
<1>2. div10' = d /\ elapsed' = 0
  BY DEF CalcTimers
<1>3. Ccount' = d /\ d % Div = d /\ d \div Div = 0
  <2>1. d \in 0 .. Wrap - 1
    BY <1>1
  <2>2. d % Wrap = d
    BY <1>1, <2>1, ModSmall
  <2>3. d % Div = d /\ d \div Div = 0
    BY <1>1, ModSmall
  <2>4. 0 + d = d
    BY <1>0
  <2>5. Ccount' = d
    BY <1>2, <2>2, <2>4 DEF Ccount
  <2> QED
    BY <2>3, <2>5
<1>4. TimersExact'
  BY <1>3, CiaAssumption DEF TimersExact, Synced, ReadTa, ReadTb, TimersType, Values, TimerMax
<1>5. \A k \in Values : (Div - d) + Div * k \in 1 .. Wrap - 1
  <2> SUFFICES ASSUME NEW k \in Values
               PROVE  (Div - d) + Div * k \in 1 .. Wrap - 1
    OBVIOUS
  <2>1. k \in Nat /\ k <= TimerMax
    BY CiaAssumption DEF Values, TimerMax
  <2>2. Div * k >= 0 /\ Div * k + Div <= Div * (TimerMax + 2)
        /\ Div * k \in Nat
    <3>1. TimerMax \in Nat
      BY CiaAssumption DEF TimerMax
    <3>2. Div * k <= Div * TimerMax /\ Div * k \in Nat /\ Div * TimerMax \in Nat
      BY <1>0, <2>1, <3>1
    <3>3. Div * (TimerMax + 2) = Div * TimerMax + Div + Div
      BY <1>0, <3>1
    <3> QED
      BY <1>0, <3>2, <3>3
  <2> QED
    BY <1>1, <2>2
<1>6. CASE D = {}
  <2>1. active' = 0 /\ remaining' = 0
    BY <1>6 DEF CalcTimers
  <2>2. \A c \in Cias : ~CountsA(c)' /\ ~CountsB(c)'
    BY <1>6 DEF Delays
  <2>3. Scheduled'
    BY <2>1, <2>2 DEF Scheduled
  <2>4. TypeOK'
    BY <1>1, <1>2, <2>1 DEF TypeOK, TimersType
  <2> QED
    BY <1>4, <2>3, <2>4 DEF IInv
<1>7. CASE D # {}
  <2>1. active' = 1 /\ remaining' = Min(D)
    BY <1>7 DEF CalcTimers
  <2>2. \A x \in D : \E k \in Values : x = (Div - d) + Div * k
    BY DEF Delays, TimersType
  <2>3. D \subseteq Nat
    BY <1>5, <2>2
  <2>4. Min(D) \in D /\ \A x \in D : Min(D) <= x
    BY <1>7, <2>3, MinOf
  <2>5. PICK k \in Values : remaining' = (Div - d) + Div * k
    BY <2>1, <2>2, <2>4
  <2>6. ASSUME NEW c \in Cias
        PROVE  (CountsA(c) => k <= ta[c])' /\ (CountsB(c) => k <= tb[c])'
    <3>1. \A x \in Values : (Div - d) + Div * k <= (Div - d) + Div * x => k <= x
      <4> SUFFICES ASSUME NEW x \in Values,
                          (Div - d) + Div * k <= (Div - d) + Div * x
                   PROVE  k <= x
        OBVIOUS
      <4>1. k \in Nat /\ x \in Nat /\ Div * k \in Nat /\ Div * x \in Nat
        BY <1>0, CiaAssumption DEF Values, TimerMax
      <4>2. Div * k + 0 < Div * (x + 1)
        <5>1. Div * (x + 1) = Div * x + Div
          BY <1>1, <4>1
        <5>2. Div * k <= Div * x
          BY <1>0, <4>1
        <5> QED
          BY <1>0, <4>1, <5>1, <5>2
      <4> QED
        BY <1>1, <4>1, <4>2, ClockBefore
    <3>2. CountsA(c)' => (Div - d) + Div * ta'[c] \in D
      BY DEF Delays
    <3>3. CountsB(c)' => (Div - d) + Div * tb'[c] \in D
      BY DEF Delays
    <3>4. ta'[c] \in Values /\ tb'[c] \in Values
      BY DEF TimersType
    <3> HIDE DEF D
    <3> QED
      BY <2>1, <2>4, <2>5, <3>1, <3>2, <3>3, <3>4
  <2>7. elapsed' + div10' + remaining' = Div * (k + 1)
    <3>1. k \in Nat /\ Div * k \in Nat /\ Div * (k + 1) = Div * k + Div
      BY <1>0, CiaAssumption DEF Values, TimerMax
    <3> QED
      BY <1>0, <1>2, <2>5, <3>1
  <2>8. Scheduled'
    BY <2>1, <2>6, <2>7 DEF Scheduled
  <2>9. TypeOK'
    <3>1. remaining' \in 1 .. Wrap - 1
      BY <1>5, <2>5
    <3> QED
      BY <1>1, <1>2, <2>1, <3>1 DEF TypeOK, TimersType
  <2> QED
    BY <1>4, <2>8, <2>9 DEF IInv
<1> QED
  BY <1>6, <1>7

-----------------------------------------------------------------------------
(* The steps.                                                              *)

\* CIA_update between two events: no timer has underflowed, and the chips'
\* timers are what it computes.
LEMMA UpToDate ==
  ASSUME IInv
  PROVE  /\ UpdatedTa(Clocks) = [c \in Cias |-> chip[c].ta]
         /\ UpdatedTb(Clocks) = [c \in Cias |-> chip[c].tb]
         /\ UpdatedCra(Clocks) = cra /\ UpdatedCrb(Clocks) = crb
         /\ [c \in Cias |-> Raised(c, Clocks)] = [c \in Cias |-> {}]
<1>1. TypeOK /\ TimersExact /\ Clocks \in Nat
  BY Behind DEF IInv
<1>2. ASSUME NEW c \in Cias PROVE ~OvflA(c, Clocks) /\ ~OvflB(c, Clocks)
  <2>1. ta[c] \in Nat /\ tb[c] \in Nat
    BY <1>1, CiaAssumption DEF TypeOK, Values, TimerMax
  <2>2. /\ CountsA(c) => Clocks <= ta[c]
        /\ CountsB(c) => Clocks <= tb[c]
    BY Behind
  <2> QED
    BY <1>1, <2>1, <2>2 DEF OvflA, OvflB
<1>3. UpdatedTa(Clocks) = [c \in Cias |-> chip[c].ta]
  BY <1>1, <1>2 DEF UpdatedTa, TimersExact, ReadTa, Clocks
<1>4. UpdatedTb(Clocks) = [c \in Cias |-> chip[c].tb]
  BY <1>1, <1>2 DEF UpdatedTb, TimersExact, ReadTb, Clocks
<1>5. UpdatedCra(Clocks) = cra /\ UpdatedCrb(Clocks) = crb
  BY <1>1, <1>2 DEF UpdatedCra, UpdatedCrb, TypeOK
<1>6. [c \in Cias |-> Raised(c, Clocks)] = [c \in Cias |-> {}]
  BY <1>2 DEF Raised
<1> QED
  BY <1>3, <1>4, <1>5, <1>6

\* RethinkICRA and RethinkICRB when no timer has underflowed.
LEMMA RaiseNothing ==
  ASSUME TypeOK, Raise([c \in Cias |-> {}])
  PROVE  icr' = icr /\ ir' = ir /\ intreq' = intreq
<1>1. icr' = icr
  BY DEF Raise, TypeOK
<1>2. ir' = ir
  BY DEF Raise, TypeOK
<1>3. intreq' = intreq
  BY DEF Raise, TypeOK
<1> QED
  BY <1>1, <1>2, <1>3

\* WriteCIAA and WriteCIAB, the cases that touch a timer: what they do to the
\* registers they do to the chips' timers, since the update comes first.
LEMMA WriteInv ==
  ASSUME IInv, Raise([c \in Cias |-> Raised(c, Clocks)]),
         CalcTimers(Ccount % Div), UNCHANGED <<imask, phase>>,
         ta' \in [Cias -> Values], tb' \in [Cias -> Values],
         la' \in [Cias -> Values], lb' \in [Cias -> Values],
         cra' \in [Cias -> Cra], crb' \in [Cias -> Crb], ChipType',
         \A c \in Cias :
           /\ chip'[c].ta = ta'[c] /\ chip'[c].tb = tb'[c]
           /\ chip'[c].startA = cra'[c].start
           /\ chip'[c].startB = crb'[c].start
           /\ chip'[c].icr = chip[c].icr
  PROVE  IInv'
<1>1. icr' = icr /\ ir' = ir /\ intreq' = intreq
  <2>1. Raise([c \in Cias |-> {}])
    BY UpToDate
  <2> QED
    BY <2>1, RaiseNothing DEF IInv
<1>2. TimersType' /\ LevelTriggered'
  BY <1>1 DEF IInv, TypeOK, TimersType, LevelTriggered
<1>3. Synced'
  BY <1>1 DEF Synced, IInv, TimersExact
<1>4. Ccount % Div = phase /\ phase \in 0 .. Div - 1
  BY Behind
<1> QED
  BY <1>2, <1>3, <1>4, CalcInv

\* The chips' timers and the registers' types, as the writes need them.
LEMMA Types ==
  ASSUME IInv
  PROVE  /\ chip \in [Cias -> [ta : Values, tb : Values, startA : {0, 1},
                               startB : {0, 1}, icr : SUBSET Flags]]
         /\ phase \in 0 .. Div - 1
         /\ la \in [Cias -> Values] /\ lb \in [Cias -> Values]
         /\ cra \in [Cias -> Cra] /\ crb \in [Cias -> Crb]
         /\ \A c \in Cias : /\ chip[c].startA = cra[c].start
                            /\ chip[c].startB = crb[c].start
BY DEF IInv, ChipType, TypeOK, TimersExact

\* Cases 4 and 6 of the writes: the latches change, the timers do not.
LEMMA WriteLoInv ==
  ASSUME IInv, NEW c \in Cias, NEW v \in Los, WriteLoA(c, v) \/ WriteLoB(c, v)
  PROVE  IInv'
<1> USE Types, UpToDate
<1>1. v \in 0 .. Byte - 1
  BY CiaAssumption
<1>2. CASE WriteLoA(c, v)
  <2>1. la' \in [Cias -> Values]
    BY <1>1, <1>2, LatchType DEF WriteLoA
  <2>2. /\ ta' = [x \in Cias |-> chip[x].ta] /\ tb' = [x \in Cias |-> chip[x].tb]
        /\ cra' = cra /\ crb' = crb /\ UNCHANGED <<lb, chip, imask, phase>>
        /\ Raise([x \in Cias |-> Raised(x, Clocks)]) /\ CalcTimers(Ccount % Div)
    BY <1>2 DEF WriteLoA, Written, Clocks
  <2>3. ChipType'
    BY <2>2 DEF ChipType
  <2> QED
    BY <2>1, <2>2, <2>3, WriteInv
<1>3. CASE WriteLoB(c, v)
  <2>1. lb' \in [Cias -> Values]
    BY <1>1, <1>3, LatchType DEF WriteLoB
  <2>2. /\ ta' = [x \in Cias |-> chip[x].ta] /\ tb' = [x \in Cias |-> chip[x].tb]
        /\ cra' = cra /\ crb' = crb /\ UNCHANGED <<la, chip, imask, phase>>
        /\ Raise([x \in Cias |-> Raised(x, Clocks)]) /\ CalcTimers(Ccount % Div)
    BY <1>3 DEF WriteLoB, Written, Clocks
  <2>3. ChipType'
    BY <2>2 DEF ChipType
  <2> QED
    BY <2>1, <2>2, <2>3, WriteInv
<1> QED
  BY <1>2, <1>3

\* What the chip keeps of its two timers and flags.
Chip == [ta : Values, tb : Values, startA : {0, 1}, startB : {0, 1},
         icr : SUBSET Flags]

\* Setting a timer of one chip and its START bit.
LEMMA ChipSet ==
  ASSUME NEW f \in [Cias -> Chip], NEW c \in Cias, NEW t \in Values,
         NEW s \in {0, 1}
  PROVE  /\ [f EXCEPT ![c].ta = t, ![c].startA = s] \in [Cias -> Chip]
         /\ [f EXCEPT ![c].tb = t, ![c].startB = s] \in [Cias -> Chip]
<1>1. [f[c] EXCEPT !.ta = t, !.startA = s] \in Chip
  BY DEF Chip
<1>2. [f[c] EXCEPT !.tb = t, !.startB = s] \in Chip
  BY DEF Chip
<1>3. [f EXCEPT ![c].ta = t, ![c].startA = s]
        = [f EXCEPT ![c] = [f[c] EXCEPT !.ta = t, !.startA = s]]
  OBVIOUS
<1>4. [f EXCEPT ![c].tb = t, ![c].startB = s]
        = [f EXCEPT ![c] = [f[c] EXCEPT !.tb = t, !.startB = s]]
  OBVIOUS
<1> QED
  BY <1>1, <1>2, <1>3, <1>4

\* Cases 5 and 7 of the writes: a timer that is loaded or started is so in
\* the register and in the chip.
LEMMA WriteHiInv ==
  ASSUME IInv, NEW c \in Cias, NEW v \in His, WriteHiA(c, v) \/ WriteHiB(c, v)
  PROVE  IInv'
<1> USE Types, UpToDate
<1>1. v \in 0 .. Byte - 1
  BY CiaAssumption
<1>2. CASE WriteHiA(c, v)
  <2> DEFINE cr == cra[c]
             load == cr.start = 0 \/ cr.oneshot = 1
  <2>1. la' \in [Cias -> Values] /\ la'[c] \in Values
    BY <1>1, <1>2, LatchType DEF WriteHiA
  <2>2. /\ ta' = [[x \in Cias |-> chip[x].ta] EXCEPT
                    ![c] = IF load THEN la'[c] ELSE @]
        /\ tb' = [x \in Cias |-> chip[x].tb]
        /\ cra' = [cra EXCEPT ![c].start = IF cr.oneshot = 1 THEN 1 ELSE @]
        /\ crb' = crb
        /\ chip' = [chip EXCEPT
             ![c].ta = IF load THEN la'[c] ELSE chip[c].ta,
             ![c].startA = IF cr.oneshot = 1 THEN 1 ELSE chip[c].startA]
        /\ UNCHANGED <<lb, imask, phase>>
        /\ Raise([x \in Cias |-> Raised(x, Clocks)]) /\ CalcTimers(Ccount % Div)
    BY <1>2 DEF WriteHiA, Written, Clocks
  <2>3. ChipType'
    <3>1. /\ (IF load THEN la'[c] ELSE chip[c].ta) \in Values
          /\ (IF cr.oneshot = 1 THEN 1 ELSE chip[c].startA) \in {0, 1}
          /\ (IF load THEN lb'[c] ELSE chip[c].tb) \in Values
          /\ (IF cr.oneshot = 1 THEN 1 ELSE chip[c].startB) \in {0, 1}
          /\ chip \in [Cias -> Chip]
      BY <2>1, <2>2 DEF Chip
    <3>2. chip' \in [Cias -> Chip]
      <4> HIDE DEF load, cr
      <4> QED
        BY <2>2, <3>1, ChipSet
    <3> QED
      BY <2>2, <3>2 DEF ChipType, Chip
  <2>4. cra' \in [Cias -> Cra] /\ ta' \in [Cias -> Values]
    <3>1. [cra[c] EXCEPT !.start = IF cr.oneshot = 1 THEN 1 ELSE @] \in Cra
      BY DEF Cra
    <3> QED
      BY <2>1, <2>2, <3>1
  <2>5. \A x \in Cias :
           /\ chip'[x].ta = ta'[x] /\ chip'[x].tb = tb'[x]
           /\ chip'[x].startA = cra'[x].start
           /\ chip'[x].startB = crb'[x].start
           /\ chip'[x].icr = chip[x].icr
    BY <2>1, <2>2 DEF Cra
  <2> QED
    BY <2>1, <2>2, <2>3, <2>4, <2>5, WriteInv
<1>3. CASE WriteHiB(c, v)
  <2> DEFINE cr == crb[c]
             load == cr.start = 0 \/ cr.oneshot = 1
  <2>1. lb' \in [Cias -> Values] /\ lb'[c] \in Values
    BY <1>1, <1>3, LatchType DEF WriteHiB
  <2>2. /\ tb' = [[x \in Cias |-> chip[x].tb] EXCEPT
                    ![c] = IF load THEN lb'[c] ELSE @]
        /\ ta' = [x \in Cias |-> chip[x].ta]
        /\ crb' = [crb EXCEPT ![c].start = IF cr.oneshot = 1 THEN 1 ELSE @]
        /\ cra' = cra
        /\ chip' = [chip EXCEPT
             ![c].tb = IF load THEN lb'[c] ELSE chip[c].tb,
             ![c].startB = IF cr.oneshot = 1 THEN 1 ELSE chip[c].startB]
        /\ UNCHANGED <<la, imask, phase>>
        /\ Raise([x \in Cias |-> Raised(x, Clocks)]) /\ CalcTimers(Ccount % Div)
    BY <1>3 DEF WriteHiB, Written, Clocks
  <2>3. ChipType'
    <3>1. /\ (IF load THEN la'[c] ELSE chip[c].ta) \in Values
          /\ (IF cr.oneshot = 1 THEN 1 ELSE chip[c].startA) \in {0, 1}
          /\ (IF load THEN lb'[c] ELSE chip[c].tb) \in Values
          /\ (IF cr.oneshot = 1 THEN 1 ELSE chip[c].startB) \in {0, 1}
          /\ chip \in [Cias -> Chip]
      BY <2>1, <2>2 DEF Chip
    <3>2. chip' \in [Cias -> Chip]
      <4> HIDE DEF load, cr
      <4> QED
        BY <2>2, <3>1, ChipSet
    <3> QED
      BY <2>2, <3>2 DEF ChipType, Chip
  <2>4. crb' \in [Cias -> Crb] /\ tb' \in [Cias -> Values]
    <3>1. [crb[c] EXCEPT !.start = IF cr.oneshot = 1 THEN 1 ELSE @] \in Crb
      BY DEF Crb
    <3> QED
      BY <2>1, <2>2, <3>1
  <2>5. \A x \in Cias :
           /\ chip'[x].ta = ta'[x] /\ chip'[x].tb = tb'[x]
           /\ chip'[x].startA = cra'[x].start
           /\ chip'[x].startB = crb'[x].start
           /\ chip'[x].icr = chip[x].icr
    BY <2>1, <2>2 DEF Crb
  <2> QED
    BY <2>1, <2>2, <2>3, <2>4, <2>5, WriteInv
<1> QED
  BY <1>2, <1>3

\* Cases 14 and 15: the control registers, and the strobe that loads a timer.
LEMMA WriteCrInv ==
  ASSUME IInv, NEW c \in Cias, NEW load \in BOOLEAN,
         \/ \E v \in CraValues : WriteCra(c, v, load)
         \/ \E v \in CrbValues : WriteCrb(c, v, load)
  PROVE  IInv'
<1> USE Types, UpToDate
<1>1. ASSUME NEW v \in CraValues, WriteCra(c, v, load) PROVE IInv'
  <2>1. v \in Cra
    BY CiaAssumption
  <2>2. /\ ta' = [[x \in Cias |-> chip[x].ta] EXCEPT
                    ![c] = IF load THEN la[c] ELSE @]
        /\ tb' = [x \in Cias |-> chip[x].tb]
        /\ cra' = [cra EXCEPT ![c] = v] /\ crb' = crb
        /\ chip' = [chip EXCEPT
             ![c].ta = IF load THEN la[c] ELSE chip[c].ta,
             ![c].startA = v.start]
        /\ UNCHANGED <<la, lb, imask, phase>>
        /\ Raise([x \in Cias |-> Raised(x, Clocks)]) /\ CalcTimers(Ccount % Div)
    BY <1>1 DEF WriteCra, Written, Clocks, latchVars
  <2>3. ChipType'
    <3>1. /\ (IF load THEN la[c] ELSE chip[c].ta) \in Values
          /\ v.start \in {0, 1} /\ chip \in [Cias -> Chip]
      BY <2>1 DEF Chip, Cra
    <3>2. chip' \in [Cias -> Chip]
      BY <2>2, <3>1, ChipSet
    <3> QED
      BY <2>2, <3>2 DEF ChipType, Chip
  <2>4. cra' \in [Cias -> Cra] /\ ta' \in [Cias -> Values]
    BY <2>1, <2>2
  <2>5. \A x \in Cias :
           /\ chip'[x].ta = ta'[x] /\ chip'[x].tb = tb'[x]
           /\ chip'[x].startA = cra'[x].start
           /\ chip'[x].startB = crb'[x].start
           /\ chip'[x].icr = chip[x].icr
    BY <2>1, <2>2
  <2> QED
    BY <2>2, <2>3, <2>4, <2>5, WriteInv
<1>2. ASSUME NEW v \in CrbValues, WriteCrb(c, v, load) PROVE IInv'
  <2>1. v \in Crb
    BY CiaAssumption
  <2>2. /\ tb' = [[x \in Cias |-> chip[x].tb] EXCEPT
                    ![c] = IF load THEN lb[c] ELSE @]
        /\ ta' = [x \in Cias |-> chip[x].ta]
        /\ crb' = [crb EXCEPT ![c] = v] /\ cra' = cra
        /\ chip' = [chip EXCEPT
             ![c].tb = IF load THEN lb[c] ELSE chip[c].tb,
             ![c].startB = v.start]
        /\ UNCHANGED <<la, lb, imask, phase>>
        /\ Raise([x \in Cias |-> Raised(x, Clocks)]) /\ CalcTimers(Ccount % Div)
    BY <1>2 DEF WriteCrb, Written, Clocks, latchVars
  <2>3. ChipType'
    <3>1. /\ (IF load THEN lb[c] ELSE chip[c].tb) \in Values
          /\ v.start \in {0, 1} /\ chip \in [Cias -> Chip]
      BY <2>1 DEF Chip, Crb
    <3>2. chip' \in [Cias -> Chip]
      BY <2>2, <3>1, ChipSet
    <3> QED
      BY <2>2, <3>2 DEF ChipType, Chip
  <2>4. crb' \in [Cias -> Crb] /\ tb' \in [Cias -> Values]
    BY <2>1, <2>2
  <2>5. \A x \in Cias :
           /\ chip'[x].ta = ta'[x] /\ chip'[x].tb = tb'[x]
           /\ chip'[x].startA = cra'[x].start
           /\ chip'[x].startB = crb'[x].start
           /\ chip'[x].icr = chip[x].icr
    BY <2>1, <2>2
  <2> QED
    BY <2>2, <2>3, <2>4, <2>5, WriteInv
<1> QED
  BY <1>1, <1>2

\* What leaves the timers and the event alone keeps the chips' state when it
\* does to the flags what it does to those of the chips.
LEMMA FlagsInv ==
  ASSUME IInv, UNCHANGED <<ta, tb, cra, crb, latchVars, eventVars, phase>>,
         icr' \in [Cias -> SUBSET Flags], imask' \in [Cias -> SUBSET Flags],
         ir' \in [Cias -> {0, 1}], intreq' \in [Cias -> {0, 1}], ChipType',
         \A c \in Cias :
           /\ ir'[c] = 1 => intreq'[c] = 1
           /\ chip'[c].ta = chip[c].ta /\ chip'[c].tb = chip[c].tb
           /\ chip'[c].startA = chip[c].startA
           /\ chip'[c].startB = chip[c].startB
           /\ chip'[c].icr = icr'[c]
  PROVE  IInv'
<1> USE DEF IInv, latchVars, eventVars
<1>1. TypeOK' /\ LevelTriggered'
  BY DEF TypeOK, LevelTriggered
<1>2. TimersExact'
  BY DEF TimersExact, ReadTa, ReadTb, CountsA, CountsB, Ccount
<1>3. Scheduled'
  BY DEF Scheduled, CountsA, CountsB
<1> QED
  BY <1>1, <1>2, <1>3

\* Case 13, the interrupts of other sources and INTREQ: the flags and the
\* level of the chips' interrupts.
LEMMA FlagAccessInv ==
  ASSUME IInv, NEW c \in Cias,
         \/ ReadIcr(c) \/ WritePrb(c) \/ ClearIntreq(c)
         \/ \E g \in Others(c) : RaiseFlag(c, g)
         \/ \E m \in Masks : WriteMask(c, m)
  PROVE  IInv'
<1> USE Types
<1>0. TypeOK /\ LevelTriggered /\ \A x \in Cias : chip[x].icr = icr[x]
  BY DEF IInv, TimersExact
<1>1. CASE ReadIcr(c)
  <2> USE <1>1 DEF ReadIcr
  <2>1. ChipType'
    BY DEF ChipType
  <2>2. \A x \in Cias : ir'[x] = 1 => intreq'[x] = 1
    BY <1>0 DEF TypeOK, LevelTriggered
  <2> QED
    BY <1>0, <2>1, <2>2, FlagsInv DEF TypeOK
<1>2. ASSUME NEW g \in Others(c), RaiseFlag(c, g) PROVE IInv'
  <2> USE <1>2 DEF RaiseFlag
  <2>0. g \in Flags
    BY DEF Others, Flags
  <2> DEFINE f == [x \in Cias |-> IF x = c THEN {g} ELSE {}]
  <2>1. icr' = [x \in Cias |-> icr[x] \cup f[x]]
    BY DEF Raise
  <2>2. /\ ir' = [x \in Cias |-> IF f[x] = {} THEN ir[x]
                  ELSE IF icr'[x] \cap imask[x] # {} THEN 1 ELSE 0]
        /\ intreq' = [x \in Cias |-> IF f[x] # {} /\ ir'[x] = 1 THEN 1
                                     ELSE intreq[x]]
    BY DEF Raise
  <2>3. ChipType'
    BY <2>0 DEF ChipType
  <2>4. /\ icr' \in [Cias -> SUBSET Flags]
        /\ \A x \in Cias : chip'[x].icr = icr'[x]
    BY <1>0, <2>0, <2>1 DEF TypeOK
  <2>5. ir' \in [Cias -> {0, 1}] /\ intreq' \in [Cias -> {0, 1}]
    BY <1>0, <2>2 DEF TypeOK
  <2>6. \A x \in Cias : ir'[x] = 1 => intreq'[x] = 1
    BY <1>0, <2>2 DEF TypeOK, LevelTriggered
  <2>7. imask' \in [Cias -> SUBSET Flags]
    BY <1>0 DEF TypeOK
  <2>8. /\ UNCHANGED <<ta, tb, cra, crb, latchVars, eventVars, phase>>
        /\ \A x \in Cias : /\ chip'[x].ta = chip[x].ta /\ chip'[x].tb = chip[x].tb
                            /\ chip'[x].startA = chip[x].startA
                            /\ chip'[x].startB = chip[x].startB
    OBVIOUS
  <2> HIDE <1>2
  <2> HIDE DEF f
  <2> QED
    BY <2>3, <2>4, <2>5, <2>6, <2>7, <2>8, FlagsInv
<1>3. CASE ClearIntreq(c)
  <2> USE <1>3 DEF ClearIntreq, refVars
  <2>1. ChipType'
    BY DEF ChipType
  <2>2. ir' \in [Cias -> {0, 1}] /\ intreq' \in [Cias -> {0, 1}]
    BY <1>0 DEF TypeOK
  <2> QED
    BY <1>0, <2>1, <2>2, FlagsInv DEF TypeOK
<1>4. ASSUME NEW m \in Masks, WriteMask(c, m) PROVE IInv'
  <2> USE <1>4 DEF WriteMask, refVars, timerVars
  <2>1. ChipType'
    BY DEF ChipType
  <2>2. imask' \in [Cias -> SUBSET Flags]
    BY <1>0, CiaAssumption DEF TypeOK
  <2> QED
    BY <1>0, <2>1, <2>2, FlagsInv DEF TypeOK, LevelTriggered
<1>5. CASE WritePrb(c)
  <2> USE <1>5 DEF WritePrb
  <2>1. ChipType'
    BY DEF ChipType, Flags
  <2>2. /\ icr' \in [Cias -> SUBSET Flags]
        /\ \A x \in Cias : chip'[x].icr = icr'[x]
    BY <1>0 DEF TypeOK, Flags
  <2>3. /\ UNCHANGED <<ta, tb, cra, crb, latchVars, eventVars, phase>>
        /\ \A x \in Cias : /\ chip'[x].ta = chip[x].ta /\ chip'[x].tb = chip[x].tb
                            /\ chip'[x].startA = chip[x].startA
                            /\ chip'[x].startB = chip[x].startB
    OBVIOUS
  <2>4. /\ imask' \in [Cias -> SUBSET Flags] /\ ir' \in [Cias -> {0, 1}]
        /\ intreq' \in [Cias -> {0, 1}]
        /\ \A x \in Cias : ir'[x] = 1 => intreq'[x] = 1
    BY <1>0 DEF TypeOK, LevelTriggered
  <2> HIDE <1>5
  <2> QED
    BY <2>1, <2>2, <2>3, <2>4, FlagsInv
<1> QED
  BY <1>1, <1>2, <1>3, <1>4, <1>5

\* The cycle counter wraps; so does ccount, by one count at a time.
LEMMA Advance ==
  ASSUME NEW w \in Nat \ {0}, NEW a \in 0 .. w - 1, NEW d \in 0 .. w - 1
  PROVE  \/ (((a + 1) % w) + d) % w = ((a + d) % w) + 1
         \/ ((a + d) % w) = w - 1 /\ (((a + 1) % w) + d) % w = 0
<1>1. \A x \in 0 .. w - 1 : x % w = x
  BY ModSmall
<1>2. \A x \in 0 .. w - 1 : (w + x) % w = x
  <2> SUFFICES ASSUME NEW x \in 0 .. w - 1 PROVE (w + x) % w = x
    OBVIOUS
  <2>1. w + x = w * 1 + x
    OBVIOUS
  <2> QED
    BY <2>1, DivModUnique
<1>3. CASE a + 1 = w
  <2>1. (a + 1) % w = 0
    <3>1. a + 1 = w + 0 /\ 0 \in 0 .. w - 1
      BY <1>3
    <3> QED
      BY <1>2, <3>1
  <2>2. (((a + 1) % w) + d) % w = d
    BY <1>1, <2>1
  <2>3. CASE d = 0
    BY <1>1, <1>3, <2>2, <2>3
  <2>4. CASE d > 0
    <3>1. a + d = w + (d - 1) /\ d - 1 \in 0 .. w - 1
      BY <1>3, <2>4
    <3>2. (a + d) % w = d - 1
      BY <1>2, <3>1
    <3> QED
      BY <2>2, <3>2
  <2> QED
    BY <2>3, <2>4
<1>4. CASE a + 1 < w
  <2>1. (a + 1) % w = a + 1
    BY <1>1, <1>4
  <2>2. CASE a + d < w
    <3>1. (a + d) % w = a + d
      BY <1>1, <2>2
    <3>2. CASE a + 1 + d < w
      <4>1. (a + 1 + d) % w = a + 1 + d
        BY <1>1, <3>2
      <4> QED
        BY <2>1, <3>1, <4>1
    <3>3. CASE a + 1 + d = w
      <4>1. a + 1 + d = w + 0 /\ 0 \in 0 .. w - 1
        BY <3>3
      <4>2. (a + 1 + d) % w = 0
        BY <1>2, <4>1
      <4> QED
        BY <2>1, <3>1, <3>3, <4>2
    <3> QED
      BY <2>2, <3>2, <3>3
  <2>3. CASE a + d >= w
    <3>1. /\ a + d = w + (a + d - w) /\ a + d - w \in 0 .. w - 1
          /\ a + 1 + d = w + (a + 1 + d - w) /\ a + 1 + d - w \in 0 .. w - 1
      BY <1>4, <2>3
    <3>2. (a + d) % w = a + d - w /\ (a + 1 + d) % w = a + 1 + d - w
      BY <1>2, <3>1
    <3> QED
      BY <2>1, <3>2
  <2> QED
    BY <2>2, <2>3
<1> QED
  BY <1>3, <1>4

\* Where the event lies while it is active: ccount does not wrap before it.
LEMMA BeforeEvent ==
  ASSUME IInv, active = 1
  PROVE  \E k \in Values :
           /\ elapsed + div10 = Ccount /\ elapsed + 1 < Wrap
           /\ Ccount + 1 < Wrap /\ Ccount + remaining = Div * (k + 1)
           /\ \A c \in Cias : /\ CountsA(c) => k <= ta[c]
                              /\ CountsB(c) => k <= tb[c]
<1>1. Div \in Nat \ {0} /\ Wrap \in Nat \ {0} /\ TimerMax \in Nat
      /\ Div * (TimerMax + 2) < Wrap
  BY CiaAssumption DEF TimerMax
<1>2. /\ remaining > 0 /\ remaining \in Nat
      /\ elapsed \in Nat /\ div10 \in Nat
  BY DEF IInv, TypeOK
<1>3. PICK k \in Values :
        /\ elapsed + div10 + remaining = Div * (k + 1)
        /\ \A c \in Cias : /\ CountsA(c) => k <= ta[c]
                           /\ CountsB(c) => k <= tb[c]
  BY DEF IInv, Scheduled
<1>4. Div * (k + 1) \in Nat /\ Div * (k + 1) < Wrap
  <2>1. k \in Nat /\ k <= TimerMax
    BY <1>1, CiaAssumption DEF Values, TimerMax
  <2>2. Div * (k + 1) \in Nat /\ Div * (k + 1) <= Div * (TimerMax + 2)
    BY <1>1, <2>1
  <2> QED
    BY <1>1, <2>2
<1>5. /\ elapsed + div10 \in 0 .. Wrap - 1 /\ elapsed + 1 < Wrap
      /\ elapsed + div10 + 1 < Wrap
  BY <1>1, <1>2, <1>3, <1>4
<1>6. Ccount = elapsed + div10
  BY <1>1, <1>5, ModSmall DEF Ccount
<1> QED
  BY <1>2, <1>3, <1>5, <1>6

\* The E clock of the chips and of ccount end together, and begin together
\* when ccount wraps, which it does only while no event is scheduled.
LEMMA CycleClocks ==
  ASSUME IInv, Cycle
  PROVE  /\ Ccount' % Div = phase' /\ phase' \in 0 .. Div - 1
         /\ active = 1 => /\ elapsed' = elapsed + 1 /\ Ccount' = Ccount + 1
                          /\ phase + 1 < Div => Ccount' \div Div = Clocks
                          /\ phase + 1 = Div => Ccount' \div Div = Clocks + 1
<1>1. Div \in Nat \ {0} /\ Wrap \in Nat \ {0} /\ Div < Wrap
  <2>1. TimerMax \in Nat /\ Div \in Nat \ {0} /\ Wrap \in Nat
        /\ Wrap > Div * (TimerMax + 2)
    BY CiaAssumption DEF TimerMax
  <2>2. Div * (TimerMax + 2) >= Div
    BY <2>1
  <2> QED
    BY <2>1, <2>2
<1>2. /\ Clocks \in Nat /\ phase \in 0 .. Div - 1
      /\ Ccount = Div * Clocks + phase /\ Ccount \in 0 .. Wrap - 1
  BY Behind
<1>3. elapsed \in 0 .. Wrap - 1 /\ div10 \in 0 .. Div - 1
  BY DEF IInv, TypeOK
<1>4. elapsed' = (elapsed + 1) % Wrap /\ div10' = div10
      /\ (Ccount + 1 = Wrap => phase' = 0)
      /\ (Ccount + 1 # Wrap => phase' = (phase + 1) % Div)
  BY DEF Cycle, ReferenceCycle, Wraps
<1>5. \/ Ccount' = Ccount + 1 /\ Ccount + 1 # Wrap
      \/ Ccount = Wrap - 1 /\ Ccount' = 0
  <2>1. div10 \in 0 .. Wrap - 1
    BY <1>1, <1>3
  <2>2. \/ Ccount' = Ccount + 1
        \/ Ccount = Wrap - 1 /\ Ccount' = 0
    BY <1>1, <1>3, <1>4, <2>1, Advance DEF Ccount
  <2>3. Ccount' \in 0 .. Wrap - 1
    <3>1. elapsed' + div10' \in Nat
      BY <1>1, <1>3, <1>4, DivMod
    <3> QED
      BY <1>1, <3>1, DivMod DEF Ccount
  <2> QED
    BY <1>1, <1>2, <2>2, <2>3
<1>6. Div = Div * 1 + 0 /\ 0 \in 0 .. Div - 1 /\ Div % Div = 0
  <2>1. Div = Div * 1 + 0 /\ 0 \in 0 .. Div - 1
    BY <1>1
  <2> QED
    BY <1>1, <2>1, DivModUnique
<1>7. Ccount + 1 # Wrap => /\ phase' \in 0 .. Div - 1
                           /\ phase + 1 < Div => phase' = phase + 1
                           /\ phase + 1 = Div => phase' = 0
  <2>1. phase + 1 < Div => (phase + 1) % Div = phase + 1
    BY <1>1, <1>2, ModSmall
  <2> QED
    BY <1>1, <1>2, <1>4, <1>6, <2>1
<1>8. CASE Ccount' = Ccount + 1 /\ Ccount + 1 # Wrap
  <2>4. active = 1 => elapsed' = elapsed + 1
    <3>1. active = 1 => elapsed + 1 \in 0 .. Wrap - 1
      BY BeforeEvent, <1>1, <1>3
    <3> QED
      BY <1>1, <1>4, <3>1, ModSmall
  <2>1. CASE phase + 1 < Div
    <3>1. Ccount' = Div * Clocks + (phase + 1) /\ phase + 1 \in 0 .. Div - 1
      <4>1. Div * Clocks \in Nat
        BY <1>1, <1>2
      <4> QED
        BY <1>1, <1>2, <1>8, <2>1, <4>1
    <3>2. Ccount' % Div = phase + 1 /\ Ccount' \div Div = Clocks
      BY <1>1, <1>2, <3>1, DivModUnique
    <3> QED
      BY <1>7, <1>8, <2>1, <2>4, <3>2
  <2>2. CASE phase + 1 = Div
    <3>1. Ccount' = Div * (Clocks + 1) + 0
      <4>1. Div * (Clocks + 1) = Div * Clocks + Div /\ Div * Clocks \in Nat
        BY <1>1, <1>2
      <4> QED
        BY <1>1, <1>2, <1>8, <2>2, <4>1
    <3>2. Ccount' % Div = 0 /\ Ccount' \div Div = Clocks + 1
      BY <1>1, <1>2, <1>6, <3>1, DivModUnique
    <3> QED
      BY <1>7, <1>8, <2>2, <2>4, <3>2
  <2>3. Ccount' % Div = phase' /\ (phase + 1 < Div \/ phase + 1 = Div)
    <3>1. phase + 1 < Div \/ phase + 1 = Div
      BY <1>1, <1>2
    <3> QED
      BY <2>1, <2>2, <3>1
  <2> QED
    BY <1>7, <1>8, <2>1, <2>2, <2>3, <2>4
<1>9. CASE Ccount = Wrap - 1 /\ Ccount' = 0
  <2>1. active # 1
    <3>1. active = 1 => Ccount + 1 < Wrap
      BY BeforeEvent
    <3> QED
      BY <1>1, <1>2, <1>9, <3>1
  <2>2. phase' = 0
    BY <1>1, <1>2, <1>4, <1>9
  <2>3. 0 % Div = 0
    BY <1>1, <1>6, ModSmall
  <2> QED
    BY <1>6, <1>9, <2>1, <2>2, <2>3
<1> QED
  BY <1>5, <1>8, <1>9

\* An E clock of the chips in which no timer of theirs underflows.
LEMMA ChipIdle ==
  ASSUME IInv, NEW c \in Cias, CountsA(c) => Clocks < ta[c],
         CountsB(c) => Clocks < tb[c]
  PROVE  /\ ChipClock[c].ta = IF CountsA(c) THEN chip[c].ta - 1 ELSE chip[c].ta
         /\ ChipClock[c].tb = IF CountsB(c) THEN chip[c].tb - 1 ELSE chip[c].tb
         /\ ChipClock[c].startA = chip[c].startA
         /\ ChipClock[c].startB = chip[c].startB
         /\ ChipClock[c].icr = chip[c].icr
<1>1. /\ chip[c].startA = cra[c].start /\ chip[c].startB = crb[c].start
      /\ chip[c].ta = IF CountsA(c) THEN ta[c] - Clocks ELSE ta[c]
      /\ chip[c].tb = IF CountsB(c) THEN tb[c] - Clocks ELSE tb[c]
  BY DEF IInv, TimersExact, ReadTa, ReadTb, Clocks
<1>2. Clocks \in Nat /\ ta[c] \in Nat /\ tb[c] \in Nat
  BY Behind, CiaAssumption DEF IInv, TypeOK, Values, TimerMax
<1>3. ~ChipOvflA(c)
  BY <1>1, <1>2 DEF ChipOvflA, CountsA
<1>4. (ChipPulsesB(c) <=> CountsB(c)) /\ ~ChipOvflB(c)
  BY <1>1, <1>2, <1>3 DEF ChipPulsesB, ChipOvflB, CountsB
<1> QED
  BY <1>1, <1>3, <1>4 DEF ChipClock, CountsA

\* do_cycles between two events: the chips count, ccount does.
LEMMA CycleInv ==
  ASSUME IInv, Cycle
  PROVE  IInv'
<1>1. TypeOK /\ LevelTriggered /\ TimersExact /\ ChipType /\ Scheduled
  BY DEF IInv
<1>2. /\ Ccount' % Div = phase' /\ phase' \in 0 .. Div - 1
      /\ active = 1 => /\ elapsed' = elapsed + 1 /\ Ccount' = Ccount + 1
                       /\ phase + 1 < Div => Ccount' \div Div = Clocks
                       /\ phase + 1 = Div => Ccount' \div Div = Clocks + 1
  BY CycleClocks
<1>3. /\ UNCHANGED <<ta, tb, cra, crb, icr, ir, intreq, la, lb, imask, div10,
                     active>>
      /\ active = 0 \/ remaining > 1
      /\ elapsed' = (elapsed + 1) % Wrap
      /\ remaining' = IF active = 1 THEN remaining - 1 ELSE 0
      /\ chip' = IF phase + 1 = Div THEN ChipClock ELSE chip
  BY DEF Cycle, ReferenceCycle, timerVars, latchVars
<1>4. \A c \in Cias : (CountsA(c)' <=> CountsA(c)) /\ (CountsB(c)' <=> CountsB(c))
  BY <1>3 DEF CountsA, CountsB
<1>5. /\ Clocks \in Nat /\ phase \in 0 .. Div - 1 /\ Div \in Nat \ {0}
      /\ Ccount = Div * Clocks + phase
      /\ \A c \in Cias : ta[c] \in Nat /\ tb[c] \in Nat
  BY <1>1, Behind, CiaAssumption DEF TypeOK, Values, TimerMax
<1>6. TypeOK'
  <2>1. elapsed' \in 0 .. Wrap - 1
    <3>1. Wrap \in Nat \ {0} /\ elapsed + 1 \in Nat
      BY <1>1, CiaAssumption DEF TypeOK, TimerMax
    <3> QED
      BY <1>3, <3>1, DivMod
  <2>2. remaining' \in 0 .. Wrap - 1 /\ (active' = 1 <=> remaining' > 0)
    BY <1>1, <1>3, CiaAssumption DEF TypeOK
  <2> QED
    BY <1>1, <1>3, <2>1, <2>2 DEF TypeOK
<1>7. LevelTriggered'
  BY <1>1, <1>3 DEF LevelTriggered
<1>8. ASSUME active = 1, NEW c \in Cias, phase + 1 = Div
      PROVE  /\ CountsA(c) => Clocks < ta[c]
             /\ CountsB(c) => Clocks < tb[c]
  <2>1. PICK k \in Values :
          /\ Ccount + remaining = Div * (k + 1)
          /\ CountsA(c) => k <= ta[c]
          /\ CountsB(c) => k <= tb[c]
    BY <1>8, BeforeEvent
  <2>2. k \in Nat /\ remaining \in Nat /\ remaining > 1
    BY <1>1, <1>3, <1>8, CiaAssumption DEF Values, TimerMax, TypeOK
  <2>3. Clocks + 1 <= k
    <3>1. Div * (Clocks + 1) = Div * Clocks + Div
      BY <1>5
    <3>2. Div * Clocks \in Nat /\ Div * (k + 1) \in Nat
      BY <1>5, <2>2
    <3>3. Div * (Clocks + 1) + 0 < Div * (k + 1) /\ 0 \in 0 .. Div - 1
      BY <1>5, <1>8, <2>1, <2>2, <3>1, <3>2
    <3> QED
      BY <1>5, <2>2, <3>3, ClockBefore
  <2> QED
    BY <1>5, <2>1, <2>2, <2>3
<1>9. ASSUME active = 0, NEW c \in Cias PROVE ~CountsA(c) /\ ~CountsB(c)
  BY <1>1, <1>9 DEF Scheduled
<1>10. ASSUME NEW c \in Cias, phase + 1 = Div
       PROVE  /\ CountsA(c) => Clocks < ta[c]
              /\ CountsB(c) => Clocks < tb[c]
  BY <1>1, <1>8, <1>9, <1>10 DEF TypeOK
<1>11. ChipType'
  <2>1. ASSUME phase + 1 = Div PROVE ChipClock \in [Cias -> Chip]
    <3>1. ASSUME NEW c \in Cias PROVE ChipClock[c] \in Chip
      <4>1. /\ chip[c].ta = IF CountsA(c) THEN ta[c] - Clocks ELSE ta[c]
            /\ chip[c].tb = IF CountsB(c) THEN tb[c] - Clocks ELSE tb[c]
        BY <1>1 DEF TimersExact, ReadTa, ReadTb, Clocks
      <4>2. chip[c] \in Chip /\ TimerMax \in Nat
        BY <1>1, CiaAssumption DEF ChipType, Chip, TimerMax
      <4>3. /\ (IF CountsA(c) THEN chip[c].ta - 1 ELSE chip[c].ta) \in Values
            /\ (IF CountsB(c) THEN chip[c].tb - 1 ELSE chip[c].tb) \in Values
        BY <1>5, <1>10, <2>1, <4>1, <4>2 DEF Chip, Values
      <4>4. /\ ChipClock[c].ta \in Values /\ ChipClock[c].tb \in Values
            /\ ChipClock[c].startA = chip[c].startA
            /\ ChipClock[c].startB = chip[c].startB
            /\ ChipClock[c].icr = chip[c].icr
        BY <1>10, <2>1, <4>3, ChipIdle
      <4>5. ChipClock[c] = [ta |-> ChipClock[c].ta, tb |-> ChipClock[c].tb,
                            startA |-> ChipClock[c].startA,
                            startB |-> ChipClock[c].startB,
                            icr |-> ChipClock[c].icr]
        BY DEF ChipClock
      <4> QED
        BY <4>2, <4>4, <4>5 DEF Chip
    <3>2. ChipClock = [c \in Cias |-> ChipClock[c]]
      BY DEF ChipClock
    <3> QED
      BY <3>1, <3>2
  <2>2. chip' \in [Cias -> Chip]
    BY <1>1, <1>3, <2>1 DEF ChipType, Chip
  <2> QED
    BY <1>2, <2>2 DEF ChipType, Chip
<1>12. TimersExact'
  <2>1. ASSUME NEW c \in Cias
        PROVE  /\ chip[c].ta = IF CountsA(c) THEN ta[c] - Clocks ELSE ta[c]
               /\ chip[c].tb = IF CountsB(c) THEN tb[c] - Clocks ELSE tb[c]
               /\ chip[c].startA = cra[c].start
               /\ chip[c].startB = crb[c].start
               /\ chip[c].icr = icr[c]
    BY <1>1 DEF TimersExact, ReadTa, ReadTb, Clocks
  <2>2. ASSUME NEW c \in Cias
        PROVE  /\ chip'[c].ta = IF CountsA(c) THEN ta[c] - (Ccount' \div Div)
                                ELSE ta[c]
               /\ chip'[c].tb = IF CountsB(c) THEN tb[c] - (Ccount' \div Div)
                                ELSE tb[c]
               /\ chip'[c].startA = cra[c].start
               /\ chip'[c].startB = crb[c].start
               /\ chip'[c].icr = icr[c]
    <3>1. CASE phase + 1 = Div
      <4>1. /\ chip'[c].ta = IF CountsA(c) THEN chip[c].ta - 1 ELSE chip[c].ta
            /\ chip'[c].tb = IF CountsB(c) THEN chip[c].tb - 1 ELSE chip[c].tb
            /\ chip'[c].startA = chip[c].startA
            /\ chip'[c].startB = chip[c].startB
            /\ chip'[c].icr = chip[c].icr
        BY <1>3, <1>10, <3>1, ChipIdle
      <4>2. active = 1 \/ active = 0
        BY <1>1 DEF TypeOK
      <4>3. CountsA(c) \/ CountsB(c) => Ccount' \div Div = Clocks + 1
        BY <1>2, <1>9, <3>1, <4>2
      <4> QED
        BY <1>5, <2>1, <4>1, <4>3
    <3>2. CASE phase + 1 < Div
      <4>1. active = 1 \/ active = 0
        BY <1>1 DEF TypeOK
      <4>2. CountsA(c) \/ CountsB(c) => Ccount' \div Div = Clocks
        BY <1>2, <1>9, <3>2, <4>1
      <4>3. chip' = chip
        BY <1>3, <1>5, <3>2
      <4> QED
        BY <2>1, <4>2, <4>3
    <3> QED
      BY <1>5, <3>1, <3>2
  <2>3. \A c \in Cias : (ReadTa(c) = chip[c].ta /\ ReadTb(c) = chip[c].tb)'
    BY <1>3, <1>4, <2>2 DEF ReadTa, ReadTb
  <2> QED
    BY <1>2, <1>3, <2>2, <2>3 DEF TimersExact
<1>13. Scheduled'
  <2>1. CASE active = 0
    BY <1>1, <1>3, <1>4, <2>1 DEF Scheduled
  <2>2. CASE active = 1
    <3>1. PICK k \in Values :
            /\ elapsed + div10 + remaining = Div * (k + 1)
            /\ \A c \in Cias : /\ CountsA(c) => k <= ta[c]
                               /\ CountsB(c) => k <= tb[c]
      BY <1>1, <2>2 DEF Scheduled
    <3>2. elapsed' + div10' + remaining' = elapsed + div10 + remaining
      <4>1. elapsed \in Nat /\ div10 \in Nat /\ remaining \in Nat
        BY <1>1 DEF TypeOK
      <4> QED
        BY <1>2, <1>3, <2>2, <4>1
    <3> QED
      BY <1>3, <1>4, <2>2, <3>1, <3>2 DEF Scheduled
  <2> QED
    BY <1>1, <2>1, <2>2 DEF TypeOK
<1> QED
  BY <1>6, <1>7, <1>11, <1>12, <1>13 DEF IInv

\* The event comes with the last cycle of an E clock, and no timer is further
\* behind than the clock that ends.
LEMMA EventClocks ==
  ASSUME IInv, active = 1, remaining = 1
  PROVE  LET cc == (elapsed + 1 + div10) % Wrap
         IN /\ cc \div Div = Clocks + 1 /\ cc % Div = 0
            /\ phase + 1 = Div /\ (phase + 1) % Div = 0 /\ ~Wraps
            /\ \A c \in Cias : /\ CountsA(c) => Clocks <= ta[c]
                               /\ CountsB(c) => Clocks <= tb[c]
<1>1. /\ Clocks \in Nat /\ phase \in 0 .. Div - 1 /\ Div \in Nat \ {0}
      /\ Ccount = Div * Clocks + phase /\ Ccount \in Nat
      /\ \A c \in Cias : /\ CountsA(c) => Clocks <= ta[c]
                         /\ CountsB(c) => Clocks <= tb[c]
  BY Behind, CiaAssumption
<1>2. PICK k \in Values :
        /\ elapsed + div10 = Ccount /\ Ccount + 1 < Wrap
        /\ Ccount + 1 = Div * (k + 1)
  BY BeforeEvent
<1>3. k \in Nat /\ Wrap \in Nat \ {0} /\ elapsed \in Nat /\ div10 \in Nat
  BY CiaAssumption DEF Values, TimerMax, IInv, TypeOK
<1>4. (elapsed + 1 + div10) % Wrap = Ccount + 1
  <2>1. elapsed + 1 + div10 = Ccount + 1 /\ Ccount + 1 \in 0 .. Wrap - 1
    BY <1>1, <1>2, <1>3
  <2> QED
    BY <1>3, <2>1, ModSmall
<1>5. Clocks = k /\ phase = Div - 1
  <2>1. Div * (k + 1) = Div * k + Div /\ Div * k \in Nat
    BY <1>1, <1>3
  <2>2. Ccount = Div * k + (Div - 1) /\ Div - 1 \in 0 .. Div - 1
    BY <1>1, <1>2, <2>1
  <2>3. Ccount \div Div = k /\ Ccount % Div = Div - 1
    BY <1>1, <1>3, <2>2, DivModUnique
  <2> QED
    BY <2>3, Behind DEF Clocks
<1>6. /\ (Ccount + 1) \div Div = Clocks + 1 /\ (Ccount + 1) % Div = 0
      /\ Div % Div = 0
  <2>1. Ccount + 1 = Div * (k + 1) + 0 /\ 0 \in 0 .. Div - 1
        /\ Div = Div * 1 + 0 /\ k + 1 \in Nat
    BY <1>1, <1>2, <1>3
  <2>2. Div % Div = 0
    BY <1>1, <2>1, DivModUnique
  <2>3. (Ccount + 1) \div Div = k + 1 /\ (Ccount + 1) % Div = 0
    <3>1. (Div * (k + 1) + 0) \div Div = k + 1 /\ (Div * (k + 1) + 0) % Div = 0
      BY <1>1, <2>1, DivModUnique
    <3> QED
      BY <2>1, <3>1, Zenon
  <2> QED
    BY <1>5, <2>2, <2>3
<1>7. phase + 1 = Div /\ (phase + 1) % Div = 0
  BY <1>1, <1>5, <1>6
<1>8. ~Wraps
  BY <1>1, <1>2, <1>3 DEF Wraps
<1> QED
  BY <1>1, <1>4, <1>6, <1>7, <1>8

\* CIA_update at the event is an E clock of the chips.
LEMMA ChipUpdated ==
  ASSUME IInv, NEW c \in Cias, CountsA(c) => Clocks <= ta[c],
         CountsB(c) => Clocks <= tb[c]
  PROVE  /\ ChipClock[c].ta = UpdatedTa(Clocks + 1)[c]
         /\ ChipClock[c].tb = UpdatedTb(Clocks + 1)[c]
         /\ ChipClock[c].startA = UpdatedCra(Clocks + 1)[c].start
         /\ ChipClock[c].startB = UpdatedCrb(Clocks + 1)[c].start
         /\ ChipClock[c].icr = icr[c] \cup Raised(c, Clocks + 1)
         /\ UpdatedTa(Clocks + 1)[c] \in Values
         /\ UpdatedTb(Clocks + 1)[c] \in Values
         /\ UpdatedCra(Clocks + 1)[c] \in Cra
         /\ UpdatedCrb(Clocks + 1)[c] \in Crb
<1>1. /\ chip[c].startA = cra[c].start /\ chip[c].startB = crb[c].start
      /\ chip[c].ta = IF CountsA(c) THEN ta[c] - Clocks ELSE ta[c]
      /\ chip[c].tb = IF CountsB(c) THEN tb[c] - Clocks ELSE tb[c]
      /\ chip[c].icr = icr[c]
  BY DEF IInv, TimersExact, ReadTa, ReadTb, Clocks
<1>2. /\ Clocks \in Nat /\ ta[c] \in Nat /\ tb[c] \in Nat
      /\ ta[c] \in Values /\ tb[c] \in Values /\ TimerMax \in Nat
      /\ la[c] \in Values /\ lb[c] \in Values
      /\ cra[c] \in Cra /\ crb[c] \in Crb
  BY Behind, CiaAssumption DEF IInv, TypeOK, Values, TimerMax
<1>3. ChipOvflA(c) <=> OvflA(c, Clocks + 1)
  BY <1>1, <1>2 DEF ChipOvflA, CountsA, OvflA
<1>4. ChipPulsesB(c) <=> CountsB(c) \/ (Chained(c) /\ OvflA(c, Clocks + 1))
  <2>1. chip[c].startB = 1 <=> crb[c].start = 1
    BY <1>1
  <2>2. /\ CountsB(c) <=> chip[c].startB = 1 /\ crb[c].inmode = "phi2"
        /\ Chained(c) <=> chip[c].startB = 1 /\ crb[c].inmode = "ta"
    BY <2>1 DEF CountsB, Chained
  <2>3. ChipPulsesB(c) <=> /\ chip[c].startB = 1
                          /\ \/ crb[c].inmode = "phi2"
                             \/ crb[c].inmode = "ta" /\ OvflA(c, Clocks + 1)
    BY <1>3, Zenon DEF ChipPulsesB
  <2> QED
    BY <2>2, <2>3, Zenon
<1>5. CountsB(c) => ~Chained(c)
  BY DEF CountsB, Chained
<1>6. ChipOvflB(c) <=> OvflB(c, Clocks + 1)
  <2>1. CountsB(c) => (chip[c].tb = 0 <=> tb[c] + 1 = Clocks + 1)
    BY <1>1, <1>2
  <2>2. ~CountsB(c) => (chip[c].tb = 0 <=> tb[c] = 0)
    BY <1>1
  <2>3. ChipOvflB(c) <=> ChipPulsesB(c) /\ chip[c].tb = 0
    BY Zenon DEF ChipOvflB
  <2>4. OvflB(c, Clocks + 1)
          <=> \/ CountsB(c) /\ tb[c] + 1 = Clocks + 1
              \/ Chained(c) /\ OvflA(c, Clocks + 1) /\ tb[c] = 0
    BY Zenon DEF OvflB
  <2>5. CASE CountsB(c)
    BY <1>4, <1>5, <2>1, <2>3, <2>4, <2>5, Zenon
  <2>6. CASE ~CountsB(c)
    BY <1>4, <2>2, <2>3, <2>4, <2>6, Zenon
  <2> QED
    BY <2>5, <2>6
<1>7. ChipClock[c].ta = UpdatedTa(Clocks + 1)[c]
      /\ UpdatedTa(Clocks + 1)[c] \in Values
  <2>1. chip[c].startA = 1 /\ cra[c].inmode = "phi2" <=> CountsA(c)
    BY <1>1 DEF CountsA
  <2>2. ChipClock[c].ta = IF OvflA(c, Clocks + 1) THEN la[c]
                          ELSE IF CountsA(c) THEN chip[c].ta - 1
                          ELSE chip[c].ta
    BY <1>3, <2>1 DEF ChipClock
  <2>3. UpdatedTa(Clocks + 1)[c]
          = IF OvflA(c, Clocks + 1) THEN la[c]
            ELSE IF CountsA(c) THEN ta[c] - (Clocks + 1) ELSE ta[c]
    BY DEF UpdatedTa
  <2>4. CountsA(c) /\ ~OvflA(c, Clocks + 1) => Clocks + 1 <= ta[c]
    BY <1>2 DEF OvflA
  <2> QED
    BY <1>1, <1>2, <2>2, <2>3, <2>4 DEF Values
<1>8. ChipClock[c].tb = UpdatedTb(Clocks + 1)[c]
      /\ UpdatedTb(Clocks + 1)[c] \in Values
  <2>2. ChipClock[c].tb = IF OvflB(c, Clocks + 1) THEN lb[c]
                          ELSE IF CountsB(c) \/ (Chained(c) /\ OvflA(c, Clocks + 1))
                          THEN chip[c].tb - 1 ELSE chip[c].tb
    BY <1>4, <1>6 DEF ChipClock
  <2>3. UpdatedTb(Clocks + 1)[c]
          = IF OvflB(c, Clocks + 1) THEN lb[c]
            ELSE IF CountsB(c) THEN tb[c] - (Clocks + 1)
            ELSE IF Chained(c) /\ OvflA(c, Clocks + 1) THEN tb[c] - 1
            ELSE tb[c]
    BY DEF UpdatedTb
  <2>4. /\ CountsB(c) /\ ~OvflB(c, Clocks + 1) => Clocks + 1 <= tb[c]
        /\ Chained(c) /\ OvflA(c, Clocks + 1) /\ ~OvflB(c, Clocks + 1)
             => tb[c] >= 1
    BY <1>2 DEF OvflB
  <2>5. CASE OvflB(c, Clocks + 1)
    BY <1>2, <2>2, <2>3, <2>5
  <2>6. CASE ~OvflB(c, Clocks + 1) /\ CountsB(c)
    <3>1. /\ ChipClock[c].tb = chip[c].tb - 1
          /\ UpdatedTb(Clocks + 1)[c] = tb[c] - (Clocks + 1)
      BY <2>2, <2>3, <2>6
    <3>2. chip[c].tb = tb[c] - Clocks /\ Clocks + 1 <= tb[c]
      BY <1>1, <2>4, <2>6
    <3> QED
      BY <1>2, <3>1, <3>2 DEF Values
  <2>7. CASE ~OvflB(c, Clocks + 1) /\ ~CountsB(c)
    <3>1. CASE Chained(c) /\ OvflA(c, Clocks + 1)
      BY <1>1, <1>2, <2>2, <2>3, <2>4, <2>7, <3>1 DEF Values
    <3>2. CASE ~(Chained(c) /\ OvflA(c, Clocks + 1))
      BY <1>1, <1>2, <2>2, <2>3, <2>7, <3>2
    <3> QED
      BY <3>1, <3>2
  <2> QED
    BY <2>5, <2>6, <2>7
<1>9. /\ ChipClock[c].startA = UpdatedCra(Clocks + 1)[c].start
      /\ UpdatedCra(Clocks + 1)[c] \in Cra
  BY <1>1, <1>2, <1>3 DEF ChipClock, UpdatedCra, Cra
<1>10. /\ ChipClock[c].startB = UpdatedCrb(Clocks + 1)[c].start
       /\ UpdatedCrb(Clocks + 1)[c] \in Crb
  BY <1>1, <1>2, <1>6 DEF ChipClock, UpdatedCrb, Crb
<1>11. ChipClock[c].icr = icr[c] \cup Raised(c, Clocks + 1)
  BY <1>1, <1>3, <1>6 DEF ChipClock, Raised
<1> QED
  BY <1>7, <1>8, <1>9, <1>10, <1>11

\* CIA_handler: the timers reach the chips' state, the flags their levels, and
\* the next event is scheduled.
LEMMA CiaEventInv ==
  ASSUME IInv, CiaEvent
  PROVE  IInv'
<1> DEFINE cc == (elapsed + 1 + div10) % Wrap
<1>1. /\ active = 1 /\ remaining = 1
      /\ ta' = UpdatedTa(cc \div Div) /\ tb' = UpdatedTb(cc \div Div)
      /\ cra' = UpdatedCra(cc \div Div) /\ crb' = UpdatedCrb(cc \div Div)
      /\ Raise([c \in Cias |-> Raised(c, cc \div Div)])
      /\ CalcTimers(cc % Div) /\ ReferenceCycle
      /\ UNCHANGED <<la, lb, imask>>
  BY DEF CiaEvent, latchVars
<1>2. /\ cc \div Div = Clocks + 1 /\ cc % Div = 0
      /\ phase + 1 = Div /\ (phase + 1) % Div = 0 /\ ~Wraps
      /\ \A c \in Cias : /\ CountsA(c) => Clocks <= ta[c]
                         /\ CountsB(c) => Clocks <= tb[c]
  BY <1>1, EventClocks
<1> HIDE DEF cc
<1> DEFINE f == [c \in Cias |-> Raised(c, Clocks + 1)]
<1>3. /\ ta' = UpdatedTa(Clocks + 1) /\ tb' = UpdatedTb(Clocks + 1)
      /\ cra' = UpdatedCra(Clocks + 1) /\ crb' = UpdatedCrb(Clocks + 1)
      /\ Raise(f) /\ CalcTimers(0) /\ chip' = ChipClock /\ phase' = 0
  BY <1>1, <1>2 DEF ReferenceCycle
<1>4. TypeOK /\ LevelTriggered /\ ChipType
  BY DEF IInv
<1>5. ASSUME NEW c \in Cias
      PROVE  /\ ChipClock[c].ta = ta'[c] /\ ChipClock[c].tb = tb'[c]
             /\ ChipClock[c].startA = cra'[c].start
             /\ ChipClock[c].startB = crb'[c].start
             /\ ChipClock[c].icr = icr[c] \cup f[c]
             /\ ta'[c] \in Values /\ tb'[c] \in Values
             /\ cra'[c] \in Cra /\ crb'[c] \in Crb
  BY <1>2, <1>3, ChipUpdated
<1>6. /\ ta' \in [Cias -> Values] /\ tb' \in [Cias -> Values]
      /\ cra' \in [Cias -> Cra] /\ crb' \in [Cias -> Crb]
  <2>1. /\ ta' = [c \in Cias |-> ta'[c]] /\ tb' = [c \in Cias |-> tb'[c]]
        /\ cra' = [c \in Cias |-> cra'[c]] /\ crb' = [c \in Cias |-> crb'[c]]
    BY <1>3 DEF UpdatedTa, UpdatedTb, UpdatedCra, UpdatedCrb
  <2> QED
    BY <1>5, <2>1
<1>7. \A c \in Cias : f[c] \in SUBSET Flags
  BY DEF Raised, Flags
<1>8. /\ icr' = [c \in Cias |-> icr[c] \cup f[c]]
      /\ ir' = [c \in Cias |-> IF f[c] = {} THEN ir[c]
                  ELSE IF icr'[c] \cap imask[c] # {} THEN 1 ELSE 0]
      /\ intreq' = [c \in Cias |-> IF f[c] # {} /\ ir'[c] = 1 THEN 1
                                   ELSE intreq[c]]
  BY <1>3 DEF Raise
<1> HIDE DEF f
<1>9. icr' \in [Cias -> SUBSET Flags]
  BY <1>4, <1>7, <1>8 DEF TypeOK
<1>10. ir' \in [Cias -> {0, 1}] /\ intreq' \in [Cias -> {0, 1}]
  BY <1>4, <1>8 DEF TypeOK
<1>11. LevelTriggered'
  BY <1>4, <1>8 DEF LevelTriggered
<1>12. TimersType'
  BY <1>1, <1>4, <1>6, <1>9, <1>10 DEF TimersType, TypeOK
<1>13. ChipType'
  <2>1. ASSUME NEW c \in Cias PROVE ChipClock[c] \in Chip
    <3>1. ChipClock[c] = [ta |-> ChipClock[c].ta, tb |-> ChipClock[c].tb,
                          startA |-> ChipClock[c].startA,
                          startB |-> ChipClock[c].startB,
                          icr |-> ChipClock[c].icr]
      BY DEF ChipClock
    <3>2. cra'[c].start \in {0, 1} /\ crb'[c].start \in {0, 1}
      BY <1>5 DEF Cra, Crb
    <3>3. icr[c] \cup f[c] \in SUBSET Flags
      BY <1>4, <1>7 DEF TypeOK
    <3> QED
      BY <1>5, <3>1, <3>2, <3>3 DEF Chip
  <2>2. ChipClock = [c \in Cias |-> ChipClock[c]]
    BY DEF ChipClock
  <2>3. chip' \in [Cias -> Chip] /\ phase' \in 0 .. Div - 1
    BY <1>3, <2>1, <2>2, CiaAssumption
  <2> QED
    BY <2>3 DEF ChipType, Chip
<1>14. Synced'
  BY <1>3, <1>5, <1>8 DEF Synced
<1>15. 0 \in 0 .. Div - 1
  BY CiaAssumption
<1> QED
  BY <1>3, <1>11, <1>12, <1>13, <1>14, <1>15, CalcInv

\* The registers after CIA_reset, and the chips'.
LEMMA InitInv == Init => IInv
<1> SUFFICES ASSUME Init PROVE IInv
  OBVIOUS
<1>1. TimerMax \in Values /\ Div \in Nat \ {0} /\ Wrap \in Nat \ {0}
  BY CiaAssumption DEF TimerMax, Values
<1>2. TypeOK
  BY <1>1 DEF Init, Stopped, TypeOK, Cra, Crb, Flags
<1>3. LevelTriggered /\ ChipType /\ Scheduled
  BY <1>1 DEF Init, Stopped, ChipStopped, LevelTriggered, ChipType, Scheduled,
              CountsA, CountsB, Flags
<1>4. TimersExact
  <2>1. 0 \in 0 .. Wrap - 1 /\ 0 \in 0 .. Div - 1
    BY <1>1
  <2>2. 0 % Wrap = 0 /\ 0 % Div = 0
    BY <1>1, <2>1, ModSmall
  <2>3. Ccount % Div = phase
    BY <2>2 DEF Init, Ccount
  <2>4. \A c \in Cias : /\ ReadTa(c) = chip[c].ta /\ ReadTb(c) = chip[c].tb
                        /\ cra[c].start = chip[c].startA
                        /\ crb[c].start = chip[c].startB
                        /\ icr[c] = chip[c].icr
    BY DEF Init, Stopped, ChipStopped, ReadTa, ReadTb, CountsA, CountsB
  <2> QED
    BY <2>3, <2>4 DEF TimersExact
<1> QED
  BY <1>2, <1>3, <1>4 DEF IInv

\* CIA_reset stops the timers and the chips' together.
LEMMA ResetInv == IInv /\ CIA_reset => IInv'
<1> SUFFICES ASSUME IInv, CIA_reset PROVE IInv'
  OBVIOUS
<1> USE DEF CIA_reset
<1>1. TimerMax \in Values /\ 0 \in 0 .. Div - 1 /\ TypeOK
  BY CiaAssumption DEF TimerMax, Values, IInv
<1>2. TimersType'
  BY <1>1 DEF Stopped, TypeOK, TimersType, Cra, Crb, Flags
<1>3. LevelTriggered' /\ ChipType'
  BY <1>1 DEF ChipStopped, LevelTriggered, ChipType, Flags
<1>4. Synced'
  BY DEF Stopped, ChipStopped, Synced
<1>5. phase' = 0 /\ CalcTimers(0)
  OBVIOUS
<1> QED
  BY <1>1, <1>2, <1>3, <1>4, <1>5, CalcInv

\* Every step keeps the chips' state.
LEMMA NextInv == IInv /\ [Next]_vars => IInv'
<1> SUFFICES ASSUME IInv, [Next]_vars PROVE IInv'
  OBVIOUS
<1>1. CASE Cycle
  BY <1>1, CycleInv
<1>2. CASE CiaEvent
  BY <1>2, CiaEventInv
<1>3. ASSUME NEW c \in Cias, Access(c) PROVE IInv'
  BY <1>3, WriteLoInv, WriteHiInv, WriteCrInv, FlagAccessInv DEF Access
<1>5. CASE CIA_reset
  BY <1>5, ResetInv
<1>4. CASE UNCHANGED vars
  <2> USE <1>4 DEF vars, timerVars, latchVars, eventVars, refVars
  <2>1. TypeOK' /\ LevelTriggered' /\ ChipType'
    BY DEF IInv, TypeOK, LevelTriggered, ChipType
  <2>2. TimersExact'
    BY DEF IInv, TimersExact, ReadTa, ReadTb, CountsA, CountsB, Ccount
  <2>3. Scheduled'
    BY DEF IInv, Scheduled, CountsA, CountsB
  <2> QED
    BY <2>1, <2>2, <2>3 DEF IInv
<1> QED
  BY <1>1, <1>2, <1>3, <1>4, <1>5 DEF Next

-----------------------------------------------------------------------------
(* The theorems.                                                           *)

\* Everything the module says of a state holds, and with it what makes it
\* inductive: the event that is scheduled lies at the end of an E clock before
\* any timer can be further behind than its value.
THEOREM Invariance == Spec => []IInv
<1>1. Init => IInv
  BY InitInv
<1>2. IInv /\ [Next]_vars => IInv'
  BY NextInv
<1> QED
  BY <1>1, <1>2, PTL DEF Spec

\* CIA_update never takes a timer past its underflow (the assertions of
\* CIA_update), the event always lies in the future, and an enabled flag keeps
\* requesting its interrupt.
THEOREM TimersSafe == Spec => []Inv
<1>1. IInv => Inv
  BY DEF IInv, Inv
<1> QED
  BY <1>1, Invariance, PTL

\* The lazy timers are exact: a program that reads a timer, a control register
\* or the flags at any cycle gets what chips that count every E clock hold.
THEOREM LazyTimersAreExact == Spec => []TimersExact
<1>1. IInv => TimersExact
  BY DEF IInv
<1> QED
  BY <1>1, Invariance, PTL

\* RethinkICRA and RethinkICRB: a flag that comes while its interrupt is
\* enabled requests the interrupt, and no request is taken away.
LEMMA RaiseRequests ==
  ASSUME NEW f, Raise(f), NEW c \in Cias
  PROVE  /\ (icr'[c] \ icr[c]) \cap imask[c] # {} => intreq'[c] = 1
         /\ intreq[c] = 1 => intreq'[c] = 1
<1>1. /\ icr'[c] = icr[c] \cup f[c]
      /\ ir'[c] = IF f[c] = {} THEN ir[c]
                  ELSE IF icr'[c] \cap imask[c] # {} THEN 1 ELSE 0
      /\ intreq'[c] = IF f[c] # {} /\ ir'[c] = 1 THEN 1 ELSE intreq[c]
  BY DEF Raise
<1>2. ASSUME (icr'[c] \ icr[c]) \cap imask[c] # {} PROVE intreq'[c] = 1
  <2>1. f[c] # {} /\ icr'[c] \cap imask[c] # {}
    BY <1>1, <1>2
  <2> QED
    BY <1>1, <2>1
<1> QED
  BY <1>1, <1>2

\* What a step may not do to one chip's flags and request.
StepInTime(c) ==
  /\ ((icr'[c] \ icr[c]) \ Late(c)) \cap imask[c] # {} => intreq'[c] = 1
  /\ intreq[c] = 1 /\ icr'[c] \cap imask'[c] # {} => intreq'[c] = 1

\* A program's access: every write that brings a timer up to date raises its
\* flags, CIA-A's write to the printer sets FLG alone, and an acknowledgement
\* thinks of both chips again.
LEMMA AccessInTime ==
  ASSUME TypeOK, NEW c \in Cias, Access(c), NEW x \in Cias
  PROVE  StepInTime(x)
<1>1. ASSUME \E f : Raise(f) PROVE StepInTime(x)
  BY <1>1, RaiseRequests DEF StepInTime
<1>2. ASSUME UNCHANGED <<icr, intreq>> PROVE StepInTime(x)
  BY <1>2 DEF StepInTime
<1>3. ASSUME NEW t, NEW u, NEW a, NEW b, NEW n, Written(t, u, a, b, n)
      PROVE  StepInTime(x)
  BY <1>1, <1>3 DEF Written
<1>4. ASSUME NEW v \in Los, WriteLoA(c, v) \/ WriteLoB(c, v)
      PROVE  StepInTime(x)
  BY <1>3, <1>4 DEF WriteLoA, WriteLoB
<1>5. ASSUME NEW v \in His, WriteHiA(c, v) \/ WriteHiB(c, v)
      PROVE  StepInTime(x)
  BY <1>3, <1>5 DEF WriteHiA, WriteHiB
<1>6. ASSUME NEW v \in CraValues, NEW load \in BOOLEAN, WriteCra(c, v, load)
      PROVE  StepInTime(x)
  BY <1>3, <1>6 DEF WriteCra
<1>7. ASSUME NEW v \in CrbValues, NEW load \in BOOLEAN, WriteCrb(c, v, load)
      PROVE  StepInTime(x)
  BY <1>3, <1>7 DEF WriteCrb
<1>8. ASSUME NEW m \in Masks, WriteMask(c, m) PROVE StepInTime(x)
  BY <1>2, <1>8 DEF WriteMask, timerVars
<1>9. CASE ReadIcr(c)
  BY <1>9 DEF ReadIcr, TypeOK, StepInTime
<1>10. ASSUME NEW f \in Others(c), RaiseFlag(c, f) PROVE StepInTime(x)
  BY <1>1, <1>10 DEF RaiseFlag
<1>11. CASE WritePrb(c)
  <2>1. c = "A" /\ intreq' = intreq /\ icr' = [icr EXCEPT ![c] = @ \cup {"flg"}]
    BY <1>11 DEF WritePrb
  <2>2. (icr'[x] \ icr[x]) \ Late(x) = {}
    BY <2>1 DEF TypeOK, Late
  <2> QED
    BY <2>1, <2>2 DEF StepInTime
<1>12. CASE ClearIntreq(c)
  <2>1. /\ icr' = icr /\ imask' = imask
        /\ ir'[x] = IF icr[x] \cap imask[x] # {} THEN 1 ELSE 0
        /\ intreq'[x] = IF ir'[x] = 1 THEN 1
                        ELSE IF x = c THEN 0 ELSE intreq[x]
    BY <1>12 DEF ClearIntreq
  <2> QED
    BY <2>1 DEF StepInTime
<1> HIDE DEF StepInTime
<1> QED
  BY <1>4, <1>5, <1>6, <1>7, <1>8, <1>9, <1>10, <1>11, <1>12 DEF Access

\* No step sets a flag whose interrupt is enabled without the interrupt (the
\* event, a write to a register that finds one due, another source's flag),
\* but for the FLG of CIA-A; and none takes the request of a chip away while
\* one of its enabled flags is set, that FLG included.
THEOREM FlagsInterruptInTime == Spec => InterruptInTime
<1>1. ASSUME TypeOK, [Next]_vars, NEW c \in Cias PROVE StepInTime(c)
  <2>1. CASE Cycle
    BY <2>1 DEF Cycle, timerVars, StepInTime
  <2>2. CASE CiaEvent
    BY <2>2, RaiseRequests DEF CiaEvent, StepInTime
  <2>3. CASE CIA_reset
    BY <2>3 DEF CIA_reset, StepInTime
  <2>4. ASSUME NEW x \in Cias, Access(x) PROVE StepInTime(c)
    BY <1>1, <2>4, AccessInTime
  <2>5. CASE UNCHANGED vars
    BY <2>5 DEF vars, timerVars, StepInTime
  <2> QED
    BY <1>1, <2>1, <2>2, <2>3, <2>4, <2>5 DEF Next
<1>2. TypeOK /\ [Next]_vars => \A c \in Cias : StepInTime(c)
  BY <1>1
<1>3. IInv => TypeOK
  BY DEF IInv
<1>4. (\A c \in Cias : StepInTime(c)) =>
        \A c \in Cias :
          /\ ((icr'[c] \ icr[c]) \ Late(c)) \cap imask[c] # {} => intreq'[c] = 1
          /\ intreq[c] = 1 /\ icr'[c] \cap imask'[c] # {} => intreq'[c] = 1
  BY DEF StepInTime
<1> QED
  BY <1>2, <1>3, <1>4, Invariance, PTL DEF Spec, InterruptInTime

=============================================================================
