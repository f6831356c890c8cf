------------------------ MODULE Native2Amiga_proofs -------------------------
(***************************************************************************)
(* Theorems about the pipe of CommPipe when one thread writes it, for any  *)
(* ring size, any wake-up threshold below it and any set of words; and     *)
(* about the calls of Native2Amiga, which go through it: for any threads,  *)
(* calls and pipe, no call is left without an interrupt to come; and for   *)
(* one thread, the calls made are those it asked for, whole and in order.  *)
(***************************************************************************)
EXTENDS Native2Amiga, SequenceTheorems, TLAPS

-----------------------------------------------------------------------------
(* The pipe: the inductive invariant.                                      *)

\* The sections of the two calls that run with the lock held.
WriterHolds(w) ==
  path[w] = "locked" /\ wpc[w] \in {"full", "store", "advance", "check", "wake",
                           "unlock"}
ReaderHolds == rpc \in {"empty", "release", "take", "wake", "unlock"}

MutexInv(w) ==
  /\ ~ (WriterHolds(w) /\ ReaderHolds)
  /\ lock = IF WriterHolds(w) \/ ReaderHolds THEN 0 ELSE 1
  /\ wpc[w] \in {"lock", "full", "sleep", "relock", "unlock"} => path[w] = "locked"

\* The reader between setting reader_waiting and being woken.
ReaderDown == rpc \in {"release", "sleep"}

ReaderInv(w) ==
  /\ readerWaiting = 1 => ReaderDown
  /\ readerWait = IF ReaderDown /\ readerWaiting = 0 THEN 1 ELSE 0
  /\ (ReaderDown /\ readerWaiting = 0) \/ rpc \in {"relock", "take"} => HasData
  /\ wpc[w] \in {"store", "advance", "check"} /\ path[w] = "fast"
       => readerWaiting = 1
  /\ wpc[w] = "wake" => readerWaiting = 1
  /\ wpc[w] \in {"check", "wake"} /\ readerWaiting = 1 => HasData
  /\ readerWaiting = 1 => \/ Count < Chunks
                          \/ wpc[w] \in {"check", "wake"} /\ Count <= Chunks
  /\ readerWaiting = 1 /\ HasData /\ wpc[w] \in {"idle", "unlock"}
       => noBuffer[w] = 0

WriterInv(w) ==
  /\ writerWaiting = 1 => /\ wpc[w] = "sleep"
                          /\ nxwrp[w] = rdp \/ rpc = "wake"
  /\ writerWait = IF wpc[w] = "sleep" /\ writerWaiting = 0 THEN 1 ELSE 0
  /\ wpc[w] \in {"test", "lock", "full", "sleep", "relock", "store",
                 "advance"} => nxwrp[w] = Inc(wrp)
  /\ wpc[w] = "advance" => data[wrp] = word[w]
  /\ wpc[w] \in Unsent => word[w] \in Words
  /\ wpc[w] \in {"relock", "store", "advance"}
       \/ (wpc[w] = "sleep" /\ (writerWaiting = 0 \/ rpc = "wake"))
     => nxwrp[w] # rdp

-----------------------------------------------------------------------------
(* Type correctness, for any set of writers.                               *)

LEMMA IncType == ASSUME NEW i \in Slots PROVE Inc(i) \in Slots
BY SizesAssumption DEF Inc, Slots

LEMMA TypeStep == ASSUME TypeOK, [Next]_vars PROVE TypeOK'
<1> USE DEF TypeOK
<1>1. ASSUME NEW w \in Writers, NEW v \in Words, NEW nb \in {0, 1},
             BeginWrite(w, v, nb)
      PROVE TypeOK'
  BY <1>1, IncType DEF BeginWrite, WGoto, pipeVars, readerVars, WriterPcs
<1>2. ASSUME NEW w \in Writers, TestReader(w) PROVE TypeOK'
  BY <1>2 DEF TestReader, WGoto, pipeVars, readerVars, WriterPcs
<1>3. ASSUME NEW w \in Writers, WriterLock(w) PROVE TypeOK'
  BY <1>3 DEF WriterLock, WGoto, pipeVars, readerVars, WriterPcs
<1>4. ASSUME NEW w \in Writers, WriterFull(w) PROVE TypeOK'
  BY <1>4 DEF WriterFull, WGoto, pipeVars, readerVars, WriterPcs
<1>5. ASSUME NEW w \in Writers, WriterRoom(w) PROVE TypeOK'
  BY <1>5 DEF WriterRoom, WGoto, pipeVars, readerVars, WriterPcs
<1>6. ASSUME NEW w \in Writers, WriterSleep(w) PROVE TypeOK'
  BY <1>6 DEF WriterSleep, WGoto, pipeVars, readerVars, WriterPcs
<1>7. ASSUME NEW w \in Writers, WriterRelock(w) PROVE TypeOK'
  BY <1>7 DEF WriterRelock, WGoto, pipeVars, readerVars, WriterPcs
<1>8. ASSUME NEW w \in Writers, Store(w) PROVE TypeOK'
  BY <1>8 DEF Store, WGoto, pipeVars, readerVars, WriterPcs
<1>9. ASSUME NEW w \in Writers, Advance(w) PROVE TypeOK'
  BY <1>9 DEF Advance, WGoto, pipeVars, readerVars, WriterPcs
<1>10. ASSUME NEW w \in Writers, MaybeWakeReader(w) PROVE TypeOK'
  BY <1>10 DEF MaybeWakeReader, AfterWake, WGoto, pipeVars, readerVars, WriterPcs
<1>11. ASSUME NEW w \in Writers, WakeReader(w) PROVE TypeOK'
  BY <1>11 DEF WakeReader, AfterWake, WGoto, pipeVars, readerVars, WriterPcs
<1>12. ASSUME NEW w \in Writers, WriterUnlock(w) PROVE TypeOK'
  BY <1>12 DEF WriterUnlock, WGoto, pipeVars, readerVars, WriterPcs
<1>13. CASE BeginRead
  BY <1>13 DEF BeginRead, RGoto, pipeVars, writerVars, ReaderPcs
<1>14. CASE ReaderLock
  BY <1>14 DEF ReaderLock, RGoto, pipeVars, writerVars, ReaderPcs
<1>15. CASE ReaderEmpty
  BY <1>15 DEF ReaderEmpty, RGoto, pipeVars, writerVars, ReaderPcs
<1>16. CASE ReaderReady
  BY <1>16 DEF ReaderReady, RGoto, pipeVars, writerVars, ReaderPcs
<1>17. CASE ReaderRelease
  BY <1>17 DEF ReaderRelease, RGoto, pipeVars, writerVars, ReaderPcs
<1>18. CASE ReaderSleep
  BY <1>18 DEF ReaderSleep, RGoto, pipeVars, writerVars, ReaderPcs
<1>19. CASE ReaderRelock
  BY <1>19 DEF ReaderRelock, RGoto, pipeVars, writerVars, ReaderPcs
<1>20. CASE Take
  BY <1>20, IncType DEF Take, RGoto, pipeVars, writerVars, ReaderPcs
<1>21. CASE WakeWriter
  BY <1>21 DEF WakeWriter, RGoto, pipeVars, writerVars, ReaderPcs
<1>22. CASE ReaderUnlock
  BY <1>22 DEF ReaderUnlock, RGoto, pipeVars, writerVars, ReaderPcs
<1>23. CASE UNCHANGED vars
  BY <1>23 DEF vars, pipeVars, writerVars, readerVars
<1> QED
  BY <1>1, <1>2, <1>3, <1>4, <1>5, <1>6, <1>7, <1>8, <1>9, <1>10, <1>11, <1>12, <1>13, <1>14, <1>15, <1>16, <1>17, <1>18, <1>19, <1>20, <1>21, <1>22, <1>23 DEF Next, WriteStep, ReadStep

\* Every reachable state of the pipe is well typed: no index leaves the ring
\* and no semaphore count is negative, with any number of writers.
THEOREM TypeCorrect == Spec => []TypeOK
<1>1. Init => TypeOK
  BY SizesAssumption DEF Init, TypeOK, Slots, WriterPcs, ReaderPcs
<1>2. TypeOK /\ [Next]_vars => TypeOK'
  BY TypeStep
<1> QED
  BY <1>1, <1>2, PTL DEF Spec

-----------------------------------------------------------------------------
(* The invariant, for one writer W.                                        *)

Inv(w) == MutexInv(w) /\ ReaderInv(w) /\ WriterInv(w)

\* Advancing the write index by one slot that is not the reader's adds one
\* word to the ring; advancing the read index of a ring that holds a word
\* removes one.
LEMMA CountWrite ==
  ASSUME NEW r \in Slots, NEW v \in Slots, Inc(v) # r
  PROVE  (IF Inc(v) >= r THEN Inc(v) - r ELSE Inc(v) + Size - r)
           = (IF v >= r THEN v - r ELSE v + Size - r) + 1
BY SizesAssumption DEF Inc, Slots

LEMMA CountRead ==
  ASSUME NEW r \in Slots, NEW v \in Slots, v # r
  PROVE  (IF v >= Inc(r) THEN v - Inc(r) ELSE v + Size - Inc(r))
           = (IF v >= r THEN v - r ELSE v + Size - r) - 1
BY SizesAssumption DEF Inc, Slots

LEMMA InvStep ==
  ASSUME NEW W, Writers = {W}, TypeOK, TypeOK', Inv(W), [Next]_vars
  PROVE  Inv(W)'
<1> USE SizesAssumption DEF Inv, MutexInv, ReaderInv, WriterInv, WriterHolds,
        ReaderHolds, ReaderDown, HasData, Count, WGoto, RGoto, pipeVars,
        writerVars, readerVars, Unsent
<1>0. W \in Writers /\ rdp \in Slots /\ wrp \in Slots /\ nxwrp[W] \in Slots
  BY DEF TypeOK
<1>1. ASSUME NEW v \in Words, NEW nb \in {0, 1}, BeginWrite(W, v, nb)
      PROVE  Inv(W)'
  BY <1>0, <1>1 DEF BeginWrite, TypeOK
<1>2. CASE TestReader(W)
  BY <1>0, <1>2 DEF TestReader, TypeOK, Inc, Slots
<1>3. CASE WriterLock(W)
  BY <1>0, <1>3 DEF WriterLock, TypeOK
<1>4. CASE WriterFull(W)
  BY <1>0, <1>4 DEF WriterFull, TypeOK
<1>5. CASE WriterRoom(W)
  BY <1>0, <1>5 DEF WriterRoom, TypeOK, Inc, Slots
<1>6. CASE WriterSleep(W)
  BY <1>0, <1>6 DEF WriterSleep, TypeOK
<1>7. CASE WriterRelock(W)
  BY <1>0, <1>7 DEF WriterRelock, TypeOK, Inc, Slots
<1>8. CASE Store(W)
  BY <1>0, <1>8 DEF Store, TypeOK, Slots
<1>9. CASE Advance(W)
  BY <1>0, <1>9, CountWrite DEF Advance, TypeOK, Inc, Slots
<1>10. CASE MaybeWakeReader(W)
  BY <1>0, <1>10 DEF MaybeWakeReader, TypeOK, AfterWake, Slots
<1>11. CASE WakeReader(W)
  BY <1>0, <1>11 DEF WakeReader, TypeOK, AfterWake, Slots
<1>12. CASE WriterUnlock(W)
  BY <1>0, <1>12 DEF WriterUnlock, TypeOK
<1>13. CASE BeginRead
  BY <1>0, <1>13 DEF BeginRead, TypeOK
<1>14. CASE ReaderLock
  BY <1>0, <1>14 DEF ReaderLock, TypeOK
<1>15. CASE ReaderEmpty
  BY <1>0, <1>15 DEF ReaderEmpty, TypeOK, Slots
<1>16. CASE ReaderReady
  BY <1>0, <1>16 DEF ReaderReady, TypeOK
<1>17. CASE ReaderRelease
  BY <1>0, <1>17 DEF ReaderRelease, TypeOK
<1>18. CASE ReaderSleep
  BY <1>0, <1>18 DEF ReaderSleep, TypeOK
<1>19. CASE ReaderRelock
  BY <1>0, <1>19 DEF ReaderRelock, TypeOK
<1>20. CASE Take
  <2>1. HasData /\ Count' = Count - 1
    BY <1>0, <1>20, CountRead DEF Take
  <2>2. MutexInv(W)' /\ ReaderInv(W)'
    BY <1>0, <1>20, <2>1 DEF Take, TypeOK, Slots
  <2>3. WriterInv(W)'
    BY <1>0, <1>20, <2>1 DEF Take, TypeOK, Inc, Slots
  <2> QED
    BY <2>2, <2>3
<1>21. CASE WakeWriter
  BY <1>0, <1>21 DEF WakeWriter, TypeOK, Inc, Slots
<1>22. CASE ReaderUnlock
  BY <1>0, <1>22 DEF ReaderUnlock, TypeOK
<1>23. CASE UNCHANGED vars
  BY <1>23 DEF vars
<1> HIDE DEF Inv
<1> QED
  BY <1>1, <1>2, <1>3, <1>4, <1>5, <1>6, <1>7, <1>8, <1>9, <1>10, <1>11, <1>12, <1>13, <1>14, <1>15, <1>16, <1>17, <1>18, <1>19, <1>20, <1>21, <1>22, <1>23 DEF Next, WriteStep, ReadStep

\* The inductive invariant holds in every state of a pipe with one writer.
THEOREM Invariance ==
  ASSUME NEW W, Writers = {W}
  PROVE  Spec => [](TypeOK /\ Inv(W))
<1>1. Init => Inv(W)
  BY SizesAssumption DEF Init, Inv, MutexInv, ReaderInv, WriterInv,
     WriterHolds, ReaderHolds, ReaderDown, HasData, Count, Unsent
<1>2. TypeOK /\ TypeOK' /\ Inv(W) /\ [Next]_vars => Inv(W)'
  BY InvStep
<1> QED
  BY <1>1, <1>2, TypeCorrect, PTL DEF Spec

-----------------------------------------------------------------------------
(* The properties the runs check.                                          *)

\* With one writer, of any ring and threshold: no write passes the reader, no
\* read passes the writer, no wake-up is lost, and the two threads never
\* sleep on each other.
THEOREM Safety ==
  ASSUME NEW W, Writers = {W}
  PROVE  Spec => [](NoOverwrite /\ NoUnderflow /\ NoLostWakeup
                     /\ NotBothAsleep)
<1> SUFFICES ASSUME TypeOK, Inv(W)
             PROVE  NoOverwrite /\ NoUnderflow /\ NoLostWakeup
                      /\ NotBothAsleep
  BY Invariance, PTL
<1> USE SizesAssumption DEF TypeOK, Inv, MutexInv, ReaderInv, WriterInv,
        ReaderDown, HasData, Count, Slots
<1>1. NoOverwrite
  BY DEF NoOverwrite
<1>2. NoUnderflow
  BY DEF NoUnderflow
<1>3. NoLostWakeup
  BY DEF NoLostWakeup
<1>4. NotBothAsleep
  BY DEF NotBothAsleep, Inc
<1> QED
  BY <1>1, <1>2, <1>3, <1>4

-----------------------------------------------------------------------------
(* The pipe implements the queue.                                          *)

\* The slot of the i-th oldest word.
Slot(i) == IF rdp + i - 1 < Size THEN rdp + i - 1 ELSE rdp + i - 1 - Size

LEMMA CountType ==
  ASSUME TypeOK
  PROVE  /\ Count \in 0 .. (Size - 1)
         /\ \A i \in 1 .. Count : Slot(i) \in Slots /\ Slot(i) # wrp
BY SizesAssumption DEF TypeOK, Count, Slot, Slots

LEMMA ContentsType ==
  ASSUME TypeOK
  PROVE  /\ Contents \in Seq(Words \cup {NoWord})
         /\ Len(Contents) = Count
         /\ \A i \in 1 .. Count : Contents[i] = data[Slot(i)]
<1>1. Contents = [i \in 1 .. Count |-> data[Slot(i)]]
  BY DEF Contents, Slot
<1>2. Count \in Nat
  BY CountType
<1>3. \A i \in 1 .. Count : data[Slot(i)] \in Words \cup {NoWord}
  BY CountType DEF TypeOK
<1> QED
  BY <1>1, <1>2, <1>3

\* Nothing the reader has still to receive changes while the ring and the
\* indices stay, or when the free slot at wrp is written.
LEMMA ContentsSame ==
  ASSUME TypeOK, rdp' = rdp, wrp' = wrp,
         \A i \in Slots : i # wrp => data'[i] = data[i]
  PROVE  Contents' = Contents
<1>1. Count' = Count
  BY DEF Count
<1>2. \A i \in 1 .. Count : Slot(i)' = Slot(i) /\ data'[Slot(i)] = data[Slot(i)]
  BY CountType DEF Slot
<1>3. Contents = [i \in 1 .. Count |-> data[Slot(i)]]
  BY DEF Contents, Slot
<1>4. Contents' = [i \in 1 .. Count' |-> data'[Slot(i)']]
  BY DEF Contents, Slot
<1> QED
  BY <1>1, <1>2, <1>3, <1>4

\* Moving wrp over a slot that holds v appends v ...
LEMMA ContentsAppend ==
  ASSUME TypeOK, rdp' = rdp, data' = data, wrp' = Inc(wrp), Inc(wrp) # rdp
  PROVE  /\ Contents' = Append(Contents, data[wrp])
         /\ Len(Contents) < Size - 1
<1> USE SizesAssumption DEF TypeOK
<1>1. Count' = Count + 1
  BY CountWrite DEF Count
<1>2. Count \in Nat /\ Count < Size - 1
  BY CountType DEF Count, Inc, Slots
<1>3. Slot(Count + 1) = wrp
  BY DEF Slot, Count, Slots
<1>4. \A i \in 1 .. Count + 1 : Slot(i)' = Slot(i)
  BY DEF Slot
<1>5. Contents' = [i \in 1 .. Count + 1 |-> data[Slot(i)]]
  BY <1>1, <1>4 DEF Contents, Slot
<1>6. \A i \in 1 .. Count + 1 :
        Contents'[i] = IF i = Count + 1 THEN data[wrp] ELSE Contents[i]
  BY <1>2, <1>3, <1>5, ContentsType
<1>7. Contents' = [i \in 1 .. Len(Contents) + 1 |->
                     IF i = Len(Contents) + 1 THEN data[wrp] ELSE Contents[i]]
  BY <1>2, <1>5, <1>6, ContentsType
<1> QED
  BY <1>2, <1>7, ContentsType

\* ... and moving rdp over a slot takes the oldest word off.
LEMMA ContentsTail ==
  ASSUME TypeOK, rdp' = Inc(rdp), data' = data, wrp' = wrp, HasData
  PROVE  /\ Contents # <<>>
         /\ Head(Contents) = data[rdp]
         /\ Contents' = Tail(Contents)
<1> USE SizesAssumption DEF TypeOK
<1>1. Count' = Count - 1 /\ Count > 0 /\ Count \in Nat
  <2>1. Count' = Count - 1
    BY CountRead DEF Count, HasData
  <2>2. Count > 0 /\ Count \in Nat
    BY DEF Count, HasData, Slots
  <2> QED
    BY <2>1, <2>2
<1>2. \A i \in 1 .. Count - 1 : Slot(i)' = Slot(i + 1)
  <2>1. ASSUME NEW i \in 1 .. Count - 1
        PROVE  Slot(i)' = Slot(i + 1)
    <3>1. i \in Nat /\ i > 0 /\ i < Size /\ Size \in Nat
      BY CountType, <1>1
    <3>2. rdp \in 0 .. Size - 1
      BY DEF Slots
    <3>3. CASE rdp = Size - 1
      BY <3>1, <3>2, <3>3 DEF Slot, Inc
    <3>4. CASE rdp # Size - 1
      BY <3>1, <3>2, <3>4 DEF Slot, Inc
    <3> QED
      BY <3>3, <3>4
  <2> QED
    BY <2>1
<1>3. Slot(1) = rdp
  BY DEF Slot, Slots
<1>4. Contents' = [i \in 1 .. Count - 1 |-> data[Slot(i + 1)]]
  <2>1. Contents' = [i \in 1 .. Count' |-> data'[Slot(i)']]
    BY DEF Contents, Slot
  <2> QED
    BY <1>1, <1>2, <2>1
<1>5. Contents' = [i \in 1 .. Len(Contents) - 1 |-> Contents[i + 1]]
  <2>1. \A i \in 1 .. Count - 1 : Contents[i + 1] = data[Slot(i + 1)]
    BY <1>1, ContentsType
  <2> QED
    BY <1>4, <2>1, ContentsType
<1>6. Contents # <<>> /\ Head(Contents) = data[rdp]
  BY <1>1, <1>3, ContentsType
<1>7. Contents' = Tail(Contents)
  <2> DEFINE W == Words \cup {NoWord}
  <2>1. Tail(Contents) \in Seq(W) /\ Len(Tail(Contents)) = Count - 1
          /\ \A i \in 1 .. Count - 1 : Tail(Contents)[i] = Contents[i + 1]
    BY <1>6, ContentsType, HeadTailProperties
  <2>2. Contents' \in Seq(W) /\ Len(Contents') = Count - 1
          /\ \A i \in 1 .. Count - 1 : Contents'[i] = Contents[i + 1]
    <3>1. \A i \in 1 .. Count - 1 : Contents[i + 1] \in W
      BY <1>1, ContentsType, ElementOfSeq
    <3>2. Count - 1 \in Nat /\ Len(Contents) = Count
      BY <1>1, ContentsType
    <3> QED
      BY <1>5, <3>1, <3>2
  <2> HIDE DEF W
  <2> QED
    BY <2>1, <2>2, SeqEqual
<1> QED
  BY <1>6, <1>7

\* The steps of the pipe are those of the queue: a call to write asks,
LEMMA AskStep ==
  ASSUME TypeOK, NEW w \in Writers, NEW v \in Words, NEW nb \in {0, 1},
         BeginWrite(w, v, nb)
  PROVE  Queue!Ask(w, v)
<1>1. Contents' = Contents
  BY ContentsSame DEF BeginWrite, pipeVars
<1>2. Asked[w] = NoWord /\ Asked' = [Asked EXCEPT ![w] = v]
  BY DEF BeginWrite, Asked, Unsent, WGoto, TypeOK
<1> QED
  BY <1>1, <1>2 DEF Queue!Ask, BeginWrite, readerVars

\* moving wrp puts the word at the end,
LEMMA PutStep ==
  ASSUME TypeOK, NEW w \in Writers, Inv(w), Advance(w)
  PROVE  Queue!Put(w) /\ Contents' = Append(Contents, word[w])
<1>1. word[w] # NoWord /\ nxwrp[w] = Inc(wrp) /\ Inc(wrp) # rdp
        /\ data[wrp] = word[w]
  BY SizesAssumption DEF Advance, Inv, WriterInv, Unsent, WGoto
<1>2. Contents' = Append(Contents, word[w]) /\ Len(Contents) < Size - 1
  BY <1>1, ContentsAppend DEF Advance
<1>3. Asked[w] = word[w] /\ Asked' = [Asked EXCEPT ![w] = NoWord]
  BY DEF Advance, Asked, Unsent, WGoto, TypeOK
<1> QED
  BY <1>1, <1>2, <1>3, ContentsType DEF Queue!Put, Advance, readerVars

\* taking a word gets the one at the head,
LEMMA GetStep ==
  ASSUME TypeOK, NEW w \in Writers, Inv(w), Take
  PROVE  Queue!Get
<1>1. HasData
  BY DEF Take, Inv, ReaderInv, RGoto
<1>2. Contents # << >> /\ Head(Contents) = data[rdp]
        /\ Contents' = Tail(Contents)
  BY <1>1, ContentsTail DEF Take
<1>3. Asked' = Asked
  BY DEF Take, Asked, writerVars
<1> QED
  BY <1>2, <1>3 DEF Queue!Get, Take

\* and every other step is unseen.
LEMMA QuietStep ==
  ASSUME TypeOK, NEW w \in Writers,
         \/ WriteStep(w) /\ ~Advance(w)
         \/ BeginRead
         \/ ReadStep /\ ~Take
         \/ UNCHANGED vars
  PROVE  UNCHANGED Queue!fifoVars
<1> USE DEF WGoto, RGoto, pipeVars, writerVars, readerVars
<1>0. wpc \in [Writers -> WriterPcs] /\ word \in [Writers -> Words \cup {NoWord}]
  BY DEF TypeOK
<1>1. CASE Store(w)
  <2>1. Contents' = Contents
    <3>1. \A i \in Slots : i # wrp => data'[i] = data[i]
      BY <1>1 DEF Store, TypeOK
    <3> QED
      BY <1>1, <3>1, ContentsSame DEF Store
  <2>2. Asked' = Asked
    BY <1>0, <1>1 DEF Store, Asked, Unsent
  <2> QED
    BY <1>1, <2>1, <2>2 DEF Store, Queue!fifoVars
\* The ring, the indices and what is asked stay.
<1>2. ASSUME data' = data, rdp' = rdp, wrp' = wrp, got' = got, word' = word,
             wpc' = wpc \/ \E p \in WriterPcs :
                /\ wpc' = [wpc EXCEPT ![w] = p]
                /\ p \in Unsent <=> wpc[w] \in Unsent
      PROVE  UNCHANGED Queue!fifoVars
  <2>1. Contents' = Contents
    BY <1>2, ContentsSame
  <2>2. Asked' = Asked
    BY <1>0, <1>2 DEF Asked
  <2> QED
    BY <1>2, <2>1, <2>2 DEF Queue!fifoVars
<1>3. CASE \/ TestReader(w) \/ WriterLock(w) \/ WriterFull(w)
           \/ WriterRoom(w) \/ WriterSleep(w) \/ WriterRelock(w)
  BY <1>2, <1>3 DEF TestReader, WriterLock, WriterFull, WriterRoom,
     WriterSleep, WriterRelock, Unsent, WriterPcs
<1>4. CASE MaybeWakeReader(w) \/ WakeReader(w) \/ WriterUnlock(w)
  BY <1>2, <1>4 DEF MaybeWakeReader, WakeReader, WriterUnlock, AfterWake,
     Unsent, WriterPcs
<1>5. CASE \/ BeginRead \/ ReaderLock \/ ReaderEmpty \/ ReaderReady
           \/ ReaderRelease \/ ReaderSleep \/ ReaderRelock \/ WakeWriter
           \/ ReaderUnlock
  BY <1>2, <1>5 DEF BeginRead, ReaderLock, ReaderEmpty, ReaderReady,
     ReaderRelease, ReaderSleep, ReaderRelock, WakeWriter, ReaderUnlock
<1>6. CASE UNCHANGED vars
  BY <1>2, <1>6 DEF vars
<1> QED
  BY <1>1, <1>3, <1>4, <1>5, <1>6 DEF WriteStep, ReadStep

\* A pipe with one writer, whatever its size and threshold, behaves as the
\* queue: words are neither lost, duplicated, overtaken nor changed, on the
\* path with the lock as on the one without it.
THEOREM Refinement ==
  ASSUME NEW W, Writers = {W}
  PROVE  Spec => FifoSpec
<1>1. Init => Queue!Init
  <2> SUFFICES ASSUME Init PROVE Queue!Init
    OBVIOUS
  <2>1. Asked = [w \in Writers |-> NoWord]
    BY DEF Init, Asked, Unsent
  <2>2. Contents = << >>
    BY DEF Init, Contents, Count
  <2> QED
    BY <2>1, <2>2 DEF Init, Queue!Init
<1>2. TypeOK /\ Inv(W) /\ [Next]_vars => [Queue!Next]_(Queue!fifoVars)
  <2> SUFFICES ASSUME TypeOK, Inv(W), [Next]_vars
               PROVE  Queue!Next \/ UNCHANGED Queue!fifoVars
    OBVIOUS
  <2>0. W \in Writers
    OBVIOUS
  <2>1. ASSUME NEW v \in Words, NEW nb \in {0, 1}, BeginWrite(W, v, nb)
        PROVE  Queue!Next
    BY <2>0, <2>1, AskStep DEF Queue!Next
  <2>2. CASE Advance(W)
    BY <2>0, <2>2, PutStep DEF Queue!Next
  <2>3. CASE Take
    BY <2>0, <2>3, GetStep DEF Queue!Next
  <2>4. CASE \/ WriteStep(W) /\ ~Advance(W)
             \/ BeginRead
             \/ ReadStep /\ ~Take
             \/ UNCHANGED vars
    BY <2>0, <2>4, QuietStep
  <2> QED
    BY <2>1, <2>2, <2>3, <2>4 DEF Next
<1> QED
  BY <1>1, <1>2, Invariance, PTL DEF Spec, FifoSpec, Queue!Spec

-----------------------------------------------------------------------------
(* The calls: the invariant, for any number of threads.                    *)

\* A thread has written no more words than its current call has, and is in
\* the pipe only while it has written some.
HostOK ==
  /\ callNo \in [Writers -> Nat] /\ sent \in [Writers -> 0 .. 3]
  /\ \A w \in Writers :
       /\ callNo[w] <= Len(Calls[w])
       /\ sent[w] > 0 => callNo[w] < Len(Calls[w]) /\ sent[w] <= Len(Current(w))
       /\ sent[w] = 0 => wpc[w] = "idle"

\* The server holds singlethread_int_sem while it is not idle, and reads the
\* pipe only for an opcode or an argument.
ServerOK ==
  /\ intRequested \in {0, 1} /\ intreq \in {0, 1}
  /\ server \in {"idle", "loop", "opcode", "args", "done"}
  /\ intSem = IF server = "idle" THEN 1 ELSE 0
  /\ server \in {"idle", "loop", "done"} => rpc = "idle"
  /\ partial \in Seq(Words \cup {NoWord})

\* The server has found the pipe empty: a call that has been written since
\* has requested an interrupt.
Coming ==
  (server \in {"idle", "done"} /\ HasData /\ \A w \in Writers : sent[w] = 0)
    => intRequested = 1

NInv == TypeOK /\ HostOK /\ ServerOK /\ Coming

\* A call has its opcode and at most two arguments, all words.
LEMMA CallIs ==
  ASSUME HostOK, NEW w \in Writers, callNo[w] < Len(Calls[w])
  PROVE  /\ Current(w) \in Seq(Words) /\ Len(Current(w)) \in 2 .. 3
         /\ \A i \in 1 .. Len(Current(w)) : Current(w)[i] \in Words
<1>1. Calls[w] \in Seq(Seq(Words))
  BY CallsAssumption
<1>2. callNo[w] + 1 \in 1 .. Len(Calls[w])
  BY <1>1, LenProperties DEF HostOK
<1>3. PICK i \in 1 .. Len(Calls[w]) : i = callNo[w] + 1
  BY <1>2
<1>4. Calls[w][i] \in Seq(Words) /\ i \in DOMAIN Calls[w]
  BY <1>1, ElementOfSeq, LenProperties
<1>5. /\ Calls[w][i][1] \in {"Signal", "PutMsg", "ReplyMsg"}
      /\ Len(Calls[w][i]) = 1 + Arity[Calls[w][i][1]]
  BY <1>4, CallsAssumption DEF Opcodes, Arity
<1>6. Len(Calls[w][i]) \in 2 .. 3
  BY <1>5 DEF Arity
<1> QED
  BY <1>3, <1>4, <1>6, ElementOfSeq DEF Current

LEMMA NInvInit == N2AInit => NInv
<1> SUFFICES ASSUME N2AInit PROVE NInv
  OBVIOUS
<1> USE DEF N2AInit
<1>1. TypeOK
  BY SizesAssumption DEF Init, TypeOK, Slots, WriterPcs, ReaderPcs
<1>2. \A w \in Writers : Len(Calls[w]) \in Nat
  BY CallsAssumption, LenProperties
<1>3. HostOK
  BY <1>2 DEF HostOK, Init
<1>4. ServerOK
  BY DEF ServerOK, Init
<1>5. Coming
  BY DEF Coming, Init, HasData
<1> QED
  BY <1>1, <1>3, <1>4, <1>5 DEF NInv

\* Every step of the threads and of the server is one of the pipe, or leaves
\* the pipe alone.
LEMMA PipeStep ==
  ASSUME HostOK, [N2ANext]_n2aVars
  PROVE  [Next]_vars
<1>1. ASSUME NEW w \in Writers, WriteWord(w)
      PROVE  Next
  <2>1. callNo[w] < Len(Calls[w]) /\ sent[w] < Len(Current(w)) /\ sent[w] \in 0 .. 3
    BY <1>1 DEF WriteWord, HostOK
  <2>2. Len(Current(w)) \in 2 .. 3
        /\ \A i \in 1 .. Len(Current(w)) : Current(w)[i] \in Words
    BY <2>1, CallIs
  <2>3. sent[w] + 1 \in 1 .. Len(Current(w))
    BY <2>1, <2>2
  <2>4. PICK v \in Words, nb \in {0, 1} : BeginWrite(w, v, nb)
    BY <1>1, <2>2, <2>3 DEF WriteWord
  <2> QED
    BY <2>4 DEF Next
<1>2. ASSUME NEW w \in Writers, WritePipe(w)
      PROVE  Next
  BY <1>2 DEF WritePipe, Next
<1>3. ASSUME NEW w \in Writers, RequestInt(w)
      PROVE  UNCHANGED vars
  BY <1>3 DEF RequestInt
<1>4. CASE Hsync \/ OtherExter \/ EnterServer \/ NotForUs \/ NoWork \/ LeaveServer
  BY <1>4 DEF Hsync, OtherExter, EnterServer, NotForUs, NoWork, LeaveServer
<1>5. CASE FindWork
  BY <1>5 DEF FindWork, Next
<1>6. CASE ReadOpcode
  BY <1>6 DEF ReadOpcode, Next
<1>7. CASE ReadArg
  BY <1>7 DEF ReadArg, Next
<1>8. CASE ReadPipe
  BY <1>8 DEF ReadPipe, Next
<1>9. CASE UNCHANGED n2aVars
  BY <1>9 DEF n2aVars
<1> QED
  BY <1>1, <1>2, <1>3, <1>4, <1>5, <1>6, <1>7, <1>8, <1>9
     DEF N2ANext, HostStep, ServerStep

\* Who moves the pipe's indices: a thread in a call, or the server reading.
LEMMA DataSame ==
  ASSUME TypeOK, ServerOK, [N2ANext]_n2aVars,
         server \in {"idle", "done"}, \A w \in Writers : sent[w] = 0 => wpc[w] = "idle",
         \A w \in Writers : sent'[w] = 0
  PROVE  HasData' = HasData \/ intRequested' = 1
<1> USE DEF n2aVars, hostVars, amigaVars, vars, pipeVars, writerVars, readerVars,
        HasData
<1>1. ASSUME NEW w \in Writers, RequestInt(w)
      PROVE  intRequested' = 1
  BY <1>1 DEF RequestInt
<1>2. ASSUME NEW w \in Writers, WriteWord(w)
      PROVE  UNCHANGED <<rdp, wrp>>
  BY <1>2 DEF WriteWord, BeginWrite
<1>3. ASSUME NEW w \in Writers, WritePipe(w)
      PROVE  FALSE
  <2>1. sent[w] = 0 /\ wpc[w] = "idle"
    BY <1>3 DEF WritePipe
  <2> QED
    BY <1>3, <2>1 DEF WritePipe, WriteStep, WGoto, TestReader, WriterLock,
       WriterFull, WriterRoom, WriterSleep, WriterRelock, Store, Advance,
       MaybeWakeReader, WakeReader, WriterUnlock
<1>4. CASE Hsync \/ OtherExter \/ EnterServer \/ NotForUs \/ NoWork \/ LeaveServer
           \/ UNCHANGED n2aVars
  BY <1>4 DEF Hsync, OtherExter, EnterServer, NotForUs, NoWork, LeaveServer
<1>5. ~(FindWork \/ ReadOpcode \/ ReadArg)
  BY DEF FindWork, ReadOpcode, ReadArg
<1>6. ~ReadPipe
  BY DEF ReadPipe, ReadStep, RGoto, ServerOK, ReaderLock, ReaderEmpty,
     ReaderReady, ReaderRelease, ReaderSleep, ReaderRelock, Take, WakeWriter,
     ReaderUnlock
<1> QED
  BY <1>1, <1>2, <1>3, <1>4, <1>5, <1>6 DEF N2ANext, HostStep, ServerStep

\* A step of a write call is one of a thread inside the pipe ...
LEMMA WriterInside ==
  ASSUME NEW w \in Writers, WriteStep(w)
  PROVE  /\ wpc[w] # "idle"
         /\ \E p : wpc' = [wpc EXCEPT ![w] = p]
         /\ rpc' = rpc /\ got' = got
BY DEF WriteStep, WGoto, TestReader, WriterLock, WriterFull, WriterRoom,
   WriterSleep, WriterRelock, Store, Advance, MaybeWakeReader, WakeReader,
   WriterUnlock, readerVars

\* ... and a step of the read call one of a reader inside.
LEMMA ReaderInside ==
  ASSUME ReadStep
  PROVE  rpc # "idle" /\ UNCHANGED <<wpc, word>>
BY DEF ReadStep, RGoto, ReaderLock, ReaderEmpty, ReaderReady, ReaderRelease,
   ReaderSleep, ReaderRelock, Take, WakeWriter, ReaderUnlock, writerVars

\* The three parts of the invariant, one at a time: each is kept by any step.
LEMMA HostStepOK ==
  ASSUME TypeOK, HostOK, [N2ANext]_n2aVars
  PROVE  HostOK'
<1> USE DEF n2aVars, hostVars, amigaVars, vars, pipeVars, writerVars, readerVars
<1>0. /\ callNo \in [Writers -> Nat] /\ sent \in [Writers -> 0 .. 3]
      /\ wpc \in [Writers -> WriterPcs]
      /\ \A w \in Writers : Len(Calls[w]) \in Nat
  BY CallsAssumption, LenProperties DEF HostOK, TypeOK
<1>1. ASSUME NEW w \in Writers, WriteWord(w)
      PROVE  HostOK'
  <2>1. /\ callNo[w] < Len(Calls[w]) /\ sent[w] < Len(Current(w))
        /\ sent' = [sent EXCEPT ![w] = @ + 1] /\ callNo' = callNo
        /\ wpc' = [wpc EXCEPT ![w] = "test"]
    BY <1>1 DEF WriteWord, BeginWrite, WGoto
  <2>2. Len(Current(w)) \in 2 .. 3
    BY <2>1, CallIs
  <2>3. sent' \in [Writers -> 0 .. 3]
    <3>1. PICK n \in 2 .. 3 : n = Len(Current(w))
      BY <2>2
    <3>2. PICK k \in 0 .. 3 : k = sent[w] /\ k < n
      BY <1>0, <2>1, <3>1
    <3>3. k + 1 \in 0 .. 3
      BY <3>2
    <3> QED
      BY <1>0, <2>1, <3>2, <3>3
  <2>4. \A u \in Writers : Current(u)' = Current(u)
    BY <2>1 DEF Current
  <2>5. ASSUME NEW u \in Writers
        PROVE  /\ callNo'[u] <= Len(Calls[u])
               /\ sent'[u] > 0 => callNo'[u] < Len(Calls[u])
                                    /\ sent'[u] <= Len(Calls[u][callNo'[u] + 1])
               /\ sent'[u] = 0 => wpc'[u] = "idle"
    <3>1. CASE u = w
      BY <1>0, <2>1, <2>2, <3>1 DEF HostOK, Current
    <3>2. CASE u # w
      BY <1>0, <2>1, <3>2 DEF HostOK, Current
    <3> QED
      BY <3>1, <3>2
  <2> QED
    BY <1>0, <2>1, <2>3, <2>5 DEF HostOK, Current
<1>2. ASSUME NEW w \in Writers, RequestInt(w)
      PROVE  HostOK'
  BY <1>0, <1>2 DEF RequestInt, HostOK, Current
<1>3. ASSUME NEW w \in Writers, WritePipe(w)
      PROVE  HostOK'
  <2>1. WriteStep(w) /\ callNo' = callNo /\ sent' = sent
    BY <1>3 DEF WritePipe
  <2>2. PICK p : wpc' = [wpc EXCEPT ![w] = p]
    BY <2>1, WriterInside
  <2>3. sent[w] # 0
    BY <2>1, WriterInside DEF HostOK
  <2>4. \A u \in Writers : u # w => wpc'[u] = wpc[u]
    BY <1>0, <2>2
  <2> QED
    BY <1>0, <2>1, <2>3, <2>4 DEF HostOK, Current
<1>4. ASSUME callNo' = callNo, sent' = sent, wpc' = wpc
      PROVE  HostOK'
  BY <1>4 DEF HostOK, Current
<1>5. CASE Hsync \/ OtherExter \/ EnterServer \/ NotForUs \/ NoWork \/ LeaveServer
           \/ UNCHANGED n2aVars
  BY <1>4, <1>5 DEF Hsync, OtherExter, EnterServer, NotForUs, NoWork, LeaveServer
<1>6. CASE FindWork \/ ReadOpcode \/ ReadArg
  BY <1>4, <1>6 DEF FindWork, ReadOpcode, ReadArg, BeginRead
<1>7. CASE ReadPipe
  BY <1>4, <1>7, ReaderInside DEF ReadPipe
<1> QED
  BY <1>1, <1>2, <1>3, <1>5, <1>6, <1>7 DEF N2ANext, HostStep, ServerStep

LEMMA ServerStepOK ==
  ASSUME TypeOK, ServerOK, [N2ANext]_n2aVars
  PROVE  ServerOK'
<1> USE DEF n2aVars, hostVars, amigaVars, vars, pipeVars, writerVars, readerVars
<1>1. ASSUME NEW w \in Writers, HostStep(w)
      PROVE  ServerOK'
  <2>1. /\ UNCHANGED <<rpc, intreq, intSem, server, partial>>
        /\ intRequested' \in {intRequested, 1}
    BY <1>1, WriterInside DEF HostStep, WriteWord, RequestInt, WritePipe, BeginWrite
  <2> QED
    BY <2>1 DEF ServerOK
<1>2. CASE Hsync \/ OtherExter \/ EnterServer \/ NotForUs \/ NoWork \/ LeaveServer
           \/ UNCHANGED n2aVars
  BY <1>2 DEF Hsync, OtherExter, EnterServer, NotForUs, NoWork, LeaveServer, ServerOK
<1>3. CASE FindWork
  BY <1>3 DEF FindWork, ServerOK
<1>4. CASE ReadOpcode
  <2>1. partial' \in Seq(Words \cup {NoWord})
    <3>1. got \in Words \cup {NoWord}
      BY DEF TypeOK
    <3>2. <<got>> \in Seq(Words \cup {NoWord})
      BY <3>1
    <3> QED
      BY <1>4, <3>2 DEF ReadOpcode, ServerOK
  <2>2. UNCHANGED <<intRequested, intreq, intSem>> /\ server = "opcode"
          /\ \/ server' = "args"
             \/ server' = "loop" /\ rpc' = "idle"
    BY <1>4 DEF ReadOpcode
  <2> QED
    BY <2>1, <2>2 DEF ServerOK
<1>5. CASE ReadArg
  <2>1. partial' \in Seq(Words \cup {NoWord})
    <3>1. got \in Words \cup {NoWord} /\ partial \in Seq(Words \cup {NoWord})
      BY DEF TypeOK, ServerOK
    <3>2. Append(partial, got) \in Seq(Words \cup {NoWord})
      BY <3>1, AppendProperties
    <3>3. <<>> \in Seq(Words \cup {NoWord})
      OBVIOUS
    <3> QED
      BY <1>5, <3>2, <3>3 DEF ReadArg
  <2>2. UNCHANGED <<intRequested, intreq, intSem>> /\ server = "args"
          /\ \/ server' = server
             \/ server' = "loop" /\ rpc' = "idle"
    BY <1>5 DEF ReadArg
  <2> QED
    BY <2>1, <2>2 DEF ServerOK
<1>6. CASE ReadPipe
  <2>1. rpc # "idle" /\ UNCHANGED amigaVars
    BY <1>6, ReaderInside DEF ReadPipe
  <2> QED
    BY <2>1 DEF ServerOK
<1> QED
  BY <1>1, <1>2, <1>3, <1>4, <1>5, <1>6 DEF N2ANext, ServerStep

LEMMA ComingStep ==
  ASSUME NInv, [N2ANext]_n2aVars
  PROVE  Coming'
<1> SUFFICES ASSUME server' \in {"idle", "done"}, HasData',
                    \A w \in Writers : sent'[w] = 0
             PROVE  intRequested' = 1
  BY DEF Coming
<1> USE DEF NInv
<1>1. \A w \in Writers : sent[w] = 0 => wpc[w] = "idle"
  BY DEF HostOK
\* A thread that has just finished a call has requested the interrupt.
<1>2. CASE \E w \in Writers : sent[w] # 0
  <2>1. PICK w \in Writers : sent[w] # 0
    BY <1>2
  <2>2. sent' # sent
    BY <2>1
  <2>3. PICK u \in Writers : WriteWord(u) \/ RequestInt(u)
    BY <2>2 DEF N2ANext, HostStep, WritePipe, ServerStep, Hsync, OtherExter,
       EnterServer, NotForUs, FindWork, ReadOpcode, ReadArg, NoWork,
       LeaveServer, ReadPipe, n2aVars, hostVars
  <2>4. ~WriteWord(u)
    <3> SUFFICES ASSUME WriteWord(u) PROVE FALSE
      OBVIOUS
    <3>1. sent' = [sent EXCEPT ![u] = @ + 1] /\ sent \in [Writers -> 0 .. 3]
      BY DEF WriteWord, HostOK
    <3>2. sent'[u] = sent[u] + 1 /\ sent[u] \in 0 .. 3
      BY <3>1
    <3> QED
      BY <3>2
  <2> QED
    BY <2>3, <2>4 DEF RequestInt
<1>3. CASE \A w \in Writers : sent[w] = 0
  <2>1. CASE server \in {"idle", "done"}
    <3>1. HasData' = HasData \/ intRequested' = 1
      BY <1>1, <2>1, DataSame
    <3>2. CASE intRequested' = 1
      BY <3>2
    <3>3. CASE HasData
      <4>1. intRequested = 1
        BY <1>3, <2>1, <3>3 DEF Coming
      <4>2. CASE EnterServer
        BY <4>2 DEF EnterServer
      <4> QED
        BY <4>1, <4>2 DEF N2ANext, HostStep, WriteWord, RequestInt, WritePipe,
           ServerStep, Hsync, OtherExter, NotForUs, FindWork, ReadOpcode,
           ReadArg, NoWork, LeaveServer, ReadPipe, n2aVars, hostVars, amigaVars
    <3> QED
      BY <3>1, <3>2, <3>3
  \* The server has just found the pipe empty.
  <2>2. CASE server \notin {"idle", "done"}
    <3>1. server' # server
      BY <2>2
    <3>2. NoWork \/ EnterServer \/ NotForUs \/ FindWork \/ ReadOpcode \/ ReadArg
            \/ LeaveServer
      BY <3>1 DEF N2ANext, HostStep, WriteWord, RequestInt, WritePipe,
         ServerStep, Hsync, OtherExter, ReadPipe, n2aVars, hostVars, amigaVars
    <3>3. NoWork
      BY <2>2, <3>2 DEF EnterServer, NotForUs, FindWork, ReadOpcode, ReadArg,
         LeaveServer
    <3>4. ~HasData'
      BY <3>3 DEF NoWork, HasData, vars, pipeVars
    <3> QED
      BY <3>4
  <2> QED
    BY <2>1, <2>2
<1> QED
  BY <1>2, <1>3

\* The invariant holds in every state, whatever the threads, their calls and
\* the pipe.
THEOREM ServerInvariance == N2ASpec => []NInv
<1>1. N2AInit => NInv
  BY NInvInit
<1>2. NInv /\ [N2ANext]_n2aVars => NInv'
  <2> SUFFICES ASSUME NInv, [N2ANext]_n2aVars PROVE NInv'
    OBVIOUS
  <2>1. TypeOK'
    BY PipeStep, TypeStep DEF NInv
  <2>2. HostOK'
    BY HostStepOK DEF NInv
  <2>3. ServerOK'
    BY ServerStepOK DEF NInv
  <2>4. Coming'
    BY ComingStep
  <2> QED
    BY <2>1, <2>2, <2>3, <2>4 DEF NInv
<1> QED
  BY <1>1, <1>2, PTL DEF N2ASpec

\* For any threads, calls and pipe: the server's state is well typed, it never
\* takes singlethread_int_sem twice, and no call that has been written is left
\* in the pipe without an interrupt to come ("never not enough").
THEOREM CallsHaveInterrupts == N2ASpec => []N2AInv
<1> SUFFICES ASSUME NInv PROVE N2AInv
  BY ServerInvariance, PTL
<1>1. NeverNotEnough
  BY DEF NInv, Coming, NeverNotEnough
<1>2. N2ATypeOK
  <2>1. \A w \in Writers : Len(Calls[w]) \in Nat
    BY CallsAssumption, LenProperties
  <2>2. \A w \in Writers : callNo[w] \in 0 .. Len(Calls[w]) /\ sent[w] \in 0 .. 3
    <3> SUFFICES ASSUME NEW w \in Writers
                 PROVE  callNo[w] \in 0 .. Len(Calls[w]) /\ sent[w] \in 0 .. 3
      OBVIOUS
    <3>1. callNo[w] \in Nat /\ callNo[w] <= Len(Calls[w]) /\ sent[w] \in 0 .. 3
      BY DEF NInv, HostOK
    <3>2. PICK n \in Nat : n = Len(Calls[w])
      BY <2>1
    <3> QED
      BY <3>1, <3>2
  <2> QED
    BY <2>2 DEF NInv, ServerOK, N2ATypeOK
<1> QED
  BY <1>1, <1>2 DEF N2AInv

\* The threads and the server use the pipe as CommPipe says a pipe may be
\* used, so that what is proved of the pipe holds of this one.
THEOREM UsesThePipe == N2ASpec => Spec
<1>1. N2AInit => Init
  BY DEF N2AInit
<1>2. NInv /\ [N2ANext]_n2aVars => [Next]_vars
  BY PipeStep DEF NInv
<1> QED
  BY <1>1, <1>2, ServerInvariance, PTL DEF N2ASpec, Spec

-----------------------------------------------------------------------------
(* One thread w: the words it has sent and the server has not yet put in a *)
(* call delivered are, in order, the next words of its calls.              *)

\* The places of the words of w's calls, <<call, word>>, the word at one of
\* them, and the place that follows.
Places(w) == {x \in (1 .. Len(Calls[w])) \X (1 .. 3) :
                x[2] <= Len(Calls[w][x[1]])}
At(w, x) == Calls[w][x[1]][x[2]]
After(w, x) == IF x[2] < Len(Calls[w][x[1]]) THEN <<x[1], x[2] + 1>>
                                            ELSE <<x[1] + 1, 1>>

\* s is the words of w's calls from place a up to, and without, place b.
Spans(w, s, a, b) ==
  \E pos \in [1 .. Len(s) + 1 -> Nat \X Nat] :
    /\ pos[1] = a /\ pos[Len(s) + 1] = b
    /\ \A i \in 1 .. Len(s) : /\ pos[i] \in Places(w)
                              /\ s[i] = At(w, pos[i])
                              /\ pos[i + 1] = After(w, pos[i])

\* The place of the word the server reads, whether it has left the ring, and
\* the place of the first word in the ring.
ReadPlace == <<Len(delivered) + 1, Len(partial) + 1>>
Taken == server \in {"opcode", "args"} /\ rpc \in {"wake", "unlock", "idle"}
FirstPlace(w) == IF Taken THEN After(w, ReadPlace) ELSE ReadPlace

\* The place of the word w puts in the ring next.
Asking(w) == wpc[w] \in Unsent
NextPlace(w) == IF Asking(w) THEN <<callNo[w] + 1, sent[w]>>
                ELSE IF sent[w] = 0 THEN <<callNo[w] + 1, 1>>
                ELSE After(w, <<callNo[w] + 1, sent[w]>>)

Read(w) ==
  /\ server = "args" <=> partial # << >>
  /\ partial # << >> => ReadPlace \in Places(w)
  /\ \A j \in 1 .. Len(partial) : partial[j] = Calls[w][Len(delivered) + 1][j]
  /\ Taken => ReadPlace \in Places(w) /\ got = At(w, ReadPlace)

Done(w) ==
  /\ delivered \in Seq(Seq(Words \cup {NoWord}))
  /\ Len(delivered) <= Len(Calls[w])
  /\ \A i \in 1 .. Len(delivered) : delivered[i] = Calls[w][i]

Stream(w) ==
  /\ Spans(w, Contents, FirstPlace(w), NextPlace(w))
  /\ Asking(w) => word[w] = At(w, NextPlace(w))
  /\ Read(w) /\ Done(w)

LEMMA PlaceType ==
  ASSUME NEW w \in Writers, NEW x \in Places(w)
  PROVE  /\ x \in Nat \X Nat /\ After(w, x) \in Nat \X Nat
         /\ x[1] \in 1 .. Len(Calls[w]) /\ x[2] \in 1 .. 3
         /\ Calls[w][x[1]] \in Seq(Words) /\ Len(Calls[w][x[1]]) \in 2 .. 3
         /\ x[2] <= Len(Calls[w][x[1]])
         /\ Calls[w][x[1]][1] \in Opcodes
         /\ Len(Calls[w][x[1]]) = 1 + Arity[Calls[w][x[1]][1]]
<1>1. Calls[w] \in Seq(Seq(Words)) /\ Len(Calls[w]) \in Nat
  BY CallsAssumption, LenProperties
<1>2. x[1] \in 1 .. Len(Calls[w]) /\ x[2] \in 1 .. 3
        /\ x[2] <= Len(Calls[w][x[1]]) /\ x = <<x[1], x[2]>>
  BY DEF Places
<1>3. PICK c \in 1 .. Len(Calls[w]) : c = x[1]
  BY <1>2
<1>4. PICK k \in 1 .. 3 : k = x[2]
  BY <1>2
<1>5. Calls[w][c] \in Seq(Words) /\ c \in DOMAIN Calls[w]
  BY <1>1, ElementOfSeq, LenProperties
<1>6. /\ Calls[w][c][1] \in {"Signal", "PutMsg", "ReplyMsg"}
      /\ Len(Calls[w][c]) = 1 + Arity[Calls[w][c][1]]
  BY <1>5, CallsAssumption DEF Opcodes, Arity
<1>7. Len(Calls[w][c]) \in 2 .. 3
  BY <1>6 DEF Arity
<1>8. x \in Nat \X Nat /\ After(w, x) \in Nat \X Nat
  <2>1. c \in Nat /\ k \in Nat
    BY <1>1
  <2> QED
    BY <1>2, <1>3, <1>4, <2>1 DEF After
<1> QED
  BY <1>2, <1>3, <1>5, <1>6, <1>7, <1>8 DEF Opcodes, Arity

\* No words lead from a place to itself; the word at the end's place goes at
\* the end; and the first word is the one at the first place.
LEMMA SpansNothing ==
  ASSUME NEW w, NEW a \in Nat \X Nat
  PROVE  Spans(w, << >>, a, a)
<1>1. PICK pos : pos = [i \in 1 .. 0 + 1 |-> a]
  OBVIOUS
<1>2. pos \in [1 .. 0 + 1 -> Nat \X Nat] /\ pos[1] = a /\ pos[0 + 1] = a
  BY <1>1
<1>3. PICK s : s = << >>
  OBVIOUS
<1>4. Len(s) = 0 /\ 1 .. 0 = {}
  BY <1>3
<1>5. Spans(w, s, a, a)
  BY <1>2, <1>4 DEF Spans
<1> QED
  BY <1>3, <1>5

LEMMA SpansAppend ==
  ASSUME NEW w \in Writers, NEW X, NEW s \in Seq(X), NEW a, NEW b \in Places(w),
         NEW v \in X, v = At(w, b), Spans(w, s, a, b)
  PROVE  Spans(w, Append(s, v), a, After(w, b))
<1>1. PICK n \in Nat : n = Len(s)
  BY LenProperties
<1>2. PICK pos \in [1 .. n + 1 -> Nat \X Nat] :
        /\ pos[1] = a /\ pos[n + 1] = b
        /\ \A i \in 1 .. n : /\ pos[i] \in Places(w)
                             /\ s[i] = At(w, pos[i])
                             /\ pos[i + 1] = After(w, pos[i])
  BY <1>1 DEF Spans
<1>3. PICK t : t = Append(s, v)
  OBVIOUS
<1>4. Len(t) = n + 1 /\ t[n + 1] = v /\ \A i \in 1 .. n : t[i] = s[i]
  BY <1>1, <1>3, AppendProperties
<1>5. PICK c \in Nat \X Nat : c = After(w, b)
  BY PlaceType
<1> DEFINE new == [i \in 1 .. (n + 1) + 1 |-> IF i = n + 2 THEN c ELSE pos[i]]
<1>6. new \in [1 .. (n + 1) + 1 -> Nat \X Nat]
  OBVIOUS
<1>7. new[1] = a /\ new[(n + 1) + 1] = c
  BY <1>2
<1>8. ASSUME NEW i \in 1 .. n + 1
      PROVE  /\ new[i] \in Places(w)
             /\ t[i] = At(w, new[i])
             /\ new[i + 1] = After(w, new[i])
  <2>1. CASE i = n + 1
    BY <1>2, <1>4, <1>5, <2>1
  <2>2. CASE i \in 1 .. n
    BY <1>2, <1>4, <2>2
  <2> QED
    BY <2>1, <2>2
<1> HIDE DEF new
<1>9. Spans(w, t, a, c)
  BY <1>4, <1>6, <1>7, <1>8 DEF Spans
<1> QED
  BY <1>3, <1>5, <1>9

LEMMA SpansTail ==
  ASSUME NEW w \in Writers, NEW X, NEW s \in Seq(X), NEW a, NEW b, s # << >>,
         Spans(w, s, a, b)
  PROVE  /\ a \in Places(w) /\ Head(s) = At(w, a)
         /\ Spans(w, Tail(s), After(w, a), b)
<1>1. PICK n \in Nat : n = Len(s) /\ n >= 1
  BY LenProperties, EmptySeq
<1>2. PICK pos \in [1 .. n + 1 -> Nat \X Nat] :
        /\ pos[1] = a /\ pos[n + 1] = b
        /\ \A i \in 1 .. n : /\ pos[i] \in Places(w)
                             /\ s[i] = At(w, pos[i])
                             /\ pos[i + 1] = After(w, pos[i])
  BY <1>1 DEF Spans
<1>3. PICK t : t = Tail(s)
  OBVIOUS
<1>4. Len(t) = n - 1 /\ \A i \in 1 .. n - 1 : t[i] = s[i + 1]
  BY <1>1, <1>3, HeadTailProperties
<1>5. Head(s) = s[1]
  BY HeadTailProperties
<1> DEFINE new == [i \in 1 .. (n - 1) + 1 |-> pos[i + 1]]
<1>6. new \in [1 .. (n - 1) + 1 -> Nat \X Nat]
  BY <1>1
<1>7. new[1] = pos[2] /\ new[(n - 1) + 1] = b
  BY <1>1, <1>2
<1>8. ASSUME NEW i \in 1 .. n - 1
      PROVE  /\ new[i] \in Places(w)
             /\ t[i] = At(w, new[i])
             /\ new[i + 1] = After(w, new[i])
  <2>1. i + 1 \in 1 .. n /\ new[i] = pos[i + 1] /\ new[i + 1] = pos[(i + 1) + 1]
    BY <1>1
  <2> QED
    BY <1>2, <1>4, <2>1
<1>9. a \in Places(w) /\ s[1] = At(w, a) /\ pos[2] = After(w, a)
  BY <1>1, <1>2
<1> HIDE DEF new
<1>10. Spans(w, t, After(w, a), b)
  BY <1>4, <1>6, <1>7, <1>8, <1>9 DEF Spans
<1> QED
  BY <1>3, <1>5, <1>9, <1>10

\* What the thread does keeps the stream.
LEMMA StreamHost ==
  ASSUME NInv, NEW w \in Writers, Inv(w), Stream(w), HostStep(w)
  PROVE  Stream(w)'
<1> USE DEF NInv, vars, pipeVars, writerVars, readerVars, hostVars, amigaVars
<1>0. /\ callNo \in [Writers -> Nat] /\ sent \in [Writers -> 0 .. 3]
      /\ wpc \in [Writers -> WriterPcs] /\ word \in [Writers -> Words \cup {NoWord}]
  BY DEF HostOK, TypeOK
<1>1. UNCHANGED <<server, partial, delivered, rpc, got>>
  BY WriterInside DEF HostStep, WriteWord, RequestInt, WritePipe, BeginWrite
<1>2. /\ FirstPlace(w)' = FirstPlace(w)
      /\ Read(w)' /\ Done(w)'
  BY <1>1 DEF FirstPlace, Taken, ReadPlace, Read, Done, Stream
<1>3. CASE WriteWord(w)
  <2>1. /\ callNo[w] < Len(Calls[w]) /\ sent[w] < Len(Current(w)) /\ callNo' = callNo
        /\ sent'[w] = sent[w] + 1 /\ word'[w] = Current(w)[sent[w] + 1]
        /\ wpc[w] = "idle" /\ wpc'[w] = "test"
    BY <1>0, <1>3 DEF WriteWord, BeginWrite, WGoto
  <2>2. PICK v \in Words, nb \in {0, 1} : BeginWrite(w, v, nb)
    <3>1. Len(Current(w)) \in 2 .. 3 /\ \A i \in 1 .. Len(Current(w)) : Current(w)[i] \in Words
      BY <2>1, CallIs
    <3>2. sent[w] + 1 \in 1 .. Len(Current(w))
      BY <1>0, <2>1, <3>1
    <3> QED
      BY <1>3, <3>1, <3>2 DEF WriteWord
  <2>3. Contents' = Contents
    BY <2>2, AskStep DEF Queue!Ask
  <2>4. NextPlace(w)' = <<callNo[w] + 1, sent[w] + 1>>
    BY <2>1 DEF NextPlace, Asking, Unsent
  <2>5. NextPlace(w) = <<callNo[w] + 1, sent[w] + 1>>
    <3>1. CASE sent[w] = 0
      BY <2>1, <3>1 DEF NextPlace, Asking, Unsent
    <3>2. CASE sent[w] # 0
      BY <2>1, <3>2 DEF NextPlace, Asking, Unsent, After, Current
    <3> QED
      BY <3>1, <3>2
  <2>6. word'[w] = At(w, NextPlace(w)')
    BY <2>1, <2>4 DEF At, Current
  <2> QED
    BY <1>2, <2>3, <2>4, <2>5, <2>6 DEF Stream
<1>4. CASE RequestInt(w)
  <2>1. /\ callNo[w] < Len(Calls[w]) /\ sent[w] = Len(Current(w))
        /\ callNo'[w] = callNo[w] + 1 /\ sent'[w] = 0
        /\ wpc[w] = "idle" /\ wpc' = wpc /\ word' = word
        /\ data' = data /\ rdp' = rdp /\ wrp' = wrp
    BY <1>0, <1>4 DEF RequestInt
  <2>2. Contents' = Contents
    BY <2>1, ContentsSame
  <2>3. Len(Current(w)) # 0
    <3>1. Len(Current(w)) \in 2 .. 3
      BY <2>1, CallIs
    <3> QED
      BY <3>1
  <2>4. NextPlace(w)' = <<(callNo[w] + 1) + 1, 1>>
    BY <2>1 DEF NextPlace, Asking, Unsent
  <2>5. NextPlace(w) = <<(callNo[w] + 1) + 1, 1>>
    BY <2>1, <2>3 DEF NextPlace, Asking, Unsent, After, Current
  <2>6. ~Asking(w)'
    BY <2>1 DEF Asking, Unsent
  <2> QED
    BY <1>2, <2>2, <2>4, <2>5, <2>6 DEF Stream
<1>5. CASE WritePipe(w) /\ Advance(w)
  <2>1. /\ callNo' = callNo /\ sent' = sent /\ wpc[w] = "advance" /\ wpc'[w] = "check"
    BY <1>0, <1>5 DEF WritePipe, Advance, WGoto
  <2>2. Contents' = Append(Contents, word[w])
    BY <1>5, PutStep
  <2>3. sent[w] # 0 /\ callNo[w] < Len(Calls[w]) /\ sent[w] <= Len(Current(w))
          /\ sent[w] \in 1 .. 3
    BY <1>0, <2>1 DEF HostOK
  <2>4. Asking(w) /\ NextPlace(w) = <<callNo[w] + 1, sent[w]>>
    BY <2>1 DEF NextPlace, Asking, Unsent
  <2>5. NextPlace(w) \in Places(w)
    <3>1. callNo[w] + 1 \in 1 .. Len(Calls[w])
      <4>1. Len(Calls[w]) \in Nat
        BY CallsAssumption, LenProperties
      <4> QED
        BY <1>0, <2>3, <4>1
    <3> QED
      BY <2>3, <2>4, <3>1 DEF Places, Current
  <2>6. ~Asking(w)' /\ NextPlace(w)' = After(w, NextPlace(w))
    BY <2>1, <2>3, <2>4 DEF NextPlace, Asking, Unsent
  <2>7. Contents \in Seq(Words \cup {NoWord}) /\ word[w] \in Words \cup {NoWord}
    BY <1>0, ContentsType
  <2>8. Spans(w, Append(Contents, word[w]), FirstPlace(w), After(w, NextPlace(w)))
    <3>1. word[w] = At(w, NextPlace(w)) /\ Spans(w, Contents, FirstPlace(w), NextPlace(w))
      BY <2>4 DEF Stream
    <3> QED
      BY <2>5, <2>7, <3>1, SpansAppend
  <2> QED
    BY <1>2, <2>2, <2>6, <2>8 DEF Stream
<1>6. CASE WritePipe(w) /\ ~Advance(w)
  <2>1. WriteStep(w) /\ callNo' = callNo /\ sent' = sent
    BY <1>6 DEF WritePipe
  <2>2. Contents' = Contents
    BY <1>6, <2>1, QuietStep DEF Queue!fifoVars
  <2>3. Asking(w)' = Asking(w) /\ word' = word
    BY <1>0, <1>6, <2>1 DEF WriteStep, WGoto, TestReader, WriterLock, WriterFull,
       WriterRoom, WriterSleep, WriterRelock, Store, MaybeWakeReader, WakeReader,
       WriterUnlock, AfterWake, Asking, Unsent
  <2>4. NextPlace(w)' = NextPlace(w)
    BY <2>1, <2>3 DEF NextPlace
  <2> QED
    BY <1>2, <2>2, <2>3, <2>4 DEF Stream
<1> QED
  BY <1>3, <1>4, <1>5, <1>6 DEF HostStep

\* A step of the server that leaves what the thread has asked alone keeps its
\* half of the stream.
LEMMA SameHost ==
  ASSUME NEW w, UNCHANGED <<callNo, sent, wpc, word>>
  PROVE  /\ NextPlace(w)' = NextPlace(w) /\ Asking(w)' = Asking(w)
         /\ At(w, NextPlace(w))' = At(w, NextPlace(w)) /\ word'[w] = word[w]
BY DEF NextPlace, Asking, At

\* The read call moves a word from the ring to the server.
LEMMA StreamRead ==
  ASSUME NInv, NEW w \in Writers, Inv(w), Stream(w), ReadPipe
  PROVE  Stream(w)'
<1> USE DEF NInv, hostVars, amigaVars
<1>1. /\ UNCHANGED <<callNo, sent, wpc, word, server, partial, delivered>>
      /\ ReadStep
  BY ReaderInside DEF ReadPipe
<1>2. server \in {"opcode", "args"}
  BY <1>1, ReaderInside DEF ServerOK
<1>3. Done(w)' /\ ReadPlace' = ReadPlace
  BY <1>1 DEF Done, ReadPlace, Stream
<1>4. /\ NextPlace(w)' = NextPlace(w)
      /\ Asking(w)' => word'[w] = At(w, NextPlace(w)')
  BY <1>1, SameHost DEF Stream
<1>5. CASE Take
  <2>1. rpc = "take" /\ rpc' = "wake" /\ ~Taken /\ Taken'
    BY <1>1, <1>2, <1>5 DEF Take, RGoto, Taken
  <2>2. Contents # << >> /\ got' = Head(Contents) /\ Contents' = Tail(Contents)
    BY <1>5, GetStep DEF Queue!Get
  <2>3. Spans(w, Contents, ReadPlace, NextPlace(w))
    BY <2>1 DEF Stream, FirstPlace
  <2>4. /\ ReadPlace \in Places(w) /\ Head(Contents) = At(w, ReadPlace)
        /\ Spans(w, Tail(Contents), After(w, ReadPlace), NextPlace(w))
    <3>1. Contents \in Seq(Words \cup {NoWord})
      BY ContentsType
    <3> QED
      BY <2>2, <2>3, <3>1, SpansTail
  <2>5. Read(w)'
    BY <1>1, <1>3, <2>2, <2>4 DEF Read, Stream, At
  <2>6. FirstPlace(w)' = After(w, ReadPlace)
    BY <1>3, <2>1 DEF FirstPlace
  <2> QED
    BY <1>3, <1>4, <2>2, <2>4, <2>5, <2>6 DEF Stream
<1>6. CASE ~Take
  <2>1. Contents' = Contents /\ got' = got
    BY <1>1, <1>6, QuietStep DEF Queue!fifoVars
  <2>2. Taken' = Taken
    BY <1>1, <1>6 DEF ReadStep, RGoto, ReaderLock, ReaderEmpty, ReaderReady,
       ReaderRelease, ReaderSleep, ReaderRelock, WakeWriter, ReaderUnlock, Taken
  <2>3. FirstPlace(w)' = FirstPlace(w) /\ Read(w)'
    BY <1>1, <1>3, <2>1, <2>2 DEF FirstPlace, Read, Stream, At
  <2> QED
    BY <1>3, <1>4, <2>1, <2>3 DEF Stream
<1> QED
  BY <1>5, <1>6

\* The server takes the words it reads for the next words of a call.
LEMMA StreamServer ==
  ASSUME NInv, NEW w \in Writers, Inv(w), Stream(w), ReadOpcode \/ ReadArg
  PROVE  Stream(w)'
<1> USE DEF NInv, vars, pipeVars, writerVars, readerVars, hostVars, amigaVars
<1>1. UNCHANGED <<callNo, sent>> /\ (BeginRead \/ UNCHANGED vars)
  BY DEF ReadOpcode, ReadArg
<1>2. UNCHANGED <<wpc, word, got>> /\ Contents' = Contents
  BY <1>1, QuietStep DEF BeginRead, Queue!fifoVars
<1>3. /\ NextPlace(w)' = NextPlace(w)
      /\ Asking(w)' => word'[w] = At(w, NextPlace(w)')
  BY <1>1, <1>2, SameHost DEF Stream
\* The word it has got is the next one of the call it is reading.
<1>4. Taken /\ server \in {"opcode", "args"}
  BY DEF ReadOpcode, ReadArg, Taken
<1>5. PICK c, k, call : /\ c = Len(delivered) + 1 /\ k = Len(partial) + 1
                        /\ call = Calls[w][c]
  OBVIOUS
<1>6. <<c, k>> \in Places(w) /\ got = call[k] /\ ReadPlace = <<c, k>>
  BY <1>4, <1>5 DEF Stream, Read, At, ReadPlace
<1>7. /\ c \in 1 .. Len(Calls[w]) /\ k \in 1 .. 3
      /\ call \in Seq(Words) /\ Len(call) \in 2 .. 3 /\ k <= Len(call)
      /\ call[1] \in Opcodes /\ Len(call) = 1 + Arity[call[1]]
  BY <1>5, <1>6, PlaceType
<1>8. PICK n \in 2 .. 3 : n = Len(call)
  BY <1>7
<1>9. Spans(w, Contents, After(w, <<c, k>>), NextPlace(w))
  BY <1>4, <1>6 DEF Stream, FirstPlace
<1>10. CASE ReadOpcode
  <2>1. partial = << >> /\ k = 1
    <3>1. server = "opcode"
      BY <1>10 DEF ReadOpcode
    <3>2. partial = << >>
      BY <3>1 DEF Stream, Read
    <3> QED
      BY <1>5, <3>2
  <2>2. /\ partial' = <<got>> /\ server' = "args" /\ BeginRead /\ delivered' = delivered
    BY <1>6, <1>7, <1>10, <2>1 DEF ReadOpcode
  <2>3. ~Taken'
    BY <2>2 DEF BeginRead, RGoto, Taken
  <2>4. PICK q : q = partial' /\ q = <<call[1]>>
    BY <1>6, <2>1, <2>2
  <2>5. Len(q) = 1 /\ q # << >> /\ \A j \in 1 .. 1 : q[j] = call[j]
    BY <2>4
  <2>6. PICK e : e = delivered' /\ e = delivered
    BY <2>2
  <2>7. ReadPlace' = <<c, 2>>
    BY <1>5, <2>2, <2>4, <2>5 DEF ReadPlace
  <2>8. After(w, <<c, k>>) = <<c, 2>>
    <3>1. k < n /\ k + 1 = 2
      BY <2>1
    <3> QED
      BY <1>5, <1>8, <3>1 DEF After
  <2>9. <<c, 2>> \in Places(w)
    BY <1>5, <1>7, <1>8 DEF Places
  <2>10. Read(w)'
    BY <1>5, <2>2, <2>3, <2>4, <2>5, <2>7, <2>9 DEF Read
  <2>11. Done(w)'
    BY <2>2 DEF Done, Stream
  <2>12. FirstPlace(w)' = <<c, 2>>
    BY <2>3, <2>7 DEF FirstPlace
  <2> QED
    BY <1>2, <1>3, <1>9, <2>8, <2>10, <2>11, <2>12 DEF Stream
<1>11. CASE ReadArg
  <2>1. partial # << >> /\ server = "args"
    BY <1>11 DEF ReadArg, Stream, Read
  <2>2. PICK p \in Seq(Words \cup {NoWord}) : p = partial
    BY DEF ServerOK
  <2>3. PICK m \in Nat : m = Len(p) /\ k = m + 1 /\ m >= 1
    BY <1>5, <2>1, <2>2, LenProperties, EmptySeq
  <2>4. PICK q : q = Append(p, got)
    OBVIOUS
  <2>5. got \in Words \cup {NoWord} /\ \A j \in 1 .. m : p[j] = call[j]
    BY <1>5, <2>2, <2>3 DEF TypeOK, Stream, Read
  <2>6. /\ q \in Seq(Words \cup {NoWord}) /\ Len(q) = k
        /\ \A j \in 1 .. k : q[j] = call[j]
    <3>1. /\ q \in Seq(Words \cup {NoWord}) /\ Len(q) = m + 1 /\ q[m + 1] = got
          /\ \A j \in 1 .. m : q[j] = p[j]
      BY <2>3, <2>4, <2>5, AppendProperties
    <3> QED
      BY <1>6, <2>3, <2>5, <3>1
  <2>7. q[1] = call[1]
    BY <2>3, <2>6
  <2>8. CASE k < n
    <3>1. /\ partial' = q /\ BeginRead /\ server' = server /\ delivered' = delivered
      <4>1. Len(q) # Arity[q[1]] + 1
        <5>1. n = 1 + Arity[call[1]] /\ Arity[call[1]] \in {1, 2}
          BY <1>7, <1>8 DEF Arity, Opcodes
        <5> QED
          BY <2>3, <2>6, <2>7, <2>8, <5>1
      <4> QED
        BY <1>11, <2>2, <2>4, <4>1 DEF ReadArg
    <3>2. ~Taken'
      BY <3>1 DEF BeginRead, RGoto, Taken
    <3>3. ReadPlace' = <<c, k + 1>>
      BY <1>5, <2>6, <3>1 DEF ReadPlace
    <3>4. After(w, <<c, k>>) = <<c, k + 1>>
      BY <1>5, <1>8, <2>8 DEF After
    <3>5. <<c, k + 1>> \in Places(w)
      BY <1>5, <1>7, <1>8, <2>8 DEF Places
    <3>6. q # << >>
      BY <2>3, <2>6
    <3>7. Read(w)'
      BY <1>5, <2>1, <2>6, <3>1, <3>2, <3>3, <3>5, <3>6 DEF Read
    <3>8. Done(w)'
      BY <3>1 DEF Done, Stream
    <3>9. FirstPlace(w)' = <<c, k + 1>>
      BY <3>2, <3>3 DEF FirstPlace
    <3> QED
      BY <1>2, <1>3, <1>9, <3>4, <3>7, <3>8, <3>9 DEF Stream
  <2>9. CASE k = n
    <3>1. q = call
      BY <1>7, <1>8, <2>6, <2>9, SeqEqual
    <3>2. /\ partial' = << >> /\ server' = "loop"
          /\ delivered' = Append(delivered, q)
      <4>1. ~(Len(q) <= Arity[q[1]])
        <5>1. n = 1 + Arity[call[1]] /\ Arity[call[1]] \in {1, 2}
          BY <1>7, <1>8 DEF Arity, Opcodes
        <5> QED
          BY <2>3, <2>6, <2>7, <2>9, <5>1
      <4> QED
        BY <1>11, <2>2, <2>4, <4>1 DEF ReadArg
    <3>3. PICK e \in Seq(Seq(Words \cup {NoWord})) : e = delivered
      BY DEF Stream, Done
    <3>4. PICK f : f = Append(e, q)
      OBVIOUS
    <3>5. PICK l \in Nat : l = Len(e) /\ c = l + 1
      BY <1>5, <3>3, LenProperties
    <3>6. /\ f \in Seq(Seq(Words \cup {NoWord})) /\ Len(f) = c /\ f[c] = q
          /\ \A i \in 1 .. l : f[i] = e[i]
      BY <2>6, <3>4, <3>5, AppendProperties
    <3>7. \A i \in 1 .. l : e[i] = Calls[w][i]
      BY <3>3, <3>5 DEF Stream, Done
    <3>8. \A i \in 1 .. c : f[i] = Calls[w][i]
      <4>1. f[c] = Calls[w][c]
        BY <1>5, <3>1, <3>6
      <4>2. \A i \in 1 .. c : i = c \/ i \in 1 .. l
        BY <3>5
      <4> QED
        BY <3>6, <3>7, <4>1, <4>2
    <3>9. delivered' = f
      BY <3>2, <3>3, <3>4
    <3>10. Done(w)'
      <4>1. c <= Len(Calls[w])
        BY <1>7
      <4> QED
        BY <3>6, <3>8, <3>9, <4>1 DEF Done
    <3>11. ~Taken'
      BY <3>2 DEF Taken
    <3>12. PICK z : z = partial' /\ z = << >>
      BY <3>2
    <3>13. Len(z) = 0 /\ 1 .. Len(z) = {}
      BY <3>12
    <3>14. ReadPlace' = <<c + 1, 1>>
      BY <3>6, <3>9, <3>12, <3>13 DEF ReadPlace
    <3>15. After(w, <<c, k>>) = <<c + 1, 1>>
      BY <1>5, <1>8, <2>9 DEF After
    <3>16. Read(w)'
      BY <3>2, <3>11, <3>12, <3>13 DEF Read
    <3>17. FirstPlace(w)' = <<c + 1, 1>>
      BY <3>11, <3>14 DEF FirstPlace
    <3> QED
      BY <1>2, <1>3, <1>9, <3>10, <3>15, <3>16, <3>17 DEF Stream
  <2> QED
    BY <1>7, <1>8, <2>8, <2>9
<1> QED
  BY <1>10, <1>11

\* The stream is kept by every step, when the thread is the only one.
LEMMA StreamStep ==
  ASSUME NEW w, Writers = {w}, NInv, Inv(w), Stream(w), [N2ANext]_n2aVars
  PROVE  Stream(w)'
<1>0. w \in Writers
  OBVIOUS
<1>1. ASSUME NEW u \in Writers, HostStep(u)
      PROVE  Stream(w)'
  <2>1. u = w
    OBVIOUS
  <2> QED
    BY <1>0, <1>1, <2>1, StreamHost
<1>2. CASE ReadPipe
  BY <1>0, <1>2, StreamRead
<1>3. CASE ReadOpcode \/ ReadArg
  BY <1>0, <1>3, StreamServer
\* No other step moves a word.
<1>4. CASE \/ Hsync \/ OtherExter \/ EnterServer \/ NotForUs \/ FindWork
           \/ NoWork \/ LeaveServer \/ UNCHANGED n2aVars
  <2> USE DEF vars, pipeVars, writerVars, readerVars, hostVars, amigaVars
  <2>1. BeginRead \/ UNCHANGED vars
    BY <1>4 DEF Hsync, OtherExter, EnterServer, NotForUs, FindWork, NoWork,
       LeaveServer, n2aVars
  <2>2. TypeOK
    BY DEF NInv
  <2>3. UNCHANGED <<wpc, word, got>> /\ Contents' = Contents
    BY <1>0, <2>1, <2>2, QuietStep DEF BeginRead, Queue!fifoVars
  <2>4. UNCHANGED <<callNo, sent, partial, delivered>>
    BY <1>4 DEF Hsync, OtherExter, EnterServer, NotForUs, FindWork, NoWork,
       LeaveServer, n2aVars
  <2>5. /\ Taken' = Taken
        /\ (server = "args")' = (server = "args")
    <3>1. CASE FindWork
      BY <3>1 DEF FindWork, BeginRead, RGoto, Taken
    <3>2. CASE ~FindWork
      BY <1>4, <3>2 DEF Hsync, OtherExter, EnterServer, NotForUs, NoWork,
         LeaveServer, n2aVars, Taken
    <3> QED
      BY <3>1, <3>2
  <2>6. ReadPlace' = ReadPlace /\ FirstPlace(w)' = FirstPlace(w)
    BY <2>4, <2>5 DEF ReadPlace, FirstPlace
  <2>7. Read(w)' /\ Done(w)'
    BY <2>3, <2>4, <2>5, <2>6 DEF Stream, Read, Done, At
  <2>8. /\ NextPlace(w)' = NextPlace(w)
        /\ Asking(w)' => word'[w] = At(w, NextPlace(w)')
    BY <2>3, <2>4, SameHost DEF Stream
  <2> QED
    BY <2>3, <2>6, <2>7, <2>8 DEF Stream
<1> QED
  BY <1>1, <1>2, <1>3, <1>4 DEF N2ANext, ServerStep

LEMMA StreamInit ==
  ASSUME NEW w, Writers = {w}, N2AInit
  PROVE  Stream(w)
<1> USE DEF N2AInit, Init
<1>1. Contents = << >>
  BY DEF Contents, Count
<1>2. FirstPlace(w) = <<1, 1>>
  <2>1. PICK z : z = << >>
    OBVIOUS
  <2>2. Len(z) = 0
    BY <2>1
  <2>3. delivered = z /\ partial = z /\ ~Taken
    BY <2>1 DEF Taken
  <2> QED
    BY <2>2, <2>3 DEF FirstPlace, ReadPlace
<1>3. ~Asking(w) /\ NextPlace(w) = <<1, 1>>
  BY DEF Asking, NextPlace, Unsent
<1>4. Spans(w, << >>, <<1, 1>>, <<1, 1>>)
  <2>1. <<1, 1>> \in Nat \X Nat
    OBVIOUS
  <2> QED
    BY <2>1, SpansNothing
<1>5. Read(w)
  BY DEF Read, Taken
<1>6. Done(w)
  <2>1. Len(Calls[w]) \in Nat
    BY CallsAssumption, LenProperties
  <2> QED
    BY <2>1 DEF Done
<1> QED
  BY <1>1, <1>2, <1>3, <1>4, <1>5, <1>6 DEF Stream

\* With one thread the three invariants hold together: that of the pipe, that
\* of the server and the stream between the thread and the server.
THEOREM StreamInvariance ==
  ASSUME NEW W, Writers = {W}
  PROVE  N2ASpec => [](NInv /\ Inv(W) /\ Stream(W))
<1>1. N2AInit => Stream(W)
  BY StreamInit
<1>2. NInv /\ Inv(W) /\ Stream(W) /\ [N2ANext]_n2aVars => Stream(W)'
  BY StreamStep
<1>3. Spec => []Inv(W)
  BY Invariance, PTL
<1> QED
  BY <1>1, <1>2, <1>3, ServerInvariance, UsesThePipe, PTL DEF N2ASpec

\* With one thread the calls made on the Amiga are, at any time, the first
\* of those the thread asked for, each with its own words: none is lost,
\* repeated, overtaken or mixed with another.
THEOREM CallsInOrder ==
  ASSUME NEW W, Writers = {W}
  PROVE  N2ASpec => [](/\ Len(delivered) <= Len(Calls[W])
                       /\ \A i \in 1 .. Len(delivered) :
                            delivered[i] = Calls[W][i])
<1>1. Stream(W) => /\ Len(delivered) <= Len(Calls[W])
                   /\ \A i \in 1 .. Len(delivered) : delivered[i] = Calls[W][i]
  BY DEF Stream, Done
<1> QED
  BY <1>1, StreamInvariance, PTL

\* So when the thread never asks for the same call twice, every call made is
\* one it asked for, whole, and made once.
THEOREM OneThreadIntact ==
  ASSUME NEW W, Writers = {W}, IsInjective(Calls[W])
  PROVE  N2ASpec => []CallsIntact
<1>1. Stream(W) => CallsIntact
  <2> SUFFICES ASSUME Stream(W) PROVE CallsIntact
    OBVIOUS
  <2>1. PICK e \in Seq(Seq(Words \cup {NoWord})) : e = delivered
    BY DEF Stream, Done
  <2>2. PICK n \in Nat : n = Len(e) /\ DOMAIN e = 1 .. n
    BY LenProperties
  <2>3. PICK c \in Seq(Seq(Words)) : c = Calls[W]
    BY CallsAssumption
  <2>4. PICK m \in Nat : m = Len(c) /\ DOMAIN c = 1 .. m
    BY LenProperties
  <2>5. n <= m /\ \A i \in 1 .. n : e[i] = c[i] /\ i \in 1 .. m
    BY <2>1, <2>2, <2>3, <2>4 DEF Stream, Done
  <2>6. \A i \in 1 .. n : e[i] \in ToSet(c)
    BY <2>4, <2>5 DEF ToSet
  <2>7. \A i, j \in 1 .. m : c[i] = c[j] => i = j
    BY <2>3, <2>4 DEF IsInjective
  <2>8. IsInjective(e)
    BY <2>2, <2>5, <2>7 DEF IsInjective
  <2> QED
    BY <2>1, <2>2, <2>3, <2>6, <2>8 DEF CallsIntact
<1> QED
  BY <1>1, StreamInvariance, PTL

=============================================================================
