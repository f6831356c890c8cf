------------------------------ MODULE CommPipe ------------------------------
(***************************************************************************)
(* The thread-to-thread pipe of include/commpipe.h (smp_comm_pipe), at the *)
(* grain of its accesses to shared memory: a ring of Size words with a     *)
(* read and a write index, a lock, and a semaphore and a flag on which     *)
(* each side sleeps.  A writer that sees the reader asleep takes a path    *)
(* without the lock.                                                       *)
(*                                                                         *)
(* One reader; any set of writers.  Every state change of the pipe is an   *)
(* action with the thread as a parameter, so that the components that use  *)
(* a pipe (Native2Amiga, FilesysPackets) compose it with their own steps.  *)
(***************************************************************************)
EXTENDS Naturals, Sequences

CONSTANTS Writers,      \* the threads that call write_comm_pipe_*
          Words,        \* the values of a uae_pt the users send
          Size,         \* number of slots (second argument of init_comm_pipe)
          Chunks,       \* words to queue before the reader is woken (third)
          NoWord        \* a slot malloc returned and nobody wrote

\* The pipes of the program: 50/3 and 50/1 (filesys.c), 10/2
\* (native2amiga.c), 100/1 (scsidev.c).
ASSUME SizesAssumption == /\ Size \in Nat \ {0, 1}
                          /\ Chunks \in 1 .. (Size - 1)
                          /\ NoWord \notin Words

Slots == 0 .. (Size - 1)

VARIABLES
  lock, readerWait, writerWait,         \* counts of the three semaphores
  data, rdp, wrp,                       \* the ring
  writerWaiting, readerWaiting,         \* the two flags
  wpc,          \* where each writer is in write_comm_pipe_pt
  nxwrp,        \* its local nxwrp
  word,         \* its argument data
  noBuffer,     \* its argument no_buffer
  path,         \* it found the reader asleep, or takes the lock
  rpc,          \* where the reader is in read_comm_pipe_pt_blocking
  got           \* the reader's local data

pipeVars == <<lock, readerWait, writerWait, data, rdp, wrp,
              writerWaiting, readerWaiting>>
writerVars == <<wpc, nxwrp, word, noBuffer, path>>
readerVars == <<rpc, got>>
vars == <<pipeVars, writerVars, readerVars>>

WriterPcs == {"idle", "test", "lock", "full", "sleep", "relock", "store",
              "advance", "check", "wake", "unlock"}
ReaderPcs == {"idle", "lock", "empty", "release", "sleep", "relock", "take",
              "wake", "unlock"}

\* Mutant: the index does not wrap.
BadInc(i) == i + 1

\* (i + 1) % size, for an index of the ring.
Inc(i) == IF i = Size - 1 THEN 0 ELSE i + 1

\* (wrp - rdp + size) % size: the words in the ring.
Count == IF wrp >= rdp THEN wrp - rdp ELSE wrp + Size - rdp

\* comm_pipe_has_data
HasData == rdp # wrp

-----------------------------------------------------------------------------
Init ==
  /\ lock = 1 /\ readerWait = 0 /\ writerWait = 0
  /\ data = [i \in Slots |-> NoWord]
  /\ rdp = 0 /\ wrp = 0
  /\ writerWaiting = 0 /\ readerWaiting = 0
  /\ wpc = [w \in Writers |-> "idle"]
  /\ nxwrp = [w \in Writers |-> 0]
  /\ word = [w \in Writers |-> NoWord]
  /\ noBuffer = [w \in Writers |-> 0]
  /\ path = [w \in Writers |-> "fast"]
  /\ rpc = "idle" /\ got = NoWord

WGoto(w, from, to) == wpc[w] = from /\ wpc' = [wpc EXCEPT ![w] = to]
RGoto(from, to) == rpc = from /\ rpc' = to

-----------------------------------------------------------------------------
(* write_comm_pipe_pt (p, data, no_buffer)                                 *)

\* The call: nxwrp is computed first, before any test and without the lock.
BeginWrite(w, v, nb) ==
  /\ WGoto(w, "idle", "test")
  /\ nxwrp' = [nxwrp EXCEPT ![w] = Inc(wrp)]
  /\ word' = [word EXCEPT ![w] = v]
  /\ noBuffer' = [noBuffer EXCEPT ![w] = nb]
  /\ UNCHANGED <<pipeVars, path, readerVars>>

\* if (p->reader_waiting): "No need to do all the locking".
TestReader(w) ==
  /\ wpc[w] = "test"
  /\ wpc' = [wpc EXCEPT ![w] = IF readerWaiting = 1 THEN "store" ELSE "lock"]
  /\ path' = [path EXCEPT ![w] = IF readerWaiting = 1 THEN "fast"
                                                   ELSE "locked"]
  /\ UNCHANGED <<pipeVars, nxwrp, word, noBuffer, readerVars>>

WriterLock(w) ==
  /\ WGoto(w, "lock", "full")
  /\ lock > 0 /\ lock' = lock - 1
  /\ UNCHANGED <<readerWait, writerWait, data, rdp, wrp, writerWaiting,
                 readerWaiting, nxwrp, word, noBuffer, path, readerVars>>

\* if (nxwrp == p->rdp): sleep until the reader has taken a word.
WriterFull(w) ==
  /\ WGoto(w, "full", "sleep")
  /\ nxwrp[w] = rdp
  /\ writerWaiting' = 1
  /\ lock' = lock + 1
  /\ UNCHANGED <<readerWait, writerWait, data, rdp, wrp, readerWaiting,
                 nxwrp, word, noBuffer, path, readerVars>>

\* Mutant: the ring is not tested for room.
BadWriterRoom(w) ==
  /\ WGoto(w, "full", "store")
  /\ UNCHANGED <<pipeVars, nxwrp, word, noBuffer, path, readerVars>>

WriterRoom(w) ==
  /\ WGoto(w, "full", "store")
  /\ nxwrp[w] # rdp
  /\ UNCHANGED <<pipeVars, nxwrp, word, noBuffer, path, readerVars>>

WriterSleep(w) ==
  /\ WGoto(w, "sleep", "relock")
  /\ writerWait > 0 /\ writerWait' = writerWait - 1
  /\ UNCHANGED <<lock, readerWait, data, rdp, wrp, writerWaiting,
                 readerWaiting, nxwrp, word, noBuffer, path, readerVars>>

\* The lock again; nothing is tested a second time.
WriterRelock(w) ==
  /\ WGoto(w, "relock", "store")
  /\ lock > 0 /\ lock' = lock - 1
  /\ UNCHANGED <<readerWait, writerWait, data, rdp, wrp, writerWaiting,
                 readerWaiting, nxwrp, word, noBuffer, path, readerVars>>

\* p->data[p->wrp] = data
Store(w) ==
  /\ WGoto(w, "store", "advance")
  /\ data' = [data EXCEPT ![wrp] = word[w]]
  /\ UNCHANGED <<lock, readerWait, writerWait, rdp, wrp, writerWaiting,
                 readerWaiting, nxwrp, word, noBuffer, path, readerVars>>

\* p->wrp = nxwrp
Advance(w) ==
  /\ WGoto(w, "advance", "check")
  /\ wrp' = nxwrp[w]
  /\ UNCHANGED <<lock, readerWait, writerWait, data, rdp, writerWaiting,
                 readerWaiting, nxwrp, word, noBuffer, path, readerVars>>

\* Where a call goes after maybe_wake_reader.
AfterWake(w) == IF path[w] = "locked" THEN "unlock" ELSE "idle"

\* Mutant: no_buffer is ignored.
BadMaybeWakeReader(w) ==
  /\ wpc[w] = "check"
  /\ wpc' = [wpc EXCEPT ![w] =
       IF readerWaiting = 1 /\ Count >= Chunks THEN "wake" ELSE AfterWake(w)]
  /\ UNCHANGED <<pipeVars, nxwrp, word, noBuffer, path, readerVars>>

\* maybe_wake_reader: the test ...
MaybeWakeReader(w) ==
  /\ wpc[w] = "check"
  /\ wpc' = [wpc EXCEPT ![w] =
       IF readerWaiting = 1 /\ (noBuffer[w] = 1 \/ Count >= Chunks) THEN "wake"
       ELSE AfterWake(w)]
  /\ UNCHANGED <<pipeVars, nxwrp, word, noBuffer, path, readerVars>>

\* ... and the post.
WakeReader(w) ==
  /\ WGoto(w, "wake", AfterWake(w))
  /\ readerWaiting' = 0
  /\ readerWait' = readerWait + 1
  /\ UNCHANGED <<lock, writerWait, data, rdp, wrp, writerWaiting,
                 nxwrp, word, noBuffer, path, readerVars>>

WriterUnlock(w) ==
  /\ WGoto(w, "unlock", "idle")
  /\ lock' = lock + 1
  /\ UNCHANGED <<readerWait, writerWait, data, rdp, wrp, writerWaiting,
                 readerWaiting, nxwrp, word, noBuffer, path, readerVars>>

\* The steps of a write call after its beginning.
WriteStep(w) ==
  \/ TestReader(w) \/ WriterLock(w) \/ WriterFull(w) \/ WriterRoom(w)
  \/ WriterSleep(w) \/ WriterRelock(w) \/ Store(w) \/ Advance(w)
  \/ MaybeWakeReader(w) \/ WakeReader(w) \/ WriterUnlock(w)

-----------------------------------------------------------------------------
(* read_comm_pipe_pt_blocking (p)                                          *)

BeginRead ==
  /\ RGoto("idle", "lock")
  /\ UNCHANGED <<pipeVars, writerVars, got>>

ReaderLock ==
  /\ RGoto("lock", "empty")
  /\ lock > 0 /\ lock' = lock - 1
  /\ UNCHANGED <<readerWait, writerWait, data, rdp, wrp, writerWaiting,
                 readerWaiting, writerVars, got>>

\* if (p->rdp == p->wrp): from here on a writer may take the path without
\* the lock, which the reader still holds.
ReaderEmpty ==
  /\ RGoto("empty", "release")
  /\ ~HasData
  /\ readerWaiting' = 1
  /\ UNCHANGED <<lock, readerWait, writerWait, data, rdp, wrp, writerWaiting,
                 writerVars, got>>

ReaderReady ==
  /\ RGoto("empty", "take")
  /\ HasData
  /\ UNCHANGED <<pipeVars, writerVars, got>>

ReaderRelease ==
  /\ RGoto("release", "sleep")
  /\ lock' = lock + 1
  /\ UNCHANGED <<readerWait, writerWait, data, rdp, wrp, writerWaiting,
                 readerWaiting, writerVars, got>>

ReaderSleep ==
  /\ RGoto("sleep", "relock")
  /\ readerWait > 0 /\ readerWait' = readerWait - 1
  /\ UNCHANGED <<lock, writerWait, data, rdp, wrp, writerWaiting,
                 readerWaiting, writerVars, got>>

ReaderRelock ==
  /\ RGoto("relock", "take")
  /\ lock > 0 /\ lock' = lock - 1
  /\ UNCHANGED <<readerWait, writerWait, data, rdp, wrp, writerWaiting,
                 readerWaiting, writerVars, got>>

\* data = p->data[p->rdp]; p->rdp = (p->rdp + 1) % p->size
Take ==
  /\ RGoto("take", "wake")
  /\ got' = data[rdp]
  /\ rdp' = Inc(rdp)
  /\ UNCHANGED <<lock, readerWait, writerWait, data, wrp, writerWaiting,
                 readerWaiting, writerVars>>

\* Mutant: the flag is cleared and the semaphore is not posted.
BadWakeWriter ==
  /\ RGoto("wake", "unlock")
  /\ writerWaiting' = 0
  /\ UNCHANGED <<lock, readerWait, writerWait, data, rdp, wrp, readerWaiting,
                 writerVars, got>>

\* if (p->writer_waiting) { p->writer_waiting = 0; post }
WakeWriter ==
  /\ RGoto("wake", "unlock")
  /\ writerWaiting' = 0
  /\ writerWait' = IF writerWaiting = 1 THEN writerWait + 1 ELSE writerWait
  /\ UNCHANGED <<lock, readerWait, data, rdp, wrp, readerWaiting,
                 writerVars, got>>

ReaderUnlock ==
  /\ RGoto("unlock", "idle")
  /\ lock' = lock + 1
  /\ UNCHANGED <<readerWait, writerWait, data, rdp, wrp, writerWaiting,
                 readerWaiting, writerVars, got>>

\* The steps of a read call after its beginning.
ReadStep ==
  \/ ReaderLock \/ ReaderEmpty \/ ReaderReady \/ ReaderRelease
  \/ ReaderSleep \/ ReaderRelock \/ Take \/ WakeWriter \/ ReaderUnlock

-----------------------------------------------------------------------------
\* Any words in any order; the users' protocols are in the modules that
\* compose the pipe.
Next ==
  \/ \E w \in Writers :
       \/ \E v \in Words, nb \in {0, 1} : BeginWrite(w, v, nb)
       \/ WriteStep(w)
  \/ BeginRead
  \/ ReadStep

Spec == Init /\ [][Next]_vars

\* Threads are scheduled fairly.  The reader's thread reads for ever
\* (filesys_thread, scsidev_thread); no writer has to start a call.  Weak
\* fairness is enough, the semaphores need not be fair: the reader holds the
\* lock for at most Size - 1 words before it sleeps, a writer likewise.
FairSpec ==
  /\ Spec
  /\ \A w \in Writers : WF_vars(WriteStep(w))
  /\ WF_vars(BeginRead \/ ReadStep)

-----------------------------------------------------------------------------
(* Properties                                                              *)

\* Every variable of the pipe and of the calls in progress keeps its type.
TypeOK ==
  /\ lock \in Nat /\ readerWait \in Nat /\ writerWait \in Nat
  /\ data \in [Slots -> Words \cup {NoWord}]
  /\ rdp \in Slots /\ wrp \in Slots
  /\ writerWaiting \in {0, 1} /\ readerWaiting \in {0, 1}
  /\ wpc \in [Writers -> WriterPcs]
  /\ nxwrp \in [Writers -> Slots]
  /\ word \in [Writers -> Words \cup {NoWord}]
  /\ noBuffer \in [Writers -> {0, 1}]
  /\ path \in [Writers -> {"fast", "locked"}]
  /\ rpc \in ReaderPcs
  /\ got \in Words \cup {NoWord}

\* A write never fills the last free slot, the one that tells a full ring
\* from an empty one, and never passes the reader: when write_comm_pipe_pt is
\* about to move wrp, on either path, the slot after it is not the reader's.
NoOverwrite ==
  \A w \in Writers : wpc[w] \in {"store", "advance"} =>
     nxwrp[w] # rdp /\ nxwrp[w] = Inc(wrp)

\* The word the reader takes has been written: the reader is woken only when
\* there is something to take, for it does not look again.
NoUnderflow == rpc \in {"relock", "take"} => HasData

\* No lost wake-up: when no call to write is in progress and the reader is
\* asleep for good (its semaphore has not been posted), fewer words than
\* Chunks are queued, none of them sent with no_buffer.
NoLostWakeup ==
  (/\ rpc = "sleep" /\ readerWait = 0
   /\ \A w \in Writers : wpc[w] = "idle") =>
     Count < Chunks /\ (HasData => \E w \in Writers : noBuffer[w] = 0)

\* The two sides never sleep on each other: a writer waits for room only
\* while the reader is awake or about to be woken.
NotBothAsleep ==
  ~ /\ rpc = "sleep" /\ readerWait = 0
    /\ \E w \in Writers : wpc[w] = "sleep" /\ writerWait = 0

\* Every call to write_comm_pipe_* returns.
WriteReturns == \A w \in Writers : wpc[w] # "idle" ~> wpc[w] = "idle"

\* A word sent with no_buffer set is not left in the pipe: the reader gets
\* as far as the place where it was put.
FlushDelivers ==
  \A w \in Writers, i \in Slots :
    (wpc[w] = "check" /\ noBuffer[w] = 1 /\ wrp = i) ~> (rdp = i)

-----------------------------------------------------------------------------
(* The pipe implements the queue of Fifo.                                  *)

\* The words from rdp up to wrp, oldest first.
Contents == [i \in 1 .. Count |->
               data[IF rdp + i - 1 < Size THEN rdp + i - 1
                                          ELSE rdp + i - 1 - Size]]

Unsent == {"test", "lock", "full", "sleep", "relock", "store", "advance"}

Asked == [w \in Writers |-> IF wpc[w] \in Unsent THEN word[w] ELSE NoWord]

Queue == INSTANCE Fifo WITH Capacity <- Size - 1, asked <- Asked,
                            queue <- Contents, got <- got

\* Every behaviour of a pipe with one writer is one of a first-in first-out
\* queue of Size - 1 words: no word is lost, duplicated, overtaken or changed.
FifoSpec == Queue!Spec
=============================================================================
