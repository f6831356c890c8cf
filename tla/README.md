# UAE, specified in TLA+

These modules model the parts of UAE, the Amiga emulator in `src/`, whose
correctness depends on the order in which things happen: host threads that talk
to the emulated machine, traps that run host code in the middle of 68k code,
and devices that are simulated lazily but must look as if they ran all the
time. TLC checks the modules on small instances; TLAPS proves some of their
properties for all instances.

Paths below are relative to `src/src/`.

## 1. The system

One thread, *the emulator's thread*, runs everything that belongs to the
Amiga: the 68k interpreter (`newcpu.c`) executes instructions, and between them
`do_cycles` lets time pass and calls the handlers of the events that are due
(`include/events.h`): the end of a line or frame, the CIAs, the blitter, the
disk, audio. Devices speak to the program through registers and through
interrupt requests (`INTREQ`), which the loop looks at when a flag in
`regs.spcflags` says so.

Beside it there are host threads: one for each mounted host directory
(`filesys.c`), SCSI unit (`scsidev.c`) and socket base (`bsdsocket*.c`), and one
for each running trap that calls back into 68k code (`traps.c`). They
communicate with the emulator's thread only through pipes
(`include/commpipe.h`), semaphores, and the variable `uae_int_requested`, which
`hsync_handler` polls on each line and turns into an EXTER interrupt.

### Inventory

| component | state | operations | interacts with | hard part | correct when |
|---|---|---|---|---|---|
| communication pipe (`commpipe.h`) | ring, two indices, two sleep flags, three semaphores | write (with or without `no_buffer`), blocking read, has-data | called by every threaded device | the writer does not take the lock when it sees the reader asleep | it is a FIFO queue, nobody sleeps for ever |
| calls from host threads (`native2amiga.c`, `exter_int_helper` in `filesys.c`) | one pipe, `uae_int_requested`, `singlethread_int_sem` | ReplyMsg, PutMsg, Signal; the interrupt server | scsidev, bsdsocket threads; Exec | a flag cleared before or after the work; several writers on one pipe | every call is made whole, once |
| traps (`traps.c`) | contexts, `current_context`, `trap_mutex`, the registers | invoke, call 68k code, return, exit | filesys, uaelib, bsdsocket, Exec's scheduler | nested and interleaved contexts, a mutex handed between threads | control in one place; each call gets its own result, each task its registers |
| filesystem packets (`filesys.c`, `filesys.asm`) | task's list and `d5`, status field, two pipes, three counters per unit | send, start, complete, dummy message, scan, reset | pipes, interrupt, Exec, audio (`active_fs_packets`) | three parties advance counters without a lock; limits; reset | every packet is answered once, after it was done |
| filesystem objects (`filesys.c`, `fsdb*.c`) | tree of `a_inode`s, LRU list, locks, keys | lock, open, examine, rename, delete, recycle | packets, host's files | locks on objects that are renamed, deleted or recycled | no lock or key refers to a dead object; lock counts are exact |
| CIA timers (`cia.c`) | timers, latches, control, ICR, `ev_cia` | register reads and writes, the event | interrupts, events | computed only when needed | not distinguishable from counting each clock |
| CIA clock, keyboard (`cia.c`, `keybuf.c`) | TOD, alarm, ring of key codes, `kbstate`, `ciaasdr_unread` | hsync, vsync, read of SDR, key events | host's input | hand-shake with a timeout; a full ring | keys arrive in order, none lost while the ring has room |
| interrupts and the 68k's loop (`custom.c`, `newcpu.c`) | INTREQ, INTENA, mask, `spcflags`, `quit_program` | register writes, requests, SR, STOP, quit, reset | every device | two flags in series, a stopped 68k | no request is forgotten, a quit is carried out |
| serial port (`serial.c`) | in and out buffers, SERDATR, polling flag | SERDAT, SERDATR, DTR, poll, flush | CIA handlers, interrupts | polled, and requests without a flag | no received byte is overwritten or unannounced |
| events (`events.h`) | `eventtab`, `nextevent` | schedule, run those due | all devices | events in the past, the frame's last line | handlers run in time |
| copper, bitplanes (`custom.c`) | beam, copper's state, DMA | cycle steps, register writes | drawing | cycle exactness | the picture |
| blitter (`blitter.c`) | `bltstate`, registers | start, finish | events, interrupts | finished later than it is computed | busy until the interrupt |
| audio (`audio.c`) | four channel state machines | DMA, AUDxDAT, event | interrupts | manual and DMA mode switch | samples and interrupts in order |
| disk (`disk.c`) | drives, track position, DMA | select, step, motor, read, write, change | CIA, interrupts | disk change while reading | the track read is the track written |
| hard files (`hardfile.c`) | open image | synchronous I/O | Exec | none | blocks in range |
| SCSI (`scsidev.c`) | units with a thread and a pipe | open, close, BeginIO | pipe, native2amiga | shutdown | each request replied once |
| sockets (`bsdsocket*.c`) | sockets, signals, a thread per base | calls, select, abort | native2amiga, Exec | abort against completion | each call ends once |
| remote CLI, uaelib | queue of commands | trap | traps | none | order |
| memory, expansion, Gayle, ROMs | bank table | map, autoconfig | 68k | sequential | tables |
| display, Picasso96, input, GUI, state files, configuration, debugger, host ports, generators | - | - | - | I/O, formats, data | - |

`PROJECT.json` lists them all with what is modelled and why the rest is not,
and the hazards found in the code, each with the properties that cover it.

## 2. The modules

| module | models | composed of |
|---|---|---|
| `Fifo` | what a pipe promises | - |
| `CommPipe` | `commpipe.h`, one action per access to shared memory | implements `Fifo` |
| `Native2Amiga` | `native2amiga.c` and the interrupt server | `CommPipe` |
| `Traps` | extended traps of `traps.c` | - |
| `FilesysPackets` | a packet's way through `filesys.asm`, `filesys.c` | pipes as the queues of `Fifo` |
| `Cia` | timers of `cia.c` beside the chip they stand for | - |
| `Interrupts` | `INTREQ`, `INTENA`, `do_specialties`, `m68k_go` | - |
| `Serial` | `serial.c` | `Interrupts` |
| `FilesysObjects` | `a_inode`s, locks, open files, scans and the cache of `filesys.c` | - |
| `Keyboard` | `keybuf.c`, the keyboard in `cia.c` and `inputdevice.c` | implements `Fifo` |
| `Sockets` | `bsdsocket.c`, `bsdsocket-posix-new.c`: a task and the thread of its base | `Deliver` stands for `Native2Amiga` |
| `Native2Amiga_proofs` | theorems about `CommPipe` and `Native2Amiga` | extends `Native2Amiga`, so both |
| `Traps_proofs`, `FilesysPackets_proofs`, `FilesysObjects_proofs`, `Cia_proofs`, `Serial_proofs`, `Keyboard_proofs`, `Sockets_proofs` | theorems | each extends its module |
| `MC*` | the instances | |

In each module an action is named after the function, case or comment of the
code it stands for, and variables keep the code's names; `PROJECT.json`'s
`map` gives the lines of every definition. `Inv` in a module is the conjunction
of its type invariant and those safety invariants that are checked with it.
Definitions named `Bad...` are
plausible mistakes in the definition that follows them; each run's properties
are known to be violated when one of them is put in its place.

**CommPipe.** `wpc` and `rpc` are the places of a writer and of the reader in
`write_comm_pipe_pt` and `read_comm_pipe_pt_blocking`. Semaphores are their
counts. `wpc = "test"` is the look at `reader_waiting` without the lock, after
`nxwrp` was computed; `path` is the branch it chose. The reader's second look at
the ring is taken with the lock.

**Native2Amiga.** `WriteWord` begins the write of the next word of a call; the
pipe's own steps follow. `Hsync` is the poll of `uae_int_requested`,
`EnterServer` ... `LeaveServer` are cases 0, 2 and 4 of `exter_int_helper` and
the loop of `exter_server`.

**Traps.** `regs` is the emulator's one register set, reduced to what tells
tasks and calls apart: program counter, the task it belongs to, the function
being called, stack depth and interrupt mask. Exec's scheduler is the action
`TaskSwitch`, possible when interrupts are. A context's `tpc` is its thread's
place; its semaphores are `toEmu` and `toTrap`.

**FilesysPackets.** `task[u]` is a unit's place in `FSML_loop`, `thread[u]` its
thread's in `filesys_thread`, `emu` the emulator's in `filesys_handler` or in a
reset. 68k code runs only while `emu = "run"`; tasks run only while the server
is idle. `sent`, `acked`, `complete` are `cmds_sent`, `cmds_acked`,
`cmds_complete`. The pipes are sequences (`unitPipe`) or counts (`backPipe`,
whose words are all alike), which the refinement of `Fifo` by `CommPipe`
justifies: each has one writer at a time and one reader.

**Cia.** `Cycle` passes one cycle in which `ev_cia` is not due, `CiaEvent` one
in which it is. Accesses call `Written`: `CIA_update`, the write,
`CIA_calctimers`. The record `chip` is the reference: timers that count down on
each E clock. `WritePrb` is the write to the printer port, which sets FLG and
does not call `RethinkICRA`; `CIA_reset` may come at any time. While no timer
counts, the difference of cycle counts goes through all values of an `unsigned
long`, of which an E clock (2560 cycles) is no divisor: what was gone of the E
clock is then lost, and the reference's E clock starts anew with it (`Wraps`).

**Interrupts, Serial.** `at` is the place in `m68k_run`; an instruction leads
to `do_cycles` (`"cycles"`), where events happen, then through `do_specialties`
to the next instruction, or, while stopped, to another `do_cycles`
(`"stopcycles"`). The program is arbitrary: each instruction is one of the
accesses, or none. `held` stands for the two CIAs' ICR bits 7, which
`rethink_cias` puts into INTREQ again. In `Serial` the received bytes are
numbers, so that order and loss can be seen. A reset (`IntReset`) clears
INTENA and the flags, sets the mask to 7 and keeps INTREQ; the serial device
may fail to open (`Opened`), and DTR is then on all the same.

**FilesysObjects.** One packet is one step, since a unit's packets are handled
by one thread and units share none of this state. `unit` is the `Unit`: `ino`
maps paths to `a_inode`s, whose `child` lists keep the code's order, `chained`
is the list of recyclable `a_inode`s, `exkeys` are the scans. A path stands for
the pointer or `uniq` the code has, and is renamed with the object. `real` and
`unseen` are the host's side: what exists, and what no `a_inode` was made for
yet. `locks` and `keys` are what programs hold; `logged` collects the messages
of the code's own checks. The reaper's loop is one step, `reap_aino(u, S)`,
which does for a set S what `dispose_aino` does for each. Which families of
`a_inode`s the reaper takes first is left open, as is whether a look-up needs
the walk that reorders `child`.
Errors of the host (no such file, `mkdir` or `rename` fails) are choices.

Four steps the code takes are ones the emulator does not survive, because a
pointer to freed memory stays behind or an undefined call is made: the rename
of an object in use, the delete of a directory being scanned, a rename whose
old name was freed to make room for the new one, and a scan of a directory that
`opendir` does not find. The model takes them (`Fatal` in `logged`) and stops
there: `Lost` says so, and the properties claim nothing of a unit that is
lost. `spares` remembers what `action_change_mode` has counted twice, a fault
the emulator does survive.

**Keyboard.** `wpc` is the host in `record_key`, which may be a thread of the
window system's: it tests, stores the code, then the index. `rpc` is the
emulator in `get_next_key`; at the end of the ring the index is stored twice.
`ciaasdr_unread`, `keytime` and `sleepyhead` are the variables of
`CIA_hsync_handler`, the last two modulo their periods. `pressed` is what the
program has been told, `heard` and `looks` are of the model only.

**Sockets.** `pc` is the task's place in the library: `"wait"` is `waitsig`,
`"select"` the first `Wait` of `host_WaitSelect`, `"abort"` the second,
`"clear"` its last line, `"closing"` is `uae_wait_thread`, during which nothing
of the Amiga runs. `tpc` is the thread's: `"try"` a try of the call, `"block"`
the `select` behind it (`"deaf"` when it watches only the abort pipe),
`"connected"` between `connect` and the store of action 2. A blocking `select`
may fail (`SelectFails`), for example because the program has closed the socket
of a call that was broken off. `sigs` are the task's signals, `sent` those
still in native2amiga's pipe. `served` lists what the thread has done since the
call began.

## 3. What the runs check

| run | instance | properties |
|---|---|---|
| `commpipe` | one writer, ring of 4, chunk of 3, two words | type, `NoLostWakeup`, `FifoSpec` (refinement), `WriteReturns`, `FlushDelivers` |
| `native2amiga` | one thread, three calls of three kinds, ring of 4 | `N2AInv` (type, `NeverNotEnough`), `CallsIntact`, `CallsMade` |
| `native2amiga_two` | two threads | `CallsIntact`: **violated** |
| `traps` | two tasks, three contexts, a handler that calls twice and one that calls once | `Inv` (type, `OneAtATime`, `MutexBalanced`), `RegsOfThisTask`, `RightValue`, `TrapsComplete` |
| `filesys_packets` | one unit, five packets, limit of 2, pipes of 5 words | `Inv` (type, `AnsweredWhenDone`, `D5Counts`, `BackPipeRoom`, `ActiveCounts`), `OneDummy`, `PacketInOnePlace`, `NeverNotEnough` |
| `filesys_packets_reset` | two units, one reset in any state, a packet that may be refused | `HandedOverAnswered`, `PipeWritesReturn`, `ThreadsGoneAtReboot` |
| `filesys_packets_limit` | two packets, limit of 1 | `EveryPacketAnswered`: **violated** |
| `filesys_objects` | a directory of two files, two uses, two scans, a cache of one | `Inv` (type, `CountsExact`), `InUseExists`, `ScanComplete`, `ReaperEnds`, `ChecksHold` |
| `cia` | one chip, bytes of 1 bit, E clock of 2 cycles | `Inv` (type, `LevelTriggered`), `TimersExact`, `InterruptInTime` |
| `serial` | PORTS from a CIA and host threads, RBF; two bytes, output buffer of 2 | type, `NoLostInterrupt`, `ByteKept`, `RequestTaken`, `QuitUnlessStopped`, `ByteAsked` |
| `keyboard` | two keys, ring of 3, a look each 2 lines, 2 looks until it gives up | `KeysAgree`, `RingIsFifo` (refinement), `KeyHeard`, `KeysArrive` |
| `sockets` | one base, opened and closed again and again, two calls and signals outstanding | `OwnResult`, `SignalHeard`, `Joined` |

### Bounds, and why they are enough

* *Pipe.* A ring of 4 slots holds 3 words, so that it can be empty, partly full
  and full, wrap around, and be below and at the chunk. What holds for one
  writer is proved for all sizes (section 5). In `Native2Amiga` one
  call fills the ring, so that a thread that makes the next one sleeps in the
  middle of it.
* *Traps.* Three contexts let the function one handler calls invoke a trap
  while the other task is inside one; two calls from one handler tell the value
  of the second from that of the first. A handler's number of calls
  (`MaxCalls`) is a bound of the model.
* *Packets.* With a limit of 2 and 5-word pipes one packet fits and a second
  does not (the code's 49 words hold 16 of up to 20 packets), so the trap
  waits for the thread as it can in the code. Five packets exceed the limit.
  Packets are symmetric in the run that checks invariants only.
* *CIA.* The numbers of a byte, of the cycles in an E clock and of cycle counts
  are constants. With 2, 2 and 11 a timer has every relation to its latch, to
  0 and to the other timer, events and accesses come at either phase, and the
  cycle counter wraps in the middle of an E clock, as 2560 makes it do in the
  program. 11 is the least that keeps the longest delay a difference of
  cycles, the assumption 32-bit counters satisfy in the program.
* *Serial.* Two bytes are enough for one to wait in `inbuf` while another is in
  SERDATR. An output buffer of 2 fills and is flushed.
* *Interrupts.* Every kind of request: held until the CIA is read and momentary
  (PORTS, from CIA-A and from other devices), without a flag (RBF). The
  program uses mask 0.
* *Objects.* Two names give a sibling for each order and each rename, and a
  directory within the root a second level, for a move between directories and
  for scans of two directories. A cache of one with a reap of one is cut
  back at the second file released. `MaxAinos`, `MaxPhantoms`, `MaxCounted`
  and `MaxDepth` bound the tree; two uses at a time (`MaxUses`) are a lock with
  a lock, a file, or a change of mode. Two scans fill the table of ExKeys, with
  one use beside them (`MaxBusy` bounds both together).
* *Keyboard.* A ring of 3 is empty, half full, full, and wraps; the periods of
  16 are 2, which still tells the first look from the one that gives up.
  `WINDOW = 1` assumes that a thread looks at the ring at most once between
  the two stores of its index (see below for 2).
* *Sockets.* `MaxSem` and `MaxSent` are 2: the thread can be two calls behind,
  and a signal of an earlier call can be joined by that of the next. No number
  of breaks, calls or openings is bounded.

### Fairness

Only what the code schedules is fair. Host threads run (weak fairness of each
thread's next step); nothing obliges a thread to start a call, a program to
send a packet, or a user to reset. Semaphores are not assumed fair. The line's
and the frame's handlers are events that are always active, hence `Hsync` and
`Vsync` happen again and again (strong fairness in `Serial`, because they are
possible only in `do_cycles`). In `Traps`, Exec gives every ready task the
processor, and the function a handler calls returns. `QuitUnlessStopped` has
as a premise that the 68k is not stopped for ever, which the code does not
guarantee. In `Keyboard` lines end outside a hand-shake again and again (strong
fairness, as hand-shakes interrupt them) and a hand-shake ends; nothing is
assumed of the program's reads or of the user. In `Sockets` Exec runs the task,
the host the thread, and a resolver answers in the end; peers need not, and a
`select` whose descriptors were closed need not return.

### What the code does otherwise than it says

* `native2amiga_two`: threads of several devices write the words of their
  calls into the one pipe without a lock around a call. Two calls mix, or one
  overwrites a word of the other; a call is made that nobody asked for.
* `filesys_packets_limit`: a packet received while the limit of started
  commands is reached is put in the list as not started, and nothing ever
  starts it, although the comment says that any number can be handled.

Other things met while modelling, each seen by TLC in an instance that is not
kept as a run:

* `packet_counter_sem`, used as a mutex, is initialised to 0
  (`filesys.c:3725`). In a threaded build whose semaphores count, the first
  packet stops the emulator, though `README.PROGRAMMERS` says that
  `filesys_handler` sends it to the thread and returns: with `CounterInit = 0`
  `(emu # "run") ~> (emu = "run")` is violated. `CounterInit` is a constant of
  the module and of the theorems; the runs give it 1, the value its uses
  intend, so that the rest of the protocol can be judged. What
  `filesys_packets_reset` checks is true with 0 too, where no packet gets as far
  as a pipe.
* A failed `mkdir` or `rename` leaves an `a_inode` for an object that does not
  exist. The directory it is in can be removed on the host, but its `a_inode`
  stays, and "Serious error in action_delete_object" is logged: the invariant
  `"Serious error" \notin unit.logged` is violated.
* While the 68k is stopped, only an interrupt ends the inner loop of
  `do_specialties`. When none can come (`Masks = {7}`), F12-q and a reset wait
  for ever: `QuitHonoured` is violated.
* `if (++kpb_last == 256) kpb_last = 0` stores 256 first. A thread that sees
  room twice while the index is 256 overruns the full ring, and all codes in it
  are lost, although `keybuf.c` calls itself thread safe if stores are atomic:
  with `WINDOW = 2` `RingIsFifo` is violated.

The models contain also what follows, but the properties make an exception of
it, and so do not catch it:

* Four steps of `FilesysObjects` the emulator does not survive (section 2): "what
  should we do if there are locks on a1?", asks `action_rename_object`, and
  deletes the `a_inode` a Key points to; making room for its new name may free
  the old one; a directory deleted during a scan leaves its ExKey with a
  dangling pointer; `populate_directory` does not look at what `opendir`
  returned.
* A shared lock changed to shared counts twice, and the object can never be
  deleted.
* A code dropped by a full ring may be the release of a key, which the Amiga
  then holds for ever.
* Packets that a reset drops are never taken off `active_fs_packets`.
* FLG of CIA-A, set by a write to the printer port, interrupts only when the
  program next writes to INTREQ.
* `waitsig` returns on a break without waiting for the thread. The thread's
  late signal ends the next call early, with the wrong result; an abort byte
  written after the thread was done aborts the next call; a call begun while
  the thread is busy replaces the arguments under it. `OwnResult` claims
  nothing once that has happened, and `SignalHeard` still holds.
* `bsdthr_Connect_2` stores 2 in `sb->action`; when the base is closed or the
  machine reset meanwhile, the action 0 that should end the thread is lost,
  and `uae_wait_thread` never returns. Nor need it when the thread is in a
  `select`: its descriptors are closed, but nothing wakes it. `Joined` makes
  these two exceptions and no other.

## 4. Properties that were hard to see

* `NeverNotEnough` (both modules) is the comment "we can get too many
  interrupts, but never not enough" made precise: wherever thread, server and
  task are, finished work that nobody has picked up implies something still to
  come that will make somebody look.
* `MutexBalanced` accounts for `trap_mutex`, which one thread takes and another
  releases: there is exactly one token among the free mutex, the traps about to
  be executed and the threads inside a critical section.
* `TimersExact` compares each register as the program would read it in any
  cycle with a timer that counts.
* `OneDummy` relates the place of the dummy message, in the port or with the
  task, to the three counters that guard it.
* `NoLostInterrupt` does not hold of the serial port, which writes `intreq`
  without setting a flag; for it there is only `RequestTaken`, since the
  frame's end sets the flag at the latest.

* `ScanComplete` says that what lies ahead of a scan in the list of children is
  exactly what the scan still owes its program; look-ups, which reorder that
  list, must leave directories being scanned alone, and deletes must move the
  scan on.
* `ReaperEnds` is the reason why the loop of `recycle_aino` ends: the sum of
  the children counted in directories being scanned bounds what may not go.
* `KeysAgree` relates four places a key code can be in to the set of keys the
  user holds.

## 5. What is proved

`Native2Amiga_proofs`, first part, about the pipe, for every ring size, chunk
and set of words:

* `TypeCorrect`, for any number of writers.
* `Invariance`, for one writer: `TypeOK` is not enough, since whether a wake-up
  is lost depends on both program counters. `MutexInv` says who holds the lock;
  `ReaderInv` that the reader sleeps with its flag up and less than a chunk in
  the ring, or with its semaphore posted and a word to take, and that a writer
  on the lock-free path finds it asleep; `WriterInv` the same for the writer,
  and that the slot it writes is not the reader's.
* `Safety`: no overwriting, no underflow, no lost wake-up, never both asleep.
* `Refinement`: `Spec => FifoSpec`. Advancing the write index is `Put`,
  taking is `Get`, beginning a write is `Ask`, and all else stutters; the
  lemmas say how the contents of the ring change.

`Serial_proofs`, for every set of sources, levels, enable sets, masks, numbers
of bytes and buffer sizes:

* `TypeCorrect`. The lemmas `MaxLevel` and `IntLevRange` say that `IntLev` is
  the level of a source, so that the mask stays in range when it is taken.
* `NoLost`: `NoLostInterrupt` is inductive given the types. The step that needs
  an argument is the end of `do_specialties`: with DOINT set and a due
  interrupt, one is taken (`IntLevDue`), and taking it sets INT again; with
  only INT set, it becomes DOINT.
* `ByteIsKept`, with the invariant that while no byte waits the last one has
  been read.

`Sockets_proofs`, for every `MaxSem`, `MaxSent` and either break mask:

* `TypeCorrect`.
* `OwnResultHolds`: `Spec => OwnResult`. The invariant `CallInv` says what the
  property alone does not: while no call has been given up, a task waiting for
  its thread has exactly one of three things on its way, the post with the
  call's action still in place (`Asked`), the thread at work on that call
  (`AtWork`), or the signal (`Answered`), and the abort pipe is empty except
  between WaitSelect's abort and its clearing. A task in no call has nothing on
  its way. Only `HostCallWakes` and `WaitSelectBroken` return what the thread
  left; both need the signal, which leaves `Answered`.

`Native2Amiga_proofs`, second part, for any calls and any pipe:

* `CallsHaveInterrupts`, for any number of threads: `NeverNotEnough` is not
  inductive, since it speaks of the server only when it is idle. `Coming`
  extends it to the server that has found the pipe empty and is about to leave
  (`"done"`); that is the place where a late call must still find
  `uae_int_requested` cleared before, not after, the look. `HostOK` adds that a
  thread that has written no word of its call is not in the pipe, so that the
  pipe changes only between the first word and the request.
* `UsesThePipe`: `N2ASpec => Spec`. What is proved of the pipe holds here; no
  step of it is proved again.
* `CallsInOrder` and `OneThreadIntact`, for one thread: `Stream` says that the
  words in the ring are, one after the other, the words of the thread's calls
  from the place the server has reached to the place the thread has reached.
  `Spans` says it with a place for every word in the ring, so that putting a
  word adds a place (`SpansAppend`), taking one removes the first
  (`SpansTail`), and no induction over the calls is needed. The opcode the
  server reads is then the first word of a call and it reads as many arguments
  as were written. `native2amiga_two` shows that two threads break this.

`Traps_proofs`, for any tasks, contexts and numbers of calls:

* `Invariance`. The properties say little of a context that is neither in
  control nor running. `IInv` gives each context its place: `InControl` is the
  one context that may run or that the 68k is about to run for; every other
  allocated one lies on the stack of its task exactly above what was there when
  its trap was invoked (`StackInv`, `CalledInv`), with both semaphores 0. From
  the place follow the semaphores (`ControlInv`), the holder of `trap_mutex`
  (`Critical`), the registers saved (`Own`) and the value (`ValueInv`).
* `TrapsSafe` (`OneAtATime`, `MutexBalanced`), `RegsAreOfThisTask`,
  `ValuesAreRight` follow from it.

`FilesysPackets_proofs`, for any units, packets, limit, pipes and resets:

* `Invariance`. `Contents`, `TrapPlace` and `ResetOrder` say who is where.
  `PipeWords`: unit_pipe and the words the thread has read are whole commands,
  each started and not yet carried out, and what the running trap has written.
  `LocksBound`: the locks on their way back and the commands still in the pipe
  together are at most the limit and those the task has started since its last
  scan. `Signalled`: a completed command the task has not seen keeps the
  interrupt or the dummy message coming. `Balance`: three times
  `active_fs_packets` is the number of words in flight, each counted as a
  member of a finite set of places.
* `CountsAgree`, `OnlyOneDummy`, `EveryPacketInOnePlace`, `InterruptsSuffice`
  follow; `NoThreadSurvives` is an action property, from `ResetOrder`.
* The proof found two claims of the model too strong, and TLC the
  counterexamples. `BackPipeRoom` was "at most twice the limit": that needs
  unit_pipe to hold fewer than the limit's commands (49 words, 60 wanted); a
  pipe that holds them all lets one more lock wait (`Spare`). And
  `ActiveCounts` holds only until the first reset, which drops packets it does
  not count back.

`FilesysObjects_proofs`, for any finite set of names, whatever the host's
directory holds, any limits of the cache, number of scans and bounds:

* `Invariance`, of `SInv`: the unit is `Lost`, and then nothing happens any
  more, or `IInv` holds. Each packet is shown to keep `IInv` or to log one of
  the four faults; so the theorems assume nothing of programs, and what they say
  ends where a fault was taken. `IInv` is `Good(unit)`, which speaks of the unit alone, and
  `Uses`, which ties its counts to the locks, the files and the spares. `Good` has a part for
  each structure: `Tree` (every `a_inode` but the root is in its parent's list,
  once), `Chain` (the recyclable ones are files nobody uses), `Scans` (every
  ExKey is of a directory in memory and at one of its children, and owes what
  lies from there on; `exnext_count` is the number of ExKeys, and a directory
  being scanned has as many children counted as it has in memory), `Totals`
  (`total_locked_ainos` is the size of a set of pairs) and `Silent` (the code's
  checks have not failed). None of them is inductive alone: a scan stays on its
  list because the reaper takes only the children of directories with no child
  counted, which needs the counts; and the counts of a directory that is
  renamed are right because its `a_inode` is nobody's child below itself.
* Each operation (`de_recycle_aino`, `reap_aino`, `recycle_aino`, `lookup_sub`,
  `new_child_aino`, `populate_directory`, `free_exkey`, `do_examine`,
  `delete_aino`, the three moves of a rename) has a lemma that says what it
  does to a `Good` unit, and what it leaves alone; each packet has one that
  joins those of the operations it calls. A rename is proved through `Heir`,
  the path each `a_inode` has afterwards: no two share one, so the lists, the
  ExKeys and the bags of locks and files are carried along one bijection.
* What a recursive function computes (`Without`, `populate_directory`) is
  proved by the least place at which it would be wrong (`WellOrdered`).
* `TreeIsRight`, `UsedIsKept`, `ScansAreComplete`, `ChecksNeverFail` are parts
  of it. `ReaperAlwaysEnds` needs one more step: the recyclable children of
  directories being scanned are mapped to what `total_locked_ainos` counts,
  each to its place in its parent's list, so they are no more than that; a
  cache that is over its limit by that number has enough of the others.

`Cia_proofs`, for any number of chips, width of registers, length of the E
clock and values written, and any range of the cycle count that holds one full
count of a timer (it need not be a multiple of the E clock):

* `Invariance`. `TimersExact` relates the lazy timers to the chip's, but not
  to the event: `Scheduled` says that the event lies at the end of an E clock,
  k + 1 clocks after the last update, and that no running timer holds less
  than k, so that no underflow is passed. `CIA_calctimers` chooses the next
  underflow; the least element of a set of naturals (`WellOrdered`, `MinOf`)
  gives the k.
* `TimersSafe` (the assertions of `CIA_update`, `LevelTriggered`),
  `LazyTimersAreExact`, and the action property `FlagsInterruptInTime`.

`Keyboard_proofs`, for any keys, ring size and times:

* `InterlockHolds` and `CodesAreHeard` need nothing of the host's speed: the
  hand-shake's side is proved from types, the interlock and the two program
  counters alone (`Pair`).
* `Invariance`, `RingIsAFifo`, `KeysStayTrue` assume `WINDOW \in {0, 1}`. The
  step that needs it is the host's test while the index is past the end: the
  full ring looks as if it had room, and the one slot the reader has just freed
  is all there is (`Room` counts it with `tests`). The hypothesis is tight: with
  `WINDOW = 2` TLC finds `KeysAgree` violated.
* The refinement maps the ring from `kpb_last`, read as 0 when past the end, to
  `kpb_first`; the index stored the first time is `Get`, the second a stutter.

The assumptions are the `ASSUME`s of the modules (sizes, ranges of constants;
of `FilesysObjects` also that names are finitely many and none is empty, since
the null pointer is written as the path of the empty name), which TLC evaluates
in the runs. The theorems about one writer say so:
`native2amiga_two` shows that they fail for two. Every inductive invariant was
checked by TLC on the instance of its run before it was proved.

Only model-checked:

* all liveness properties (they rest on fairness and `ENABLED`).

Every safety invariant and every refinement the passing runs check is proved.
In `FilesysObjects_proofs` and `Keyboard_proofs` that is with the exceptions
named there: up to `Lost`, and for `WINDOW` at most 1.
`CallsIntact` with two threads is not proved because it is false.

## 6. What is not modelled

* Memory-model effects: accesses to shared variables are sequentially
  consistent and atomic; the code uses plain variables and semaphores.
* The contents of files and attributes, what calls do in Exec, the contents of
  the ring beyond the order of words; a rename that changes only the case of a
  name, and the mounting of units.
* Socket calls that are made at once, without the thread; a socket base whose
  `host_sbinit` failed.
* Keys that stand for a joystick, and codes two keys share.
* The flags other than INT, DOINT, STOP and BRK; the copper, blitter, audio and
  disk except as sources of interrupts at any time.
* The components the inventory lists without a module, for the reasons in
  `PROJECT.json`.

## 7. Plan

Done, in this order: pipe, calls from host threads, traps, packets, CIA timers,
interrupts, serial port; the proofs about the pipe and about interrupts; objects
of the filesystem, keyboard, sockets; the proof about socket calls; the proofs
about calls from host threads, traps, packets, CIA timers, the keyboard and the
objects of the filesystem.

Next modules, the most important first:

1. `ScsiDevice`: a client of the pipe and of `Native2Amiga`, with open, close
   and a reset.
2. The clock of the CIAs, with its latches and alarm.
3. The disk's DMA, the audio channels and the blitter's delayed end, each with
   a reference as `Cia` has.

Next theorems:

1. `Serial`: a request stays in `intreq` until it is taken, the safety part of
   `RequestTaken`.
2. The invariants of the modules above.
