------------------------------ MODULE Keyboard ------------------------------
(***************************************************************************)
(* The keyboard: inputdevice.c keeps which keys the user holds down,       *)
(* keybuf.c queues their codes in a ring without a lock, whose writer may  *)
(* be a thread of the host, and CIA_hsync_handler (cia.c) gives them one   *)
(* after the other to the program, through the serial data register of     *)
(* CIA-A.                                                                  *)
(***************************************************************************)
EXTENDS Integers, SequencesExt

CONSTANTS
    Keys,         \* the keys, some of 0..127
    RING,         \* slots of the ring: 256
    KEYTIME,      \* lines from one look at the ring to the next: 16
    SLEEPY,       \* looks until the program is given up on: 16
    WINDOW        \* looks at kpb_last the host may take between two stores to
                  \* it by the emulator (an assumption on their speeds)

ASSUME KeyboardAssumption ==
    /\ Keys \subseteq 0..127
    /\ RING \in Nat \ {0, 1} /\ {KEYTIME, SLEEPY} \subseteq Nat \ {0}
    /\ WINDOW \in Nat

VARIABLES
    keydown,                       \* inputdevice.c's keybuf: keys held down
    wpc, codes, kpb_next,          \* the host in record_key; codes it has to record
    keybuf, kpb_first, kpb_last,   \* the ring
    rpc, key,                      \* the emulator in get_next_key
    tests,                         \* times the host looked meanwhile (not in the code)
    kbstate, ciaasdr, ciaasdr_unread, keytime, sleepyhead,
    output,                        \* CRA bit 6: the program holds the line down
    looks,                         \* looks since the code in ciaasdr (not in the code)
    heard,                         \* the program has read it
    pressed                        \* keys down by the codes given so far

hostVars == <<keydown, wpc, codes, kpb_next>>
ringVars == <<keybuf, kpb_first, kpb_last>>
readVars == <<rpc, key, tests>>
ciaVars == <<kbstate, ciaasdr, ciaasdr_unread, keytime, sleepyhead>>
programVars == <<output, looks, heard>>
vars == <<hostVars, ringVars, readVars, ciaVars, programVars, pressed>>

Codes == [key : Keys, down : BOOLEAN]
Parted == {-1}     \* codes were dropped, or a reset forgot keys
NoCode == [key |-> -1, down |-> FALSE]
PowerUp == [key |-> -2, down |-> FALSE]    \* 0xFB, then 0xFD

Init ==
    /\ keydown = {} /\ wpc = "idle" /\ codes = <<>> /\ kpb_next = 0
    /\ keybuf = [i \in 0..RING-1 |-> NoCode] /\ kpb_first = 0 /\ kpb_last = 0
    /\ rpc = "idle" /\ key = NoCode /\ tests = 0
    /\ kbstate = 0 /\ ciaasdr = NoCode /\ ciaasdr_unread = 0
    /\ keytime = 0 /\ sleepyhead = 0
    /\ output = FALSE /\ looks = 0 /\ heard = TRUE /\ pressed = {}

-----------------------------------------------------------------------------
(* The host: events of the window's thread, or of the emulator's own.       *)

HostIdle == wpc = "idle" /\ codes = <<>>

(* A key is pressed or released; with certain others (Ctrl and both Amigas) *)
(* it asks for a reset, and all keys are forgotten.                         *)
inputdevice_do_keyboard(k, down, reset) ==
    /\ HostIdle
    /\ down => k \notin keydown
    /\ reset => down /\ keydown # {}
    /\ keydown' = IF reset THEN {} ELSE IF down THEN keydown \cup {k} ELSE keydown \ {k}
    /\ pressed' = IF reset THEN Parted ELSE pressed
    /\ codes' = <<[key |-> k, down |-> down]>>
    /\ UNCHANGED <<wpc, kpb_next, ringVars, readVars, ciaVars, programVars>>

Bad_inputdevice_release_all_keys ==      \* the Amiga is not told
    /\ HostIdle /\ keydown # {}
    /\ keydown' = {}
    /\ UNCHANGED <<codes, wpc, kpb_next, ringVars, readVars, ciaVars, programVars, pressed>>
(* The window loses the input: keys that are down are released, in order.   *)
inputdevice_release_all_keys ==
    /\ HostIdle /\ keydown # {}
    /\ keydown' = {}
    /\ \E s \in [1..Cardinality(keydown) -> keydown] :
         /\ Range(s) = keydown
         /\ \A i, j \in DOMAIN s : i < j => s[i] < s[j]
         /\ codes' = [i \in DOMAIN s |-> [key |-> s[i], down |-> FALSE]]
    /\ UNCHANGED <<wpc, kpb_next, ringVars, readVars, ciaVars, programVars, pressed>>

Succ(i) == IF i + 1 = RING THEN 0 ELSE i + 1

Bad_Full == FALSE                 \* the ring is overrun
Full == Succ(kpb_first) = kpb_last

(* record_key reads kpb_first and kpb_last, then the code is stored, then   *)
(* kpb_first. A full ring drops the code.                                   *)
RecordTest ==
    /\ wpc = "idle" /\ codes # <<>>
    /\ IF rpc = "wrap" THEN tests < WINDOW /\ tests' = tests + 1 ELSE UNCHANGED tests
    /\ IF Full
       THEN codes' = Tail(codes) /\ pressed' = Parted /\ UNCHANGED <<wpc, kpb_next>>
       ELSE /\ wpc' = "store" /\ kpb_next' = Succ(kpb_first)
            /\ UNCHANGED <<codes, pressed>>
    /\ UNCHANGED <<keydown, ringVars, rpc, key, ciaVars, programVars>>

RecordStore ==
    /\ wpc = "store" /\ wpc' = "publish"
    /\ keybuf' = [keybuf EXCEPT ![kpb_first] = Head(codes)]
    /\ UNCHANGED <<keydown, codes, kpb_next, kpb_first, kpb_last, readVars,
                   ciaVars, programVars, pressed>>

RecordPublish ==
    /\ wpc = "publish" /\ wpc' = "idle"
    /\ kpb_first' = kpb_next /\ kpb_next' = 0 /\ codes' = Tail(codes)
    /\ UNCHANGED <<keydown, keybuf, kpb_last, readVars,
                   ciaVars, programVars, pressed>>

record_key == RecordTest \/ RecordStore \/ RecordPublish

-----------------------------------------------------------------------------
(* The emulator's thread, at the end of a line. keytime and sleepyhead      *)
(* count on for ever; only the remainders matter.                           *)

keys_available == kpb_first # kpb_last

Look == keys_available /\ ~output /\ keytime = KEYTIME - 1

(* a line at which the keyboard is not looked at                            *)
HsyncCounts ==
    /\ rpc = "idle" /\ ~Look
    /\ keytime' = IF keys_available /\ ~output THEN keytime + 1 ELSE keytime
    /\ UNCHANGED <<hostVars, ringVars, readVars, kbstate, ciaasdr, ciaasdr_unread,
                   sleepyhead, programVars, pressed>>

Older == looks' = IF looks = SLEEPY THEN looks ELSE looks + 1

(* the program has read the code: the next look will give it another        *)
HsyncRests ==
    /\ rpc = "idle" /\ Look /\ ciaasdr_unread = 2
    /\ keytime' = 0 /\ ciaasdr_unread' = 0 /\ Older
    /\ UNCHANGED <<hostVars, ringVars, readVars, kbstate, ciaasdr, sleepyhead,
                   output, heard, pressed>>

Bad_HsyncWaits ==                 \* waits for ever
    /\ rpc = "idle" /\ Look /\ ciaasdr_unread = 1
    /\ keytime' = 0 /\ Older
    /\ UNCHANGED <<hostVars, ringVars, readVars, kbstate, ciaasdr, ciaasdr_unread,
                   sleepyhead, output, heard, pressed>>
(* it has not, and is given up on in the end                                *)
HsyncWaits ==
    /\ rpc = "idle" /\ Look /\ ciaasdr_unread = 1
    /\ keytime' = 0 /\ Older
    /\ sleepyhead' = (sleepyhead + 1) % SLEEPY
    /\ ciaasdr_unread' = IF sleepyhead' = 0 THEN 0 ELSE 1
    /\ UNCHANGED <<hostVars, ringVars, readVars, kbstate, ciaasdr,
                   output, heard, pressed>>

(* the keys down after a code                                              *)
AfterCode(ks, code) == IF ks = Parted THEN Parted
                       ELSE IF code.down THEN ks \cup {code.key} ELSE ks \ {code.key}

(* it gets a code, and an interrupt with it                                 *)
Bad_Give(code) == /\ ciaasdr' = code      \* the count goes on
                  /\ UNCHANGED sleepyhead /\ looks' = 0 /\ heard' = FALSE
Give(code) == /\ ciaasdr' = code
              /\ sleepyhead' = 0 /\ looks' = 0 /\ heard' = FALSE

HsyncPowerUp ==
    /\ rpc = "idle" /\ Look /\ ciaasdr_unread = 0 /\ kbstate < 2
    /\ keytime' = 0 /\ kbstate' = kbstate + 1
    /\ Give(PowerUp)
    /\ UNCHANGED <<hostVars, ringVars, readVars, ciaasdr_unread, output, pressed>>

(* get_next_key; nobody may read the code in the slot again: it is          *)
(* forgotten here                                                           *)
HsyncGet ==
    /\ rpc = "idle" /\ Look /\ ciaasdr_unread = 0 /\ kbstate = 2
    /\ keytime' = 0
    /\ rpc' = "advance" /\ key' = keybuf[kpb_last]
    /\ keybuf' = [keybuf EXCEPT ![kpb_last] = NoCode]
    /\ UNCHANGED <<hostVars, kpb_first, kpb_last, tests, kbstate, ciaasdr, ciaasdr_unread, sleepyhead,
                   programVars, pressed>>

(* the code is given when kpb_last has its new value                        *)
GiveKey ==
    /\ rpc' = "idle" /\ Give(key) /\ pressed' = AfterCode(pressed, key)
    /\ ciaasdr_unread' = 1

(* if (++kpb_last == 256) kpb_last = 0: at the end of the ring the index is *)
(* stored twice                                                             *)
GetAdvance ==
    /\ rpc = "advance" /\ kpb_last' = kpb_last + 1
    /\ IF kpb_last' = RING
       THEN rpc' = "wrap" /\ UNCHANGED <<ciaVars, heard, looks, pressed>>
       ELSE GiveKey /\ UNCHANGED <<kbstate, keytime>>
    /\ UNCHANGED <<hostVars, keybuf, kpb_first, key, tests, output>>

GetWrap ==
    /\ rpc = "wrap" /\ kpb_last' = 0 /\ tests' = 0 /\ GiveKey
    /\ UNCHANGED <<hostVars, keybuf, kpb_first, key, kbstate, keytime, output>>

CIA_hsync_handler ==
    HsyncCounts \/ HsyncRests \/ HsyncWaits \/ HsyncPowerUp \/ HsyncGet
    \/ GetAdvance \/ GetWrap

-----------------------------------------------------------------------------
(* The program, between two lines.                                          *)

ReadSdr ==
    /\ rpc = "idle"
    /\ heard' = TRUE
    /\ ciaasdr_unread' = IF ciaasdr_unread = 1 THEN 2 ELSE ciaasdr_unread
    /\ UNCHANGED <<hostVars, ringVars, readVars, kbstate, ciaasdr, keytime, sleepyhead,
                   output, looks, pressed>>

(* the hand-shake: the serial port is made an output for a moment           *)
WriteCra ==
    /\ rpc = "idle"
    /\ output' = ~output
    /\ UNCHANGED <<hostVars, ringVars, readVars, ciaVars, looks, heard, pressed>>

(* neither the ring nor ciaasdr_unread is reset                             *)
CIA_reset ==
    /\ rpc = "idle" /\ kbstate # 0
    /\ kbstate' = 0 /\ output' = FALSE
    /\ UNCHANGED <<hostVars, ringVars, readVars, ciaasdr, ciaasdr_unread, keytime,
                   sleepyhead, looks, heard, pressed>>

Next ==
    \/ \E k \in Keys, down, reset \in BOOLEAN : inputdevice_do_keyboard(k, down, reset)
    \/ inputdevice_release_all_keys
    \/ record_key
    \/ CIA_hsync_handler
    \/ ReadSdr \/ WriteCra \/ CIA_reset

Spec == Init /\ [][Next]_vars

(* Lines end, also outside of a hand-shake: the program ends it within a    *)
(* line or two, and none begins without a code. Nothing is assumed of the   *)
(* user, of a thread that records keys, or of what the program reads.       *)
FairSpec ==
    Spec /\ WF_vars(output /\ WriteCra) /\ SF_vars(CIA_hsync_handler /\ ~output)

-----------------------------------------------------------------------------
(* Properties.                                                              *)

Slot(i) == IF i = RING THEN 0 ELSE i      \* before it has wrapped
InRing == LET n == (kpb_first - Slot(kpb_last) + RING) % RING
          IN [i \in 1..n |-> keybuf[(Slot(kpb_last) + i - 1) % RING]]
Queue == IF rpc = "advance" THEN Tail(InRing) ELSE InRing

Fifo == INSTANCE Fifo WITH
    Writers <- {"host"}, Words <- Codes, Capacity <- RING - 1, NoWord <- NoCode,
    asked <- [w \in {"host"} |-> IF wpc = "idle" THEN NoCode ELSE Head(codes)],
    queue <- Queue,
    got <- key

(* The ring is a first-in first-out queue of RING - 1 codes, though its     *)
(* writer and its reader take no lock: a code it has room for is stored     *)
(* once, and read once, in its turn. The head of keybuf.c says so, provided *)
(* that stores of integers are atomic.                                      *)
RingIsFifo == Fifo!Spec

(* The interlock ciaasdr_unread: a key code the program has not read is     *)
(* replaced only after SLEEPY looks, whatever came before, a reset, a       *)
(* hand-shake or another code given up.                                     *)
Replaces == (rpc # "idle" /\ rpc' = "idle") \/ kbstate' > kbstate
KeyHeard == [][Replaces /\ ciaasdr \in Codes /\ ~heard => looks >= SLEEPY]_vars

(* A program that never reads its key codes does not stop the keyboard:     *)
(* while there are codes, one is given, unless the machine is reset again   *)
(* and again (the count sleepyhead).                                        *)
KeysArrive ==
    <>[][~CIA_reset]_vars => ((rpc = "idle" /\ keys_available) ~> rpc = "advance")

(* The keys that are down are those the user holds: what the program was    *)
(* told, with the codes still on their way, gives the keys inputdevice.c    *)
(* has as held, as long as the ring was never full (RecordTest) and no      *)
(* reset by the keyboard forgot the keys (inputdevice_do_keyboard).         *)
OnTheWay == (IF rpc = "idle" THEN <<>> ELSE <<key>>) \o Queue \o codes

Of(k, s) == {i \in DOMAIN s : s[i].key = k}
(* k is down for the program that has been given the codes of s             *)
DownAfter(k, s) ==
    IF Of(k, s) = {} THEN k \in pressed
    ELSE \E i \in Of(k, s) : s[i].down /\ \A j \in Of(k, s) : j <= i

KeysAgree ==
    pressed # Parted => \A k \in Keys : k \in keydown <=> DownAfter(k, OnTheWay)
=============================================================================
