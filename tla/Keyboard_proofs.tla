-------------------------- MODULE Keyboard_proofs ---------------------------
(***************************************************************************)
(* Theorems about the keyboard of Keyboard, for any keys, any size of the  *)
(* ring, any times. Those about the ring's contents assume that the host   *)
(* looks at most once at kpb_last while it lies past the end of the ring,  *)
(* between the two stores of get_next_key (WINDOW).                        *)
(***************************************************************************)
EXTENDS Keyboard, FiniteSetTheorems, SequenceTheorems, TLAPS

-----------------------------------------------------------------------------
(* The inductive invariant.                                                *)

HostPcs == {"idle", "store", "publish"}
ReadPcs == {"idle", "advance", "wrap"}
Pos == 0 .. RING - 1

TypeOK ==
  /\ keydown \in SUBSET Keys
  /\ wpc \in HostPcs /\ codes \in Seq(Codes) /\ kpb_next \in Pos
  /\ keybuf \in [Pos -> Codes \cup {NoCode}]
  /\ kpb_first \in Pos /\ kpb_last \in 0 .. RING
  /\ rpc \in ReadPcs /\ key \in Codes \cup {NoCode} /\ tests \in Nat
  /\ kbstate \in 0 .. 2 /\ ciaasdr \in Codes \cup {NoCode, PowerUp}
  /\ ciaasdr_unread \in 0 .. 2 /\ keytime \in 0 .. KEYTIME - 1
  /\ sleepyhead \in 0 .. SLEEPY - 1
  /\ output \in BOOLEAN /\ looks \in 0 .. SLEEPY /\ heard \in BOOLEAN

\* A code the program has not read keeps the interlock closed and counts its
\* looks, until it is given up.
Interlock ==
  /\ rpc # "idle" => ciaasdr_unread = 0
  /\ ciaasdr \in Codes /\ ~heard =>
       \/ ciaasdr_unread = 1 /\ looks = sleepyhead
       \/ ciaasdr_unread = 0 /\ looks = SLEEPY

\* Where the two sides are in the ring.
Shape ==
  /\ kpb_last = RING <=> rpc = "wrap"
  /\ rpc # "wrap" => tests = 0
  /\ tests <= WINDOW
  /\ wpc # "idle" => codes # <<>> /\ kpb_next = Succ(kpb_first)

Start == Slot(kpb_last)
Held == IF kpb_first >= Start THEN kpb_first - Start ELSE kpb_first - Start + RING
At(i) == IF Start + i - 1 < RING THEN Start + i - 1 ELSE Start + i - 1 - RING

\* There is room for the code being stored. While kpb_last lies past the end
\* the host's test does not see that the ring is full: what it stores
\* meanwhile must fit in the slot the reader has freed.
Room ==
  /\ rpc = "advance" => kpb_first # kpb_last
  /\ Held + (IF wpc = "idle" THEN 0 ELSE 1)
       <= IF rpc = "wrap" THEN RING - 2 + tests ELSE RING - 1

\* The slots from kpb_last to kpb_first hold codes; the first is free once it
\* has been read.
Filled ==
  /\ rpc # "idle" => key \in Codes
  /\ wpc = "publish" => keybuf[kpb_first] = Head(codes)
  /\ \A i \in 1 .. Held : (rpc = "advance" /\ i = 1) \/ keybuf[At(i)] \in Codes
  /\ pressed \in (SUBSET Keys) \cup {Parted}

Pair == TypeOK /\ Interlock /\ Shape
IInv == Pair /\ Room /\ Filled

-----------------------------------------------------------------------------
(* Facts about the codes and the ring.                                     *)

\* No key has the number of "no code" or of the power-up codes.
LEMMA CodesAre ==
  /\ NoCode \notin Codes /\ PowerUp \notin Codes
  /\ \A c \in Codes : c.key \in Keys /\ c.down \in BOOLEAN
  /\ \A k \in Keys, d \in BOOLEAN : [key |-> k, down |-> d] \in Codes
<1>1. \A c \in Codes : c.key \in Keys /\ c.down \in BOOLEAN
  BY DEF Codes
<1>2. NoCode.key = -1 /\ PowerUp.key = -2
  BY DEF NoCode, PowerUp
<1>3. -1 \notin Keys /\ -2 \notin Keys
  BY KeyboardAssumption
<1>4. \A k \in Keys, d \in BOOLEAN : [key |-> k, down |-> d] \in Codes
  BY DEF Codes
<1> QED
  BY <1>1, <1>2, <1>3, <1>4, Zenon

LEMMA SuccIs ==
  ASSUME NEW i \in Pos
  PROVE  /\ Succ(i) \in Pos /\ Succ(i) # i
         /\ Succ(i) = IF i + 1 = RING THEN 0 ELSE i + 1
BY KeyboardAssumption DEF Pos, Succ

LEMMA Zeros ==
  /\ 0 \in Pos /\ 0 \in 0 .. RING /\ 0 \in 0 .. KEYTIME - 1
  /\ 0 \in 0 .. SLEEPY - 1 /\ 0 \in 0 .. SLEEPY
BY KeyboardAssumption DEF Pos

\* The count of looks starts again after SLEEPY of them.
LEMMA CountIs ==
  ASSUME NEW i \in 0 .. SLEEPY - 1
  PROVE  (i + 1) % SLEEPY = IF i + 1 = SLEEPY THEN 0 ELSE i + 1
<1>1. SLEEPY \in Nat /\ SLEEPY > 0 /\ i \in Nat /\ i < SLEEPY
  BY KeyboardAssumption
<1>2. CASE i + 1 = SLEEPY
  <2>1. SLEEPY % SLEEPY = 0
    BY <1>1, Z3
  <2> QED
    BY <1>2, <2>1
<1>3. CASE i + 1 < SLEEPY
  <2>1. PICK j \in Nat : j = i + 1 /\ j < SLEEPY
    BY <1>1, <1>3
  <2>2. j % SLEEPY = j
    BY <1>1, <2>1, Z3
  <2> QED
    BY <1>3, <2>1, <2>2
<1> QED
  BY <1>1, <1>2, <1>3


-----------------------------------------------------------------------------
(* Types, the interlock and the indices, whatever the host's speed.        *)

\* What a release of all keys records: one release for each key held.
LEMMA ReleaseIs ==
  ASSUME TypeOK, NEW s \in [1 .. Cardinality(keydown) -> keydown],
         NEW r, r = [i \in DOMAIN s |-> [key |-> s[i], down |-> FALSE]]
  PROVE  /\ r \in Seq(Codes) /\ Len(r) = Cardinality(keydown)
         /\ Cardinality(keydown) \in Nat
         /\ \A i \in 1 .. Cardinality(keydown) :
              r[i] = [key |-> s[i], down |-> FALSE]
<1>1. Cardinality(keydown) \in Nat
  <2>1. PICK m \in Nat : m = 127
    OBVIOUS
  <2>2. IsFiniteSet(0 .. m)
    BY FS_Interval
  <2>3. keydown \in SUBSET (0 .. m)
    BY <2>1, KeyboardAssumption DEF TypeOK
  <2> QED
    BY <2>2, <2>3, FS_Subset, FS_CardinalityType
<1>2. PICK n \in Nat : n = Cardinality(keydown)
  BY <1>1
<1>3. \A i \in 1 .. n : [key |-> s[i], down |-> FALSE] \in Codes
  BY <1>2, CodesAre DEF TypeOK
<1>4. r = [i \in 1 .. n |-> [key |-> s[i], down |-> FALSE]]
  BY <1>2
<1>5. r \in [1 .. n -> Codes]
  BY <1>3, <1>4
<1>6. r \in Seq(Codes) /\ Len(r) = n
  BY <1>2, <1>5
<1> QED
  BY <1>1, <1>2, <1>4, <1>6

\* The host's steps: a key, a release of all keys, record_key.
LEMMA HostPair ==
  ASSUME Pair,
         \/ \E k \in Keys, down, reset \in BOOLEAN :
              inputdevice_do_keyboard(k, down, reset)
         \/ inputdevice_release_all_keys \/ record_key
  PROVE  Pair'
<1> USE KeyboardAssumption DEF Pair, TypeOK, Interlock, Shape, HostPcs, ReadPcs,
        ringVars, readVars, ciaVars, programVars, HostIdle
<1>1. ASSUME NEW k \in Keys, NEW down \in BOOLEAN, NEW reset \in BOOLEAN,
             inputdevice_do_keyboard(k, down, reset)
      PROVE  Pair'
  <2>1. <<[key |-> k, down |-> down]>> \in Seq(Codes)
    BY CodesAre
  <2>2. codes' \in Seq(Codes)
    BY <1>1, <2>1 DEF inputdevice_do_keyboard
  <2>3. keydown' \in SUBSET Keys
    BY <1>1 DEF inputdevice_do_keyboard
  <2> QED
    BY <1>1, <2>2, <2>3 DEF inputdevice_do_keyboard
<1>2. CASE inputdevice_release_all_keys
  <2>1. codes' \in Seq(Codes)
    BY <1>2, ReleaseIs DEF inputdevice_release_all_keys
  <2> QED
    BY <1>2, <2>1 DEF inputdevice_release_all_keys
<1>3. CASE RecordTest
  <2>1. codes' \in Seq(Codes)
    <3>1. codes # <<>> /\ (codes' = codes \/ codes' = Tail(codes))
      BY <1>3 DEF RecordTest
    <3> QED
      BY <3>1, HeadTailProperties
  <2>2. Succ(kpb_first) \in Pos
    BY SuccIs
  <2>3. TypeOK'
    BY <1>3, <2>1, <2>2 DEF RecordTest
  <2>4. Interlock'
    BY <1>3 DEF RecordTest
  <2>5. Succ(kpb_first)' = Succ(kpb_first)
    BY <1>3 DEF RecordTest, Succ
  <2>6. Shape'
    BY <1>3, <2>5 DEF RecordTest
  <2> QED
    BY <2>3, <2>4, <2>6
<1>4. CASE RecordStore
  <2>1. codes # <<>> /\ Head(codes) \in Codes
    BY <1>4 DEF RecordStore
  <2>2. keybuf' \in [Pos -> Codes \cup {NoCode}]
    BY <1>4, <2>1 DEF RecordStore
  <2>3. Succ(kpb_first)' = Succ(kpb_first)
    BY <1>4 DEF RecordStore, Succ
  <2> QED
    BY <1>4, <2>2, <2>3 DEF RecordStore
<1>5. CASE RecordPublish
  <2>1. codes' \in Seq(Codes)
    BY <1>5 DEF RecordPublish
  <2>2. 0 \in Pos
    BY DEF Pos
  <2> QED
    BY <1>5, <2>1, <2>2 DEF RecordPublish
<1> QED
  BY <1>1, <1>2, <1>3, <1>4, <1>5 DEF record_key

\* The emulator's steps: the ends of lines and the program.
LEMMA EmuPair ==
  ASSUME Pair,
         CIA_hsync_handler \/ ReadSdr \/ WriteCra \/ CIA_reset \/ UNCHANGED vars
  PROVE  Pair'
<1> USE KeyboardAssumption DEF Pair, TypeOK, Interlock, HostPcs, ReadPcs,
        hostVars, ringVars, readVars, ciaVars, programVars
<1>1. Succ(kpb_first)' = Succ(kpb_first)
  <2>1. kpb_first' = kpb_first
    BY DEF CIA_hsync_handler, HsyncCounts, HsyncRests, HsyncWaits,
           HsyncPowerUp, HsyncGet, GetAdvance, GetWrap, ReadSdr, WriteCra,
           CIA_reset, vars
  <2> QED
    BY <2>1 DEF Succ
<1>2. CASE HsyncCounts
  BY <1>1, <1>2 DEF HsyncCounts, Look, Shape
<1>3. CASE HsyncRests
  BY <1>1, <1>3 DEF HsyncRests, Older, Shape
<1>4. CASE HsyncWaits
  <2>1. /\ sleepyhead' = IF sleepyhead + 1 = SLEEPY THEN 0 ELSE sleepyhead + 1
        /\ ciaasdr_unread' = IF sleepyhead' = 0 THEN 0 ELSE 1
        /\ rpc = "idle" /\ ciaasdr_unread = 1 /\ keytime' = 0
        /\ looks' = IF looks = SLEEPY THEN looks ELSE looks + 1
        /\ UNCHANGED <<hostVars, ringVars, readVars, kbstate, ciaasdr, output,
                       heard>>
    BY <1>4, CountIs DEF HsyncWaits, Older
  <2>2. Interlock'
    BY <2>1
  <2>3. TypeOK'
    BY <2>1
  <2>4. Shape'
    BY <1>1, <2>1 DEF Shape
  <2> QED
    BY <2>2, <2>3, <2>4
<1>5. CASE HsyncPowerUp
  <2>0. heard' \in BOOLEAN
    BY <1>5, Zenon DEF HsyncPowerUp, Give
  <2>1. TypeOK'
    BY <1>5, Zeros, <2>0 DEF HsyncPowerUp, Give
  <2>2. Interlock'
    BY <1>5, CodesAre DEF HsyncPowerUp, Give
  <2>3. Shape'
    BY <1>1, <1>5 DEF HsyncPowerUp, Give, Shape
  <2> QED
    BY <2>1, <2>2, <2>3
<1>6. CASE HsyncGet
  <2>1. kpb_last \in Pos
    BY <1>6 DEF HsyncGet, Shape, Pos
  <2>2. /\ keybuf' \in [Pos -> Codes \cup {NoCode}]
        /\ key' \in Codes \cup {NoCode}
    BY <1>6, <2>1 DEF HsyncGet
  <2> QED
    BY <1>1, <1>6, <2>2 DEF HsyncGet, Shape
<1>7. CASE GetAdvance
  <2>1. kpb_last \in 0 .. RING - 1
    BY <1>7 DEF GetAdvance, Shape
  <2>2. CASE kpb_last' = RING
    BY <1>1, <1>7, <2>1, <2>2 DEF GetAdvance, Shape
  <2>3. CASE kpb_last' # RING
    <3>0. heard' \in BOOLEAN
      BY <1>7, <2>1, <2>3, Zenon DEF GetAdvance, GiveKey, Give
    <3>1. TypeOK'
      BY <1>7, <2>1, <2>3, Zeros, <3>0 DEF GetAdvance, GiveKey, Give
    <3>2. Interlock'
      BY <1>7, <2>3 DEF GetAdvance, GiveKey, Give
    <3>3. Shape'
      BY <1>1, <1>7, <2>1, <2>3 DEF GetAdvance, GiveKey, Give, Shape
    <3> QED
      BY <3>1, <3>2, <3>3
  <2> QED
    BY <2>2, <2>3
<1>8. CASE GetWrap
  <2>0. heard' \in BOOLEAN
    BY <1>8, Zenon DEF GetWrap, GiveKey, Give
  <2>1. TypeOK'
    BY <1>8, Zeros, <2>0 DEF GetWrap, GiveKey, Give
  <2>2. Interlock'
    BY <1>8 DEF GetWrap, GiveKey, Give
  <2>3. Shape'
    BY <1>1, <1>8 DEF GetWrap, GiveKey, Give, Shape
  <2> QED
    BY <2>1, <2>2, <2>3
<1>9. CASE ReadSdr
  BY <1>1, <1>9 DEF ReadSdr, Shape
<1>10. CASE WriteCra
  BY <1>1, <1>10 DEF WriteCra, Shape
<1>11. CASE CIA_reset
  <2>0. output' \in BOOLEAN
    BY <1>11, Zenon DEF CIA_reset
  <2>1. TypeOK'
    BY <1>11, Zeros, <2>0 DEF CIA_reset
  <2>2. Interlock'
    BY <1>11 DEF CIA_reset
  <2>3. Shape'
    BY <1>1, <1>11 DEF CIA_reset, Shape
  <2> QED
    BY <2>1, <2>2, <2>3
<1>12. CASE UNCHANGED vars
  BY <1>1, <1>12 DEF vars, Shape
<1> QED
  BY <1>2, <1>3, <1>4, <1>5, <1>6, <1>7, <1>8, <1>9, <1>10, <1>11, <1>12
     DEF CIA_hsync_handler

LEMMA PairInit == Init => Pair
<1>1. Init => TypeOK
  <2>2. Init => /\ <<>> \in Seq(Codes)
                /\ keybuf \in [Pos -> Codes \cup {NoCode}]
    BY DEF Init, Pos
  <2> QED
    BY <2>2, Zeros DEF Init, TypeOK, HostPcs, ReadPcs
<1>2. Init => Interlock
  BY CodesAre DEF Init, Interlock
<1>3. Init => Shape
  BY KeyboardAssumption DEF Init, Shape
<1> QED
  BY <1>1, <1>2, <1>3 DEF Pair

\* Every variable keeps its type, the interlock counts the looks of an unread
\* code and the indices are where the program counters say, however fast the
\* host is.
THEOREM InterlockHolds == Spec => []Pair
<1>1. Init => Pair
  BY PairInit
<1>2. Pair /\ [Next]_vars => Pair'
  BY HostPair, EmuPair DEF Next
<1> QED
  BY <1>1, <1>2, PTL DEF Spec

\* A key code the program has not read is replaced only after SLEEPY looks:
\* CIA_hsync_handler gives another only with the interlock open.
THEOREM CodesAreHeard == Spec => KeyHeard
<1>1. Pair /\ [Next]_vars
        => [Replaces /\ ciaasdr \in Codes /\ ~heard => looks >= SLEEPY]_vars
  <2> SUFFICES ASSUME Pair, Next, Replaces, ciaasdr \in Codes, ~heard
               PROVE  looks >= SLEEPY
    OBVIOUS
  <2>1. SLEEPY \in Nat
    BY KeyboardAssumption
  <2>2. ciaasdr_unread = 0
    <3>1. CASE rpc # "idle"
      BY <3>1 DEF Pair, Interlock
    <3>2. CASE kbstate' > kbstate
      <4>1. kbstate' # kbstate
        BY <3>2 DEF Pair, TypeOK
      <4>2. HsyncPowerUp \/ CIA_reset
        BY <4>1 DEF Next, inputdevice_do_keyboard, inputdevice_release_all_keys,
           record_key, RecordTest, RecordStore, RecordPublish,
           CIA_hsync_handler, HsyncCounts, HsyncRests, HsyncWaits, HsyncGet,
           GetAdvance, GiveKey, GetWrap, ReadSdr, WriteCra, ciaVars
      <4>3. ~CIA_reset
        BY <3>2 DEF CIA_reset, Pair, TypeOK
      <4> QED
        BY <4>2, <4>3 DEF HsyncPowerUp
    <3> QED
      BY <3>1, <3>2 DEF Replaces
  <2> QED
    BY <2>1, <2>2 DEF Pair, Interlock
<1> QED
  BY <1>1, InterlockHolds, PTL DEF Spec, KeyHeard


-----------------------------------------------------------------------------
(* The ring: as many codes as the indices are apart.                       *)

LEMMA HeldIs ==
  ASSUME TypeOK
  PROVE  /\ Start \in Pos /\ Held \in 0 .. RING - 1
         /\ Held = 0 <=> kpb_first = Start
         /\ \A i \in 1 .. Held : At(i) \in Pos /\ At(i) # kpb_first
         /\ Held > 0 => At(1) = Start
         /\ \A i \in 2 .. Held : At(i) # Start
<1>1. RING \in Nat /\ RING > 1 /\ kpb_first \in 0 .. RING - 1
      /\ kpb_last \in 0 .. RING
  BY KeyboardAssumption DEF TypeOK, Pos
<1>2. PICK b \in 0 .. RING - 1 : b = Start
  BY <1>1 DEF Start, Slot
<1>3. PICK n \in 0 .. RING - 1 :
        n = Held /\ n = IF kpb_first >= b THEN kpb_first - b ELSE kpb_first - b + RING
  <2>1. Held = IF kpb_first >= b THEN kpb_first - b ELSE kpb_first - b + RING
    BY <1>2 DEF Held
  <2>2. Held \in 0 .. RING - 1
    BY <1>1, <1>2, <2>1
  <2> QED
    BY <2>1, <2>2
<1>4. \A i \in 1 .. n :
        /\ At(i) = IF b + i - 1 < RING THEN b + i - 1 ELSE b + i - 1 - RING
        /\ At(i) \in Pos /\ At(i) # kpb_first
  BY <1>1, <1>2, <1>3 DEF At, Pos
<1>5. n > 0 => At(1) = b
  BY <1>1, <1>2, <1>3, <1>4
<1>6. \A i \in 2 .. n : At(i) # b
  BY <1>1, <1>2, <1>3, <1>4
<1> QED
  BY <1>1, <1>2, <1>3, <1>4, <1>5, <1>6 DEF Pos

LEMMA Still ==
  ASSUME kpb_first' = kpb_first, kpb_last' = kpb_last
  PROVE  Start' = Start /\ Held' = Held /\ \A i : At(i)' = At(i)
<1>1. Start' = Start
  BY DEF Start, Slot
<1> QED
  BY <1>1 DEF Held, At

\* A code published is the last of those held ...
LEMMA HeldWrite ==
  ASSUME TypeOK, kpb_last' = kpb_last, kpb_first' = Succ(kpb_first),
         Held <= RING - 2
  PROVE  /\ Held' = Held + 1 /\ At(Held + 1) = kpb_first
         /\ \A i : At(i)' = At(i)
<1>1. RING \in Nat /\ RING > 1 /\ kpb_first \in 0 .. RING - 1
  BY KeyboardAssumption DEF TypeOK, Pos
<1>2. PICK b \in 0 .. RING - 1 : b = Start
  BY HeldIs DEF Pos
<1>3. Start' = b
  BY <1>2 DEF Start, Slot
<1>4. Held = IF kpb_first >= b THEN kpb_first - b ELSE kpb_first - b + RING
  BY <1>2 DEF Held
<1>5. Held' = IF kpb_first' >= b THEN kpb_first' - b ELSE kpb_first' - b + RING
  BY <1>3 DEF Held
<1>6. kpb_first' = IF kpb_first + 1 = RING THEN 0 ELSE kpb_first + 1
  BY DEF Succ
<1>7. Held' = Held + 1
  BY <1>1, <1>2, <1>4, <1>5, <1>6
<1>8. At(Held + 1) = kpb_first
  BY <1>1, <1>2, <1>4 DEF At
<1>9. \A i : At(i)' = At(i)
  BY <1>2, <1>3 DEF At
<1> QED
  BY <1>7, <1>8, <1>9

\* ... and a code read is the first.
LEMMA HeldRead ==
  ASSUME TypeOK, kpb_first' = kpb_first, kpb_last \in Pos,
         kpb_last' = kpb_last + 1, kpb_first # kpb_last
  PROVE  /\ Held > 0 /\ Held' = Held - 1
         /\ \A i \in 1 .. Held - 1 : At(i)' = At(i + 1)
<1>1. RING \in Nat /\ RING > 1 /\ kpb_first \in 0 .. RING - 1
      /\ kpb_last \in 0 .. RING - 1
  BY KeyboardAssumption DEF TypeOK, Pos
<1>2. Start = kpb_last
  BY <1>1 DEF Start, Slot
<1>3. PICK b \in 0 .. RING - 1 :
        b = Start' /\ b = IF kpb_last + 1 = RING THEN 0 ELSE kpb_last + 1
  BY <1>1 DEF Start, Slot
<1>4. Held = IF kpb_first >= kpb_last THEN kpb_first - kpb_last
                                      ELSE kpb_first - kpb_last + RING
  BY <1>2 DEF Held
<1>5. Held' = IF kpb_first >= b THEN kpb_first - b ELSE kpb_first - b + RING
  BY <1>3 DEF Held
<1>6. Held > 0 /\ Held' = Held - 1 /\ Held \in 0 .. RING - 1
  BY <1>1, <1>3, <1>4, <1>5
<1>7. ASSUME NEW i \in 1 .. Held - 1
      PROVE  At(i)' = At(i + 1)
  <2>1. i \in Nat /\ i >= 1 /\ i <= RING - 2
    BY <1>1, <1>6
  <2>2. At(i)' = IF b + i - 1 < RING THEN b + i - 1 ELSE b + i - 1 - RING
    BY <1>3 DEF At
  <2>3. At(i + 1) = IF kpb_last + (i + 1) - 1 < RING
                    THEN kpb_last + (i + 1) - 1
                    ELSE kpb_last + (i + 1) - 1 - RING
    BY <1>2 DEF At
  <2> QED
    BY <1>1, <1>3, <2>1, <2>2, <2>3
<1> QED
  BY <1>6, <1>7


-----------------------------------------------------------------------------
(* The ring's contents, for a host that looks once while the index wraps.  *)

\* Steps that leave the ring, the reader and the program counters alone.
LEMMA RingIdle ==
  ASSUME IInv, UNCHANGED <<kpb_first, kpb_last, keybuf, rpc, key, tests, wpc>>,
         wpc # "idle" => codes' = codes,
         pressed' = pressed \/ pressed' = Parted
  PROVE  Room' /\ Filled'
<1>1. Held' = Held /\ \A i : At(i)' = At(i)
  BY Still
<1>2. Room'
  BY <1>1 DEF IInv, Room
<1>3. pressed' \in (SUBSET Keys) \cup {Parted}
  BY DEF IInv, Filled
<1>4. wpc' = "publish" => keybuf'[kpb_first'] = Head(codes')
  BY DEF IInv, Filled
<1>5. Filled'
  BY <1>1, <1>3, <1>4 DEF IInv, Filled
<1> QED
  BY <1>2, <1>5

LEMMA HostRing ==
  ASSUME WINDOW \in {0, 1}, IInv, Pair',
         \/ \E k \in Keys, down, reset \in BOOLEAN :
              inputdevice_do_keyboard(k, down, reset)
         \/ inputdevice_release_all_keys \/ record_key
  PROVE  Room' /\ Filled'
<1>0. /\ TypeOK /\ Shape /\ Room /\ Filled /\ RING \in Nat /\ Held \in Nat
      /\ tests \in Nat /\ kpb_first \in Pos /\ Held <= RING - 1
  BY KeyboardAssumption, HeldIs DEF IInv, Pair, TypeOK
<1>1. ASSUME NEW k \in Keys, NEW down \in BOOLEAN, NEW reset \in BOOLEAN,
             inputdevice_do_keyboard(k, down, reset)
      PROVE  Room' /\ Filled'
  BY <1>1, RingIdle DEF inputdevice_do_keyboard, HostIdle, ringVars, readVars
<1>2. CASE inputdevice_release_all_keys
  BY <1>2, RingIdle
     DEF inputdevice_release_all_keys, HostIdle, ringVars, readVars
<1>3. CASE RecordTest
  <2>0. UNCHANGED <<kpb_first, kpb_last, keybuf, rpc, key>> /\ wpc = "idle"
    BY <1>3 DEF RecordTest, ringVars
  <2>1. Held' = Held /\ \A i : At(i)' = At(i)
    BY <2>0, Still
  <2>2. (wpc' = "idle" \/ wpc' = "store")
        /\ (pressed' = pressed \/ pressed' = Parted)
    BY <1>3 DEF RecordTest
  <2>3. Filled'
    <3>1. pressed' \in (SUBSET Keys) \cup {Parted}
      BY <1>0, <2>2 DEF Filled
    <3> QED
      BY <1>0, <2>0, <2>1, <2>2, <3>1 DEF Filled
  <2>4. CASE wpc' = "idle"
    <3>1. tests' \in Nat /\ tests' >= tests
      BY <1>0, <1>3 DEF RecordTest
    <3>2. Room'
      <4>1. rpc = "advance" => kpb_first # kpb_last
        BY <1>0 DEF Room
      <4>2. Held <= IF rpc = "wrap" THEN RING - 2 + tests' ELSE RING - 1
        <5>1. Held + 0 <= IF rpc = "wrap" THEN RING - 2 + tests ELSE RING - 1
          BY <2>0, Zenon DEF IInv, Room
        <5>2. PICK h \in Nat, t \in Nat, u \in Nat, R \in Nat :
                h = Held /\ t = tests /\ u = tests' /\ R = RING
          BY <1>0, <3>1
        <5>3. rpc = "wrap" => h <= R - 2 + u
          <6>1. u >= t
            BY <3>1, <5>2
          <6>2. rpc = "wrap" => h + 0 <= R - 2 + t
            BY <5>1, <5>2, Zenon
          <6> QED
            BY <6>1, <6>2
        <5>4. rpc # "wrap" => h <= R - 1
          BY <5>1, <5>2
        <5> QED
          BY <5>2, <5>3, <5>4, Zenon
      <4> QED
        BY <1>0, <2>0, <2>1, <2>4, <4>1, <4>2 DEF Room
    <3> QED
      BY <2>3, <3>2
  <2>5. CASE wpc' = "store"
    <3>1. Succ(kpb_first) # kpb_last
      BY <1>3, <2>0, <2>5 DEF RecordTest, Full
    <3>2. CASE rpc = "wrap"
      <4>1. tests' = tests + 1
        BY <1>3, <3>2 DEF RecordTest
      <4>2. Held + 1 <= RING - 2 + tests'
        BY <1>0, <2>0, <3>2, <4>1 DEF Room
      <4> QED
        BY <2>0, <2>1, <2>3, <2>5, <3>2, <4>2 DEF Room
    <3>3. CASE rpc # "wrap"
      <4>1. Start = kpb_last
        BY <1>0, <3>3 DEF Start, Slot, Shape
      <4>2. Held <= RING - 2
        <5>1. kpb_first \in 0 .. RING - 1 /\ kpb_last \in 0 .. RING - 1
          BY <1>0, <3>3 DEF Shape, TypeOK, Pos
        <5>2. Held = IF kpb_first >= kpb_last THEN kpb_first - kpb_last
                     ELSE kpb_first - kpb_last + RING
          BY <4>1 DEF Held
        <5>3. kpb_last # IF kpb_first + 1 = RING THEN 0 ELSE kpb_first + 1
          BY <3>1 DEF Succ
        <5> QED
          BY <1>0, <5>1, <5>2, <5>3
      <4> QED
        BY <1>0, <2>0, <2>1, <2>3, <2>5, <3>3, <4>2 DEF Room
    <3> QED
      BY <3>2, <3>3
  <2> QED
    BY <2>2, <2>4, <2>5
<1>4. CASE RecordStore
  <2>0. /\ UNCHANGED <<kpb_first, kpb_last, rpc, key, tests, pressed, codes>>
        /\ wpc = "store" /\ wpc' = "publish"
        /\ keybuf' = [keybuf EXCEPT ![kpb_first] = Head(codes)]
    BY <1>4 DEF RecordStore, readVars
  <2>1. Held' = Held /\ \A i : At(i)' = At(i)
    BY <2>0, Still
  <2>2. keybuf'[kpb_first] = Head(codes)
        /\ \A i \in 1 .. Held : keybuf'[At(i)] = keybuf[At(i)]
    BY <1>0, <2>0, HeldIs DEF TypeOK
  <2>3. Room'
    BY <1>0, <2>0, <2>1 DEF Room
  <2>4. Filled'
    BY <1>0, <2>0, <2>1, <2>2 DEF Filled
  <2> QED
    BY <2>3, <2>4
<1>5. CASE RecordPublish
  <2>0. /\ UNCHANGED <<kpb_last, rpc, key, tests, pressed, keybuf>>
        /\ wpc = "publish" /\ wpc' = "idle" /\ kpb_first' = Succ(kpb_first)
    BY <1>0, <1>5 DEF RecordPublish, Shape, readVars
  <2>1. Held <= RING - 2 /\ Held + 1 <= IF rpc = "wrap" THEN RING - 2 + tests
                                                         ELSE RING - 1
    BY <1>0, <2>0 DEF Room, Shape
  <2>2. Held' = Held + 1 /\ At(Held + 1) = kpb_first /\ \A i : At(i)' = At(i)
    BY <1>0, <2>0, <2>1, HeldWrite
  <2>3. codes # <<>> /\ Head(codes) \in Codes
    BY <1>0, <2>0 DEF Shape, TypeOK
  <2>4. Room'
    <3>1. rpc = "advance" => kpb_first' # kpb_last
      <4>1. ASSUME rpc = "advance" PROVE kpb_first' # kpb_last
        <5>1. Start' = kpb_last /\ kpb_last \in Pos
          BY <1>0, <2>0, <4>1 DEF Start, Slot, Shape, TypeOK, Pos
        <5>2. Held' # 0
          BY <1>0, <2>2
        <5>3. TypeOK' => (Held' = 0 <=> kpb_first' = Start')
          <6>1. TypeOK => (Held = 0 <=> kpb_first = Start)
            BY HeldIs
          <6>2. (TypeOK => (Held = 0 <=> kpb_first = Start))'
            BY HeldIs, PTL
          <6> QED
            BY <6>2
        <5> QED
          BY <5>1, <5>2, <5>3 DEF Pair
      <4> QED
        BY <4>1
    <3> QED
      BY <1>0, <2>0, <2>1, <2>2, <3>1 DEF Room
  <2>5. ASSUME NEW i \in 1 .. Held + 1
        PROVE  (rpc = "advance" /\ i = 1) \/ keybuf[At(i)] \in Codes
    <3>1. CASE i = Held + 1
      BY <1>0, <2>0, <2>2, <2>3, <3>1 DEF Filled
    <3>2. CASE i # Held + 1
      BY <1>0, <3>2 DEF Filled
    <3> QED
      BY <3>1, <3>2
  <2>6. Filled'
    BY <1>0, <2>0, <2>2, <2>5 DEF Filled
  <2> QED
    BY <2>4, <2>6
<1> QED
  BY <1>1, <1>2, <1>3, <1>4, <1>5 DEF record_key

LEMMA EmuRing ==
  ASSUME WINDOW \in {0, 1}, IInv,
         CIA_hsync_handler \/ ReadSdr \/ WriteCra \/ CIA_reset \/ UNCHANGED vars
  PROVE  Room' /\ Filled'
<1> USE DEF hostVars, ringVars, readVars, ciaVars, programVars
<1>0. /\ TypeOK /\ Shape /\ Room /\ Filled /\ RING \in Nat /\ Held \in Nat
      /\ tests \in Nat /\ kpb_first \in Pos /\ Held <= RING - 1
  BY KeyboardAssumption, HeldIs DEF IInv, Pair, TypeOK
<1>1. CASE HsyncCounts \/ HsyncRests \/ HsyncWaits \/ HsyncPowerUp
  BY <1>1, RingIdle DEF HsyncCounts, HsyncRests, HsyncWaits, HsyncPowerUp
<1>2. CASE ReadSdr \/ WriteCra \/ CIA_reset \/ UNCHANGED vars
  BY <1>2, RingIdle DEF ReadSdr, WriteCra, CIA_reset, vars
<1>3. CASE HsyncGet
  <2>0. /\ UNCHANGED <<kpb_first, kpb_last, tests, pressed, codes, wpc>>
        /\ rpc = "idle" /\ rpc' = "advance" /\ kpb_first # kpb_last
        /\ key' = keybuf[kpb_last]
        /\ keybuf' = [keybuf EXCEPT ![kpb_last] = NoCode]
    BY <1>3 DEF HsyncGet, Look, keys_available
  <2>1. Held' = Held /\ \A i : At(i)' = At(i)
    BY <2>0, Still
  <2>2. Start = kpb_last /\ kpb_last \in Pos
    BY <1>0, <2>0 DEF Start, Slot, Shape, TypeOK, Pos
  <2>3. /\ Held > 0 /\ At(1) = kpb_last
        /\ \A i \in 2 .. Held : At(i) \in Pos /\ At(i) # kpb_last
    BY <1>0, <2>0, <2>2, HeldIs
  <2>4. key' \in Codes
    BY <1>0, <2>0, <2>3 DEF Filled
  <2>5. /\ \A i \in 2 .. Held : keybuf'[At(i)] = keybuf[At(i)]
        /\ kpb_first # kpb_last => keybuf'[kpb_first] = keybuf[kpb_first]
    BY <1>0, <2>0, <2>3 DEF TypeOK
  <2>6. Room'
    BY <1>0, <2>0, <2>1 DEF Room
  <2>7. Filled'
    BY <1>0, <2>0, <2>1, <2>4, <2>5 DEF Filled
  <2> QED
    BY <2>6, <2>7
<1>4. CASE GetAdvance
  <2>0. /\ UNCHANGED <<kpb_first, keybuf, key, tests, codes, wpc>>
        /\ rpc = "advance" /\ kpb_last' = kpb_last + 1
        /\ rpc' = IF kpb_last' = RING THEN "wrap" ELSE "idle"
        /\ pressed' = pressed \/ pressed' = AfterCode(pressed, key)
        /\ kpb_last \in Pos /\ kpb_first # kpb_last /\ tests = 0
    BY <1>0, <1>4 DEF GetAdvance, GiveKey, Shape, Room, TypeOK, Pos
  <2>1. /\ Held' = Held - 1
        /\ \A i \in 1 .. Held - 1 : At(i)' = At(i + 1)
    BY <1>0, <2>0, HeldRead
  <2>2. Room'
    BY <1>0, <2>0, <2>1 DEF Room
  <2>3. pressed' \in (SUBSET Keys) \cup {Parted}
    BY <1>0, <2>0, CodesAre DEF AfterCode, Filled
  <2>4. \A i \in 1 .. Held - 1 : keybuf[At(i + 1)] \in Codes
    BY <1>0 DEF Filled
  <2>5. Filled'
    BY <1>0, <2>0, <2>1, <2>3, <2>4 DEF Filled
  <2> QED
    BY <2>2, <2>5
<1>5. CASE GetWrap
  <2>0. /\ UNCHANGED <<kpb_first, keybuf, key, codes, wpc>>
        /\ rpc = "wrap" /\ rpc' = "idle" /\ kpb_last' = 0
        /\ pressed' = AfterCode(pressed, key) /\ kpb_last = RING
    BY <1>0, <1>5 DEF GetWrap, GiveKey, Shape
  <2>1. Start' = Start
    BY <1>0, <2>0, KeyboardAssumption DEF Start, Slot
  <2>2. Held' = Held /\ \A i : At(i)' = At(i)
    BY <2>0, <2>1 DEF Held, At
  <2>3. pressed' \in (SUBSET Keys) \cup {Parted}
    BY <1>0, <2>0, CodesAre DEF AfterCode, Filled
  <2>4. Room'
    BY <1>0, <2>0, <2>2 DEF Room, Shape
  <2>5. Filled'
    BY <1>0, <2>0, <2>2, <2>3 DEF Filled
  <2> QED
    BY <2>4, <2>5
<1> QED
  BY <1>1, <1>2, <1>3, <1>4, <1>5 DEF CIA_hsync_handler

LEMMA InvInit == Init => IInv
<1>1. Init => Held = 0
  BY KeyboardAssumption DEF Init, Held, Start, Slot
<1>2. Init => Room
  BY <1>1, KeyboardAssumption DEF Init, Room
<1>3. Init => Filled
  BY <1>1 DEF Init, Filled
<1> QED
  BY <1>2, <1>3, PairInit DEF IInv

\* What the ring holds, with the types and the indices: if the host is not so
\* fast as to look twice between the two stores of the index, the reader never
\* meets a slot without a code and the writer none that is still to be read.
THEOREM Invariance ==
  ASSUME WINDOW \in {0, 1}
  PROVE  Spec => []IInv
<1>1. Init => IInv
  BY InvInit
<1>2. IInv /\ [Next]_vars => Pair'
  BY HostPair, EmuPair DEF IInv, Next
<1>3. IInv /\ [Next]_vars => Room' /\ Filled'
  BY <1>2, HostRing, EmuRing DEF Next
<1> QED
  BY <1>1, <1>2, <1>3, InterlockHolds, PTL DEF Spec, IInv


-----------------------------------------------------------------------------
(* The ring implements the queue of Fifo.                                  *)

LEMMA ModRing ==
  ASSUME NEW R \in Nat \ {0}, NEW a \in 0 .. 2 * R - 1
  PROVE  a % R = IF a < R THEN a ELSE a - R
<1>1. CASE a < R
  BY <1>1, Z3
<1>2. CASE a >= R
  <2>1. PICK r \in 0 .. R - 1 : a = R * 1 + r
    BY <1>2
  <2>2. (R * 1 + r) % R = r
    BY Z3
  <2> QED
    BY <1>2, <2>1, <2>2
<1> QED
  BY <1>1, <1>2

\* Sequences that differ by their last or their first element.
LEMMA IsAppend ==
  ASSUME NEW T, NEW s \in Seq(T), NEW t \in Seq(T), NEW e \in T,
         Len(t) = Len(s) + 1, \A i \in 1 .. Len(s) : t[i] = s[i],
         t[Len(s) + 1] = e
  PROVE  t = Append(s, e)
<1>1. PICK a \in Seq(T) :
        /\ a = Append(s, e) /\ Len(a) = Len(s) + 1
        /\ \A i \in 1 .. Len(s) : a[i] = s[i]
        /\ a[Len(s) + 1] = e
  BY AppendProperties
<1>2. PICK n \in Nat : n = Len(s)
  BY LenProperties
<1>3. Len(t) = Len(a) /\ \A i \in 1 .. Len(t) : t[i] = a[i]
  BY <1>1, <1>2
<1>4. t = a
  BY <1>3, SeqEqual, Zenon
<1> QED
  BY <1>1, <1>4

LEMMA IsTail ==
  ASSUME NEW T, NEW s \in Seq(T), NEW t \in Seq(T),
         Len(s) = Len(t) + 1, \A i \in 1 .. Len(t) : t[i] = s[i + 1]
  PROVE  s # <<>> /\ t = Tail(s) /\ Head(s) = s[1]
<1>1. PICK n \in Nat : n = Len(t)
  BY LenProperties
<1>2. s # <<>>
  BY <1>1, EmptySeq
<1>3. PICK a \in Seq(T) :
        /\ a = Tail(s) /\ Len(a) = Len(s) - 1
        /\ \A i \in 1 .. Len(a) : a[i] = s[i + 1]
  BY <1>2, HeadTailProperties
<1>4. Len(t) = Len(a) /\ \A i \in 1 .. Len(t) : t[i] = a[i]
  BY <1>1, <1>3
<1>5. t = a
  BY <1>4, SeqEqual, Zenon
<1> QED
  BY <1>2, <1>3, <1>5

\* How many slots at the front the reader has emptied and not passed.
Read == IF rpc = "advance" THEN 1 ELSE 0

LEMMA InRingIs ==
  ASSUME TypeOK
  PROVE  /\ InRing \in Seq(Codes \cup {NoCode}) /\ Len(InRing) = Held
         /\ \A i \in 1 .. Held : InRing[i] = keybuf[At(i)]
<1>1. RING \in Nat \ {0} /\ kpb_first \in 0 .. RING - 1
  BY KeyboardAssumption DEF TypeOK, Pos
<1>2. PICK b \in 0 .. RING - 1 : b = Start
  BY HeldIs DEF Pos
<1>3. PICK n \in 0 .. RING - 1 :
        n = Held /\ n = IF kpb_first >= b THEN kpb_first - b ELSE kpb_first - b + RING
  <2>1. Held = IF kpb_first >= b THEN kpb_first - b ELSE kpb_first - b + RING
    BY <1>2 DEF Held
  <2> QED
    BY <2>1, HeldIs
<1>4. (kpb_first - Slot(kpb_last) + RING) % RING = n
  <2>1. PICK a \in 0 .. 2 * RING - 1 : a = kpb_first - b + RING
    BY <1>1
  <2>2. a % RING = IF a < RING THEN a ELSE a - RING
    BY <1>1, ModRing
  <2>3. a % RING = n
    BY <1>1, <1>3, <2>1, <2>2
  <2> QED
    BY <1>2, <2>1, <2>3 DEF Start
<1>5. ASSUME NEW i \in 1 .. n
      PROVE  (Slot(kpb_last) + i - 1) % RING = At(i)
  <2>1. PICK a \in 0 .. 2 * RING - 1 : a = b + i - 1
    BY <1>1, <1>3
  <2>2. a % RING = IF a < RING THEN a ELSE a - RING
    BY <1>1, ModRing
  <2>3. At(i) = IF a < RING THEN a ELSE a - RING
    <3>1. At(i) = IF b + i - 1 < RING THEN b + i - 1 ELSE b + i - 1 - RING
      BY <1>2 DEF At
    <3> QED
      BY <1>1, <2>1, <3>1
  <2> QED
    BY <1>2, <2>1, <2>2, <2>3 DEF Start
<1>6. InRing = [i \in 1 .. n |-> keybuf[At(i)]]
  <2>1. InRing = [i \in 1 .. n |-> keybuf[(Slot(kpb_last) + i - 1) % RING]]
    BY <1>4 DEF InRing
  <2> QED
    BY <1>5, <2>1
<1>7. \A i \in 1 .. n : keybuf[At(i)] \in Codes \cup {NoCode}
  BY <1>3, HeldIs DEF TypeOK
<1>8. InRing \in [1 .. n -> Codes \cup {NoCode}]
  BY <1>6, <1>7
<1> QED
  BY <1>3, <1>6, <1>8

\* The slots from kpb_last on.
Cell == [i \in 1 .. RING |-> keybuf[At(i)]]

\* The queue the ring stands for: the codes of the slots not yet read.
LEMMA QueueIs ==
  IInv => /\ Queue \in Seq(Codes) /\ Held - Read \in Nat
          /\ Len(Queue) = Held - Read
          /\ Queue = [i \in 1 .. Held - Read |-> Cell[i + Read]]
<1> SUFFICES ASSUME IInv
             PROVE  /\ Queue \in Seq(Codes) /\ Held - Read \in Nat
                    /\ Len(Queue) = Held - Read
                    /\ Queue = [i \in 1 .. Held - Read |-> Cell[i + Read]]
  OBVIOUS
<1>1. TypeOK /\ Shape /\ Room /\ Filled
  BY DEF IInv, Pair
<1>2. PICK n \in Nat : n = Held /\ n < RING /\ \A i \in 1 .. n : Cell[i] = keybuf[At(i)]
  BY <1>1, HeldIs, KeyboardAssumption DEF Cell
<1>3. PICK r \in Seq(Codes \cup {NoCode}) :
        /\ r = InRing /\ Len(r) = n
        /\ \A i \in 1 .. n : r[i] = Cell[i]
  BY <1>1, <1>2, InRingIs
<1>4. CASE rpc = "advance"
  <2>1. kpb_last \in Pos /\ kpb_first # kpb_last
    BY <1>1, <1>4, KeyboardAssumption DEF Room, Shape, TypeOK, Pos
  <2>2. Start = kpb_last
    BY <2>1 DEF Start, Slot, Pos
  <2>3. n > 0
    BY <1>1, <1>2, <2>1, <2>2, HeldIs
  <2>4. r # <<>>
    BY <1>3, <2>3
  <2>5. PICK t \in Seq(Codes \cup {NoCode}) :
          /\ t = Tail(r) /\ Len(t) = n - 1
          /\ \A i \in 1 .. n - 1 : t[i] = r[i + 1]
    <3>1. /\ Tail(r) \in Seq(Codes \cup {NoCode})
          /\ Len(Tail(r)) = Len(r) - 1
          /\ \A i \in 1 .. Len(Tail(r)) : Tail(r)[i] = r[i + 1]
      BY <2>4, HeadTailProperties
    <3> QED
      BY <1>3, <3>1
  <2>6. ASSUME NEW i \in 1 .. n - 1
        PROVE  t[i] = Cell[i + 1] /\ t[i] \in Codes
    <3>1. PICK j \in 1 .. n : j = i + 1 /\ j # 1
      BY <1>2
    <3>2. Cell[j] \in Codes
      BY <1>1, <1>2, <3>1, Zenon DEF Filled
    <3> QED
      BY <1>3, <2>5, <3>1, <3>2
  <2>7. PICK m \in Nat : m = n - 1
    BY <1>2, <2>3
  <2>8. t = [i \in 1 .. m |-> Cell[i + 1]]
    <3>1. t \in [1 .. m -> Codes \cup {NoCode}]
      BY <2>5, <2>7, LenProperties
    <3> QED
      BY <2>6, <2>7, <3>1
  <2>10. t \in Seq(Codes)
    BY <2>6, <2>7, <2>8
  <2>9. Queue = t /\ Read = 1
    BY <1>3, <1>4, <2>5 DEF Queue, Read
  <2> QED
    BY <1>2, <2>5, <2>7, <2>8, <2>9, <2>10
<1>5. CASE rpc # "advance"
  <2>1. \A i \in 1 .. n : r[i] = Cell[i] /\ r[i] \in Codes
    BY <1>1, <1>2, <1>3, <1>5 DEF Filled
  <2>2. r = [i \in 1 .. n |-> Cell[i + 0]]
    BY <1>3, <2>1
  <2>3. r \in Seq(Codes)
    BY <1>3, <2>1
  <2>4. Queue = r /\ Read = 0
    BY <1>3, <1>5 DEF Queue, Read
  <2> QED
    BY <1>2, <1>3, <2>2, <2>3, <2>4
<1> QED
  BY <1>4, <1>5

\* The same of the next state.
LEMMA QueueIsNext ==
  ASSUME IInv'
  PROVE  /\ Queue' \in Seq(Codes) /\ Held' - Read' \in Nat
         /\ Len(Queue') = Held' - Read'
         /\ Queue' = [i \in 1 .. Held' - Read' |-> Cell'[i + Read']]
<1>1. (IInv => /\ Queue \in Seq(Codes) /\ Held - Read \in Nat
               /\ Len(Queue) = Held - Read
               /\ Queue = [i \in 1 .. Held - Read |-> Cell[i + Read]])'
  BY QueueIs, PTL
<1> QED
  BY <1>1


LEMMA QueueGet ==
  ASSUME IInv, IInv', HsyncGet
  PROVE  Queue # <<>> /\ key' = Head(Queue) /\ Queue' = Tail(Queue)
<1>1. /\ UNCHANGED <<kpb_first, kpb_last>> /\ kpb_first # kpb_last
      /\ rpc = "idle" /\ rpc' = "advance" /\ key' = keybuf[kpb_last]
      /\ keybuf' = [keybuf EXCEPT ![kpb_last] = NoCode]
  BY DEF HsyncGet, Look, keys_available
<1>2. TypeOK /\ Shape /\ RING \in Nat
  BY KeyboardAssumption DEF IInv, Pair
<1>3. Start = kpb_last /\ kpb_last \in Pos
  BY <1>1, <1>2 DEF Start, Slot, Shape, TypeOK, Pos
<1>4. PICK n \in Nat :
        /\ n = Held /\ n > 0 /\ n < RING /\ At(1) = kpb_last
        /\ \A i \in 2 .. n : At(i) \in Pos /\ At(i) # kpb_last
  BY <1>1, <1>2, <1>3, HeldIs
<1>5. Held' = n /\ \A i : At(i)' = At(i)
  BY <1>1, <1>4, Still
<1>6. \A i \in 2 .. n : Cell'[i] = Cell[i]
  <2>1. Cell' = [i \in 1 .. RING |-> keybuf'[At(i)]]
    BY <1>5 DEF Cell
  <2>2. \A i \in 2 .. n : keybuf'[At(i)] = keybuf[At(i)]
    BY <1>1, <1>2, <1>4 DEF TypeOK
  <2> QED
    BY <1>2, <1>4, <2>1, <2>2 DEF Cell
<1>7. Cell[1] = keybuf[kpb_last]
  BY <1>2, <1>4 DEF Cell
<1>8. Read = 0 /\ Read' = 1
  BY <1>1 DEF Read
<1>9. PICK s \in Seq(Codes) :
        s = Queue /\ Len(s) = n /\ \A i \in 1 .. n : s[i] = Cell[i]
  BY <1>4, <1>8, QueueIs
<1>10. PICK t \in Seq(Codes) :
         t = Queue' /\ Len(t) = n - 1 /\ \A i \in 1 .. n - 1 : t[i] = Cell'[i + 1]
  BY <1>4, <1>5, <1>8, QueueIsNext
<1>11. Len(s) = Len(t) + 1 /\ \A i \in 1 .. Len(t) : t[i] = s[i + 1]
  BY <1>4, <1>6, <1>9, <1>10
<1>12. s # <<>> /\ t = Tail(s) /\ Head(s) = s[1]
  BY <1>11, IsTail, Zenon
<1>13. s[1] = key'
  BY <1>1, <1>4, <1>7, <1>9
<1> QED
  BY <1>9, <1>10, <1>12, <1>13

LEMMA QueuePut ==
  ASSUME WINDOW \in {0, 1}, IInv, IInv', RecordPublish
  PROVE  /\ codes # <<>> /\ Head(codes) \in Codes
         /\ Queue' = Append(Queue, Head(codes)) /\ Len(Queue) < RING - 1
<1>0. TypeOK /\ Shape /\ Room /\ Filled /\ RING \in Nat
  BY KeyboardAssumption DEF IInv, Pair
<1>1. /\ UNCHANGED <<kpb_last, rpc, keybuf>>
      /\ wpc = "publish" /\ kpb_first' = Succ(kpb_first) /\ codes # <<>>
      /\ keybuf[kpb_first] = Head(codes) /\ Head(codes) \in Codes
  BY <1>0 DEF RecordPublish, readVars, Shape, Filled, TypeOK
<1>2. PICK n \in Nat : n = Held /\ n <= RING - 2
  <2>1. Held \in Nat /\ Held + 1 <= IF rpc = "wrap" THEN RING - 2 + tests
                                                    ELSE RING - 1
    BY <1>0, <1>1, HeldIs DEF Room
  <2> QED
    BY <1>0, <2>1 DEF Shape, TypeOK
<1>3. Held' = n + 1 /\ At(n + 1) = kpb_first /\ \A i : At(i)' = At(i)
  BY <1>0, <1>1, <1>2, HeldWrite
<1>4. Cell' = Cell
  BY <1>1, <1>3 DEF Cell
<1>5. Cell[n + 1] = Head(codes)
  BY <1>0, <1>1, <1>2, <1>3 DEF Cell
<1>6. PICK d \in {0, 1} : d = Read /\ d = Read'
  BY <1>1 DEF Read
<1>7. PICK s \in Seq(Codes) :
        /\ s = Queue /\ Len(s) = n - d /\ n - d \in Nat
        /\ \A i \in 1 .. n - d : s[i] = Cell[i + d]
  BY <1>2, <1>6, QueueIs
<1>8. PICK t \in Seq(Codes) :
        /\ t = Queue' /\ Len(t) = (n + 1) - d
        /\ \A i \in 1 .. (n + 1) - d : t[i] = Cell[i + d]
  BY <1>3, <1>4, <1>6, QueueIsNext
<1>9. /\ Len(t) = Len(s) + 1 /\ \A i \in 1 .. Len(s) : t[i] = s[i]
      /\ t[Len(s) + 1] = Head(codes)
  <2>1. (n - d) + 1 \in 1 .. (n + 1) - d /\ ((n - d) + 1) + d = n + 1
    <3>1. CASE d = 0
      BY <1>2, <1>7, <3>1
    <3>2. CASE d = 1
      BY <1>2, <1>7, <3>2
    <3> QED
      BY <1>6, <3>1, <3>2
  <2>2. t[(n - d) + 1] = Cell[n + 1]
    BY <1>8, <2>1
  <2> QED
    BY <1>2, <1>5, <1>7, <1>8, <2>2
<1>10. t = Append(s, Head(codes))
  BY <1>1, <1>9, IsAppend
<1>11. Len(s) < RING - 1
  <2>1. CASE d = 0
    BY <1>0, <1>2, <1>7, <2>1
  <2>2. CASE d = 1
    BY <1>0, <1>2, <1>7, <2>2
  <2> QED
    BY <1>6, <2>1, <2>2
<1> QED
  BY <1>1, <1>7, <1>8, <1>10, <1>11

\* No other step changes it: not the store in a slot still free, nor the
\* reader's passing of the slot it has emptied.
LEMMA QueueKept ==
  ASSUME IInv, IInv', [Next]_vars, ~HsyncGet, ~RecordPublish
  PROVE  Queue' = Queue
<1>0. TypeOK /\ Shape /\ Room /\ RING \in Nat
  BY KeyboardAssumption DEF IInv, Pair
<1>1. ASSUME NEW n \in Nat, n = Held, n < RING,
             NEW d \in {0, 1}, d = Read, NEW e \in {0, 1}, e = Read',
             Held' - e = n - d,
             \A i \in 1 .. n - d : Cell'[i + e] = Cell[i + d]
      PROVE  Queue' = Queue
  BY <1>1, QueueIs, QueueIsNext
<1>2. PICK n \in Nat : n = Held /\ n < RING
  BY <1>0, HeldIs
<1>3. CASE UNCHANGED <<kpb_first, kpb_last, keybuf>> /\ Read' = Read
  <2>1. Held' = n /\ Cell' = Cell
    BY <1>2, <1>3, Still DEF Cell
  <2>2. PICK d \in {0, 1} : d = Read /\ d = Read'
    BY <1>3 DEF Read
  <2> QED
    BY <1>1, <1>2, <2>1, <2>2
<1>4. CASE RecordStore
  <2>1. /\ UNCHANGED <<kpb_first, kpb_last, rpc>>
        /\ keybuf' = [keybuf EXCEPT ![kpb_first] = Head(codes)]
    BY <1>4 DEF RecordStore, readVars
  <2>2. Held' = n /\ \A i : At(i)' = At(i)
    BY <1>2, <2>1, Still
  <2>3. \A i \in 1 .. n : Cell'[i] = Cell[i]
    <3>1. \A i \in 1 .. n : keybuf'[At(i)] = keybuf[At(i)]
      BY <1>0, <1>2, <2>1, HeldIs DEF TypeOK
    <3>2. Cell' = [i \in 1 .. RING |-> keybuf'[At(i)]]
      BY <2>2 DEF Cell
    <3> QED
      BY <1>0, <1>2, <3>1, <3>2 DEF Cell
  <2>4. PICK d \in {0, 1} : d = Read /\ d = Read' /\ n - d \in Nat
    BY <1>2, <2>1, QueueIs DEF Read
  <2> QED
    BY <1>1, <1>2, <2>2, <2>3, <2>4
<1>5. CASE GetAdvance
  <2>1. /\ UNCHANGED <<kpb_first, keybuf>> /\ kpb_last' = kpb_last + 1
        /\ Read = 1 /\ Read' = 0 /\ kpb_first # kpb_last /\ kpb_last \in Pos
    BY <1>0, <1>5 DEF GetAdvance, GiveKey, Read, Room, Shape, TypeOK, Pos
  <2>2. /\ n > 0 /\ Held' = n - 1
        /\ \A i \in 1 .. n - 1 : At(i)' = At(i + 1)
    BY <1>0, <1>2, <2>1, HeldRead
  <2>3. \A i \in 1 .. n - 1 : Cell'[i] = Cell[i + 1]
    <3>1. Cell' = [i \in 1 .. RING |-> keybuf[At(i)']]
      BY <2>1 DEF Cell
    <3> QED
      BY <1>0, <1>2, <2>2, <3>1 DEF Cell
  <2>4. \A i \in 1 .. n - 1 : Cell'[i + 0] = Cell[i + 1]
    BY <1>2, <2>3
  <2> QED
    BY <1>1, <1>2, <2>1, <2>2, <2>4
<1>6. CASE GetWrap
  <2>1. UNCHANGED <<kpb_first, keybuf>> /\ Start' = Start /\ Read' = Read
    BY <1>0, <1>6, KeyboardAssumption
       DEF GetWrap, GiveKey, Start, Slot, Shape, Read
  <2>2. Held' = n /\ Cell' = Cell
    BY <1>2, <2>1 DEF Held, At, Cell
  <2>3. PICK d \in {0, 1} : d = Read /\ d = Read'
    BY <2>1 DEF Read
  <2> QED
    BY <1>1, <1>2, <2>2, <2>3
<1>7. ASSUME NEW k \in Keys, NEW down \in BOOLEAN, NEW reset \in BOOLEAN,
             inputdevice_do_keyboard(k, down, reset)
      PROVE  UNCHANGED <<kpb_first, kpb_last, keybuf>> /\ Read' = Read
  BY <1>7 DEF inputdevice_do_keyboard, ringVars, readVars, Read
<1>8. CASE inputdevice_release_all_keys \/ RecordTest
  <2>1. UNCHANGED <<kpb_first, kpb_last, keybuf>> /\ Read' = Read
    BY <1>8 DEF inputdevice_release_all_keys, RecordTest, ringVars, readVars, Read
  <2> QED
    BY <1>3, <2>1
<1>9. CASE HsyncCounts \/ HsyncRests \/ HsyncWaits \/ HsyncPowerUp
  <2>1. UNCHANGED <<kpb_first, kpb_last, keybuf>> /\ Read' = Read
    BY <1>9 DEF HsyncCounts, HsyncRests, HsyncWaits, HsyncPowerUp, ringVars,
       readVars, Read
  <2> QED
    BY <1>3, <2>1
<1>10. CASE ReadSdr \/ WriteCra \/ CIA_reset \/ UNCHANGED vars
  <2>1. UNCHANGED <<kpb_first, kpb_last, keybuf>> /\ Read' = Read
    BY <1>10 DEF ReadSdr, WriteCra, CIA_reset, vars, ringVars, readVars, Read
  <2> QED
    BY <1>3, <2>1
<1> QED
  BY <1>3, <1>4, <1>5, <1>6, <1>7, <1>8, <1>9, <1>10
     DEF Next, record_key, CIA_hsync_handler

\* The ring keeps the order of the codes, loses none it has taken and gives
\* none twice, though the two sides share no lock and one of the indices is
\* stored twice when it wraps.
THEOREM RingIsAFifo ==
  ASSUME WINDOW \in {0, 1}
  PROVE  Spec => RingIsFifo
<1>1. Init => Fifo!Init
  <2> SUFFICES ASSUME Init PROVE Fifo!Init
    OBVIOUS
  <2>1. InRing = <<>>
    <3>1. TypeOK /\ Held = 0
      BY PairInit, KeyboardAssumption DEF Init, Pair, Held, Start, Slot
    <3>2. InRing \in Seq(Codes \cup {NoCode}) /\ Len(InRing) = 0
      BY <3>1, InRingIs
    <3> QED
      BY <3>2, EmptySeq
  <2>2. Queue = <<>>
    BY <2>1 DEF Init, Queue
  <2> QED
    BY <2>2 DEF Init, Fifo!Init
<1>2. IInv /\ IInv' /\ [Next]_vars => [Fifo!Next]_(Fifo!fifoVars)
  <2> SUFFICES ASSUME IInv, IInv', [Next]_vars
               PROVE  Fifo!Next \/ UNCHANGED Fifo!fifoVars
    OBVIOUS
  <2> USE DEF hostVars, ringVars, readVars, ciaVars, programVars
  <2>1. CASE HsyncGet
    <3>1. Queue # <<>> /\ key' = Head(Queue) /\ Queue' = Tail(Queue)
      BY <2>1, QueueGet
    <3>2. Fifo!Get
      BY <2>1, <3>1 DEF Fifo!Get, HsyncGet
    <3> QED
      BY <3>2 DEF Fifo!Next
  <2>2. CASE RecordPublish
    <3>1. /\ codes # <<>> /\ Head(codes) \in Codes
          /\ Queue' = Append(Queue, Head(codes)) /\ Len(Queue) < RING - 1
      BY <2>2, QueuePut
    <3>2. Head(codes) # NoCode
      BY <3>1, CodesAre
    <3>3. Fifo!Put("host")
      BY <2>2, <3>1, <3>2 DEF Fifo!Put, RecordPublish
    <3> QED
      BY <3>3 DEF Fifo!Next
  <2>3. CASE ~HsyncGet /\ ~RecordPublish
    <3>1. Queue' = Queue
      BY <2>3, QueueKept
    <3>2. key' = key
      BY <2>3 DEF Next, record_key, CIA_hsync_handler, inputdevice_do_keyboard,
         inputdevice_release_all_keys, RecordTest, RecordStore, HsyncCounts,
         HsyncRests, HsyncWaits, HsyncPowerUp, GetAdvance, GetWrap, ReadSdr,
         WriteCra, CIA_reset, vars
    <3>3. CASE RecordTest /\ wpc' = "store"
      <4>1. codes # <<>> /\ Head(codes) \in Codes /\ codes' = codes /\ wpc = "idle"
        BY <3>3 DEF RecordTest, IInv, Pair, TypeOK
      <4>2. Fifo!Ask("host", Head(codes))
        BY <3>1, <3>2, <3>3, <4>1 DEF Fifo!Ask
      <4> QED
        BY <4>1, <4>2 DEF Fifo!Next
    <3>4. CASE ~(RecordTest /\ wpc' = "store")
      <4>1. /\ wpc = "idle" <=> wpc' = "idle"
            /\ wpc # "idle" => codes' = codes
        BY <2>3, <3>4 DEF Next, record_key, CIA_hsync_handler,
           inputdevice_do_keyboard, inputdevice_release_all_keys, HostIdle,
           RecordTest, RecordStore, HsyncCounts, HsyncRests, HsyncWaits,
           HsyncPowerUp, GetAdvance, GetWrap, ReadSdr, WriteCra, CIA_reset, vars
      <4> QED
        BY <3>1, <3>2, <4>1 DEF Fifo!fifoVars
    <3> QED
      BY <3>3, <3>4
  <2> QED
    BY <2>1, <2>2, <2>3
<1>3. Spec => []IInv
  BY Invariance
<1> QED
  BY <1>1, <1>2, <1>3, PTL DEF Spec, RingIsFifo, Fifo!Spec


-----------------------------------------------------------------------------
(* The keys the program takes to be down.                                  *)

\* The last code of k in s says whether it is down; without one, P does.
Told(k, s, P) ==
  IF Of(k, s) = {} THEN k \in P
  ELSE \E i \in Of(k, s) : s[i].down /\ \A j \in Of(k, s) : j <= i

\* Later codes count, earlier ones only without them.
LEMMA ToldConcat ==
  ASSUME NEW k \in Keys, NEW s \in Seq(Codes), NEW r \in Seq(Codes), NEW P
  PROVE  Told(k, s \o r, P) <=> IF Of(k, r) = {} THEN Told(k, s, P)
                                                 ELSE Told(k, r, {})
<1>1. PICK n \in Nat, m \in Nat :
        /\ n = Len(s) /\ m = Len(r) /\ DOMAIN s = 1 .. n /\ DOMAIN r = 1 .. m
  BY LenProperties
<1>2. PICK u \in Seq(Codes) :
        /\ u = s \o r /\ Len(u) = n + m /\ DOMAIN u = 1 .. n + m
        /\ \A i \in 1 .. n : u[i] = s[i]
        /\ \A i \in 1 .. m : u[i + n] = r[i]
  <2>1. /\ s \o r \in Seq(Codes) /\ Len(s \o r) = n + m
        /\ \A i \in 1 .. n + m :
             (s \o r)[i] = IF i <= n THEN s[i] ELSE r[i - n]
    BY <1>1, ConcatProperties
  <2>2. DOMAIN (s \o r) = 1 .. n + m
    BY <2>1, LenProperties
  <2>3. \A i \in 1 .. n : (s \o r)[i] = s[i]
    BY <1>1, <2>1
  <2>4. ASSUME NEW i \in 1 .. m
        PROVE  (s \o r)[i + n] = r[i]
    <3>1. PICK j \in 1 .. n + m : j = i + n /\ ~(j <= n) /\ j - n = i
      BY <1>1
    <3> QED
      BY <2>1, <3>1
  <2> QED
    BY <2>1, <2>2, <2>3, <2>4
<1>3. /\ \A i \in 1 .. n : i \in Of(k, u) <=> i \in Of(k, s)
      /\ \A i \in 1 .. m : i + n \in Of(k, u) <=> i \in Of(k, r)
  <2>1. ASSUME NEW i \in 1 .. n PROVE i \in Of(k, u) <=> i \in Of(k, s)
    BY <1>1, <1>2 DEF Of
  <2>2. ASSUME NEW i \in 1 .. m PROVE i + n \in Of(k, u) <=> i \in Of(k, r)
    BY <1>1, <1>2 DEF Of
  <2> QED
    BY <2>1, <2>2
<1>4. /\ Of(k, u) \subseteq 1 .. n + m
      /\ Of(k, s) \subseteq 1 .. n /\ Of(k, r) \subseteq 1 .. m
  BY <1>1, <1>2 DEF Of
<1>5. \A i \in 1 .. n + m : i \in 1 .. n \/ (i - n \in 1 .. m /\ i = (i - n) + n)
  BY <1>1
<1>6. CASE Of(k, r) = {}
  <2>1. Of(k, u) = Of(k, s)
    <3>1. ASSUME NEW i \in Of(k, u) PROVE i \in Of(k, s)
      <4>1. i \in 1 .. n
        BY <1>3, <1>4, <1>5, <1>6
      <4> QED
        BY <1>3, <4>1
    <3>2. ASSUME NEW i \in Of(k, s) PROVE i \in Of(k, u)
      BY <1>3, <1>4
    <3> QED
      BY <3>1, <3>2
  <2>2. \A i \in Of(k, s) : u[i].down = s[i].down
    BY <1>2, <1>4
  <2> QED
    BY <1>2, <1>6, <2>1, <2>2, Zenon DEF Told
<1>7. CASE Of(k, r) # {}
  <2>1. PICK q \in Of(k, r) : q + n \in Of(k, u)
    BY <1>3, <1>4, <1>7
  <2>2. ASSUME NEW i \in Of(k, u), u[i].down, \A j \in Of(k, u) : j <= i
        PROVE  \E x \in Of(k, r) : r[x].down /\ \A j \in Of(k, r) : j <= x
    <3>1. i >= q + n /\ i \in Nat /\ q \in 1 .. m /\ i \in 1 .. n + m
      BY <1>1, <1>4, <2>1, <2>2
    <3>2. PICK x \in 1 .. m : i = x + n
      <4>1. i \notin 1 .. n
        BY <1>1, <3>1
      <4> QED
        BY <1>5, <3>1, <4>1
    <3>3. x \in Of(k, r) /\ r[x] = u[i]
      BY <1>2, <1>3, <3>2
    <3>4. ASSUME NEW j \in Of(k, r) PROVE j <= x
      <4>1. j \in 1 .. m /\ j + n \in Of(k, u)
        BY <1>3, <1>4
      <4>2. j + n <= x + n
        BY <2>2, <3>2, <4>1
      <4> QED
        BY <1>1, <3>2, <4>1, <4>2
    <3> QED
      BY <2>2, <3>3, <3>4
  <2>3. ASSUME NEW x \in Of(k, r), r[x].down, \A j \in Of(k, r) : j <= x
        PROVE  \E i \in Of(k, u) : u[i].down /\ \A j \in Of(k, u) : j <= i
    <3>1. x \in 1 .. m /\ x + n \in Of(k, u) /\ u[x + n] = r[x]
      BY <1>2, <1>3, <1>4
    <3>2. ASSUME NEW j \in Of(k, u) PROVE j <= x + n
      <4>1. j \in 1 .. n + m
        BY <1>4
      <4>2. CASE j \in 1 .. n
        BY <1>1, <3>1, <4>2
      <4>3. CASE j - n \in 1 .. m /\ j = (j - n) + n
        <5>1. PICK y \in 1 .. m : j = y + n
          BY <4>3
        <5>2. y <= x
          BY <1>3, <2>3, <5>1
        <5> QED
          BY <1>1, <3>1, <5>1, <5>2
      <4> QED
        BY <1>5, <4>1, <4>2, <4>3
    <3> QED
      BY <2>3, <3>1, <3>2
  <2>4. Told(k, u, P) <=>
          \E i \in Of(k, u) : u[i].down /\ \A j \in Of(k, u) : j <= i
    BY <2>1, Zenon DEF Told
  <2>5. Told(k, r, {}) <=>
          \E i \in Of(k, r) : r[i].down /\ \A j \in Of(k, r) : j <= i
    BY <1>7, Zenon DEF Told
  <2> QED
    BY <1>2, <1>7, <2>2, <2>3, <2>4, <2>5, Zenon
<1> QED
  BY <1>6, <1>7

LEMMA ToldOne ==
  ASSUME NEW k \in Keys, NEW c \in Codes, NEW P
  PROVE  /\ Of(k, <<c>>) = IF c.key = k THEN {1} ELSE {}
         /\ Told(k, <<c>>, P) <=> IF c.key = k THEN c.down ELSE k \in P
<1>1. DOMAIN <<c>> = {1} /\ <<c>>[1] = c
  OBVIOUS
<1>2. Of(k, <<c>>) = IF c.key = k THEN {1} ELSE {}
  BY <1>1 DEF Of
<1>3. CASE c.key = k
  <2>1. Of(k, <<c>>) = {1}
    BY <1>2, <1>3
  <2>2. \A j \in {1} : j <= 1
    OBVIOUS
  <2>3. Told(k, <<c>>, P) <=> <<c>>[1].down /\ \A j \in {1} : j <= 1
    BY <2>1, Zenon DEF Told
  <2> QED
    BY <1>1, <1>2, <1>3, <2>2, <2>3, Zenon
<1>4. CASE c.key # k
  BY <1>2, <1>4, Zenon DEF Told
<1> QED
  BY <1>3, <1>4

\* A code given to the program moves from those on the way into what it knows.
LEMMA ToldFirst ==
  ASSUME NEW k \in Keys, NEW c \in Codes, NEW s \in Seq(Codes),
         NEW P \in SUBSET Keys
  PROVE  Told(k, <<c>> \o s, P) <=> Told(k, s, AfterCode(P, c))
<1>1. Told(k, <<c>> \o s, P) <=> IF Of(k, s) = {} THEN Told(k, <<c>>, P)
                                                  ELSE Told(k, s, {})
  <2>1. <<c>> \in Seq(Codes)
    OBVIOUS
  <2> QED
    BY <2>1, ToldConcat, Zenon
<1>2. Told(k, <<c>>, P) <=> IF c.key = k THEN c.down ELSE k \in P
  BY ToldOne, Zenon
<1>3. P # Parted
  BY KeyboardAssumption DEF Parted
<1>4. AfterCode(P, c) = IF c.down THEN P \cup {c.key} ELSE P \ {c.key}
  BY <1>3 DEF AfterCode
<1>5. k \in AfterCode(P, c) <=> IF c.key = k THEN c.down ELSE k \in P
  BY <1>4, CodesAre
<1>6. CASE Of(k, s) = {}
  BY <1>1, <1>2, <1>5, <1>6, Zenon DEF Told
<1>7. CASE Of(k, s) # {}
  BY <1>1, <1>7, Zenon DEF Told
<1> QED
  BY <1>6, <1>7


\* The codes still to be given: the one being read, those in the ring, those
\* being recorded.
LEMMA OnTheWayIs ==
  IInv => /\ Queue \in Seq(Codes) /\ codes \in Seq(Codes)
          /\ rpc # "idle" => key \in Codes /\ OnTheWay = (<<key>> \o Queue) \o codes
          /\ rpc = "idle" => OnTheWay = Queue \o codes
          /\ OnTheWay \in Seq(Codes)
<1> SUFFICES ASSUME IInv
             PROVE  /\ Queue \in Seq(Codes) /\ codes \in Seq(Codes)
                    /\ rpc # "idle" => /\ key \in Codes
                                       /\ OnTheWay = (<<key>> \o Queue) \o codes
                    /\ rpc = "idle" => OnTheWay = Queue \o codes
                    /\ OnTheWay \in Seq(Codes)
  OBVIOUS
<1>1. Queue \in Seq(Codes) /\ codes \in Seq(Codes)
  BY QueueIs DEF IInv, Pair, TypeOK
<1>2. CASE rpc = "idle"
  <2>1. <<>> \o Queue = Queue
    BY <1>1, ConcatEmptySeq
  <2>2. OnTheWay = Queue \o codes
    BY <1>2, <2>1, Zenon DEF OnTheWay
  <2>3. Queue \o codes \in Seq(Codes)
    BY <1>1, ConcatProperties, Zenon
  <2> QED
    BY <1>1, <1>2, <2>2, <2>3
<1>3. CASE rpc # "idle"
  <2>1. key \in Codes
    BY <1>3 DEF IInv, Filled
  <2>2. OnTheWay = (<<key>> \o Queue) \o codes
    BY <1>3, Zenon DEF OnTheWay
  <2>3. <<key>> \in Seq(Codes)
    BY <2>1
  <2>4. (<<key>> \o Queue) \o codes \in Seq(Codes)
    BY <1>1, <2>3, ConcatProperties, Zenon
  <2> QED
    BY <1>1, <1>3, <2>1, <2>2, <2>4
<1> QED
  BY <1>2, <1>3

LEMMA OnTheWayNext ==
  ASSUME IInv'
  PROVE  /\ Queue' \in Seq(Codes) /\ codes' \in Seq(Codes)
         /\ rpc' # "idle" => /\ key' \in Codes
                             /\ OnTheWay' = (<<key'>> \o Queue') \o codes'
         /\ rpc' = "idle" => OnTheWay' = Queue' \o codes'
         /\ OnTheWay' \in Seq(Codes)
<1>1. (IInv => /\ Queue \in Seq(Codes) /\ codes \in Seq(Codes)
               /\ rpc # "idle" => key \in Codes /\ OnTheWay = (<<key>> \o Queue) \o codes
               /\ rpc = "idle" => OnTheWay = Queue \o codes
               /\ OnTheWay \in Seq(Codes))'
  BY OnTheWayIs, PTL
<1> QED
  BY <1>1

LEMMA Unhead ==
  ASSUME NEW T, NEW s \in Seq(T), s # <<>>
  PROVE  s = <<Head(s)>> \o Tail(s) /\ Head(s) \in T /\ Tail(s) \in Seq(T)
<1>1. PICK t \in Seq(T) :
        /\ t = Tail(s) /\ Len(t) = Len(s) - 1 /\ Head(s) \in T
        /\ \A i \in 1 .. Len(t) : t[i] = s[i + 1]
  BY HeadTailProperties
<1>2. PICK h \in T : h = Head(s) /\ h = s[1]
  BY <1>1
<1>3. PICK u \in Seq(T) :
        /\ u = <<h>> \o t /\ Len(u) = Len(s)
        /\ \A i \in 1 .. Len(s) : u[i] = IF i <= 1 THEN <<h>>[i] ELSE t[i - 1]
  <2>1. <<h>> \in Seq(T) /\ Len(<<h>>) = 1 /\ Len(s) \in Nat
    BY LenProperties
  <2>2. 1 + Len(t) = Len(s)
    BY <1>1, <2>1
  <2>3. /\ <<h>> \o t \in Seq(T) /\ Len(<<h>> \o t) = Len(<<h>>) + Len(t)
        /\ \A i \in 1 .. Len(<<h>>) + Len(t) :
             (<<h>> \o t)[i] = IF i <= Len(<<h>>) THEN <<h>>[i]
                                                   ELSE t[i - Len(<<h>>)]
    BY <2>1, ConcatProperties, Zenon
  <2> QED
    BY <2>1, <2>2, <2>3
<1>4. ASSUME NEW i \in 1 .. Len(s) PROVE u[i] = s[i]
  <2>1. Len(s) \in Nat
    BY LenProperties
  <2>2. CASE i = 1
    BY <1>2, <1>3, <2>2
  <2>3. CASE i # 1
    <3>1. i - 1 \in 1 .. Len(t) /\ (i - 1) + 1 = i /\ ~(i <= 1)
      BY <1>1, <2>1, <2>3
    <3>2. u[i] = t[i - 1] /\ t[i - 1] = s[(i - 1) + 1]
      BY <1>1, <1>3, <3>1
    <3> QED
      BY <3>1, <3>2
  <2> QED
    BY <2>2, <2>3
<1>5. u = s
  BY <1>3, <1>4, SeqEqual
<1> QED
  BY <1>1, <1>2, <1>3, <1>5

\* The codes on the way, before and after a step: a new one comes last, the
\* first is given, and nothing else happens to them.
LEMMA WayKept ==
  ASSUME WINDOW \in {0, 1}, IInv, IInv', [Next]_vars,
         HsyncGet \/ (key' = key /\ (rpc = "idle" <=> rpc' = "idle")),
         RecordPublish \/ codes' = codes
  PROVE  OnTheWay' = OnTheWay
<1>1. CASE HsyncGet
  <2>1. Queue # <<>> /\ key' = Head(Queue) /\ Queue' = Tail(Queue)
    BY <1>1, QueueGet
  <2>2. <<key'>> \o Queue' = Queue
    BY <2>1, QueueIs, Unhead
  <2>3. rpc = "idle" /\ rpc' # "idle" /\ codes' = codes
    BY <1>1 DEF HsyncGet, hostVars
  <2> QED
    BY <2>2, <2>3, OnTheWayIs, OnTheWayNext, Zenon
<1>2. CASE RecordPublish
  <2>1. /\ codes # <<>> /\ Head(codes) \in Codes
        /\ Queue' = Append(Queue, Head(codes))
    BY <1>2, QueuePut
  <2>2. rpc' = rpc /\ key' = key /\ codes' = Tail(codes)
    BY <1>2 DEF RecordPublish, readVars
  <2>3. /\ Queue \in Seq(Codes) /\ codes = <<Head(codes)>> \o codes'
        /\ codes' \in Seq(Codes) /\ codes \in Seq(Codes)
    BY <2>1, <2>2, Unhead, OnTheWayIs
  <2>4. Queue' = Queue \o <<Head(codes)>> /\ <<Head(codes)>> \in Seq(Codes)
    BY <2>1, <2>3, AppendIsConcat
  <2>5. Queue' \o codes' = Queue \o codes
    <3>1. PICK q \in Seq(Codes), h \in Seq(Codes), t \in Seq(Codes) :
            q = Queue /\ h = <<Head(codes)>> /\ t = codes'
      BY <2>3, <2>4
    <3>2. (q \o h) \o t = q \o (h \o t)
      BY ConcatAssociative
    <3> QED
      BY <2>3, <2>4, <3>1, <3>2, Zenon
  <2>6. CASE rpc = "idle"
    BY <2>2, <2>5, <2>6, OnTheWayIs, OnTheWayNext, Zenon
  <2>7. CASE rpc # "idle"
    <3>1. <<key>> \in Seq(Codes)
      BY <2>7, OnTheWayIs
    <3>2. (<<key>> \o Queue) \o codes = <<key>> \o (Queue \o codes)
      BY <2>3, <3>1, ConcatAssociative
    <3>3. Queue' \in Seq(Codes)
      BY OnTheWayNext
    <3>4. (<<key>> \o Queue') \o codes' = <<key>> \o (Queue' \o codes')
      BY <2>3, <3>1, <3>3, ConcatAssociative
    <3> QED
      BY <2>2, <2>5, <2>7, <3>2, <3>4, OnTheWayIs, OnTheWayNext, Zenon
  <2> QED
    BY <2>6, <2>7
<1>3. CASE ~HsyncGet /\ ~RecordPublish
  <2>1. Queue' = Queue
    BY <1>3, QueueKept
  <2>2. codes' = codes /\ key' = key /\ (rpc = "idle" <=> rpc' = "idle")
    BY <1>3
  <2> QED
    BY <2>1, <2>2, Zenon DEF OnTheWay
<1> QED
  BY <1>1, <1>2, <1>3


\* What KeysAgree says of a state, in terms of what is on the way.
Agree(down, way, P) ==
  P # Parted => \A k \in Keys : k \in down <=> Told(k, way, P)

LEMMA AgreeIs ==
  /\ KeysAgree <=> Agree(keydown, OnTheWay, pressed)
  /\ KeysAgree' <=> Agree(keydown', OnTheWay', pressed')
BY Zenon DEF KeysAgree, Agree, DownAfter, Told, Of

\* What the host starts to record comes after all that is on the way.
LEMMA WayGrows ==
  ASSUME IInv, IInv', codes = <<>>, Queue' = Queue, rpc' = rpc, key' = key
  PROVE  OnTheWay' = OnTheWay \o codes'
<1>1. PICK a \in Seq(Codes) :
        a = IF rpc = "idle" THEN Queue ELSE <<key>> \o Queue
  <2>1. CASE rpc = "idle"
    BY <2>1, OnTheWayIs
  <2>2. CASE rpc # "idle"
    <3>1. <<key>> \in Seq(Codes)
      BY <2>2, OnTheWayIs
    <3>2. <<key>> \o Queue \in Seq(Codes)
      BY <3>1, OnTheWayIs, ConcatProperties, Zenon
    <3> QED
      BY <2>2, <3>2
  <2> QED
    BY <2>1, <2>2
<1>2. OnTheWay = a \o codes /\ OnTheWay' = a \o codes'
  <2>1. CASE rpc = "idle"
    BY <1>1, <2>1, OnTheWayIs, OnTheWayNext, Zenon
  <2>2. CASE rpc # "idle"
    BY <1>1, <2>2, OnTheWayIs, OnTheWayNext, Zenon
  <2> QED
    BY <2>1, <2>2
<1>3. a \o <<>> = a
  BY ConcatEmptySeq
<1> QED
  BY <1>2, <1>3

\* A key pressed or released is the last of the codes on the way.
LEMMA AgreeKey ==
  ASSUME WINDOW \in {0, 1}, IInv, IInv', KeysAgree,
         NEW k \in Keys, NEW down \in BOOLEAN, NEW reset \in BOOLEAN,
         inputdevice_do_keyboard(k, down, reset)
  PROVE  KeysAgree'
<1>1. PICK c \in Codes :
        c = [key |-> k, down |-> down] /\ c.key = k /\ c.down = down
  BY CodesAre
<1>2. codes = <<>> /\ codes' = <<c>> /\ <<c>> \in Seq(Codes) /\ rpc' = rpc /\ key' = key
  BY <1>1 DEF inputdevice_do_keyboard, HostIdle, readVars
<1>3. Queue' = Queue
  <2>1. ~HsyncGet /\ ~RecordPublish
    BY <1>2 DEF RecordPublish, HsyncGet, hostVars
  <2>2. Next
    BY DEF Next
  <2> QED
    BY <2>1, <2>2, QueueKept
<1>4. PICK w \in Seq(Codes) : w = OnTheWay /\ OnTheWay' = w \o <<c>>
  BY <1>2, <1>3, WayGrows, OnTheWayIs, Zenon
<1>5. CASE reset
  BY <1>5, AgreeIs DEF inputdevice_do_keyboard, Agree
<1>6. CASE ~reset
  <2>1. /\ pressed' = pressed
        /\ keydown' = IF down THEN keydown \cup {k} ELSE keydown \ {k}
    BY <1>6 DEF inputdevice_do_keyboard
  <2>2. ASSUME pressed # Parted, NEW x \in Keys
        PROVE  x \in keydown' <=> Told(x, w \o <<c>>, pressed)
    <3>1. x \in keydown <=> Told(x, w, pressed)
      BY <1>4, <2>2, AgreeIs, Zenon DEF Agree
    <3>2. Told(x, w \o <<c>>, pressed) <=>
            IF Of(x, <<c>>) = {} THEN Told(x, w, pressed) ELSE Told(x, <<c>>, {})
      BY <1>2, ToldConcat, Zenon
    <3>3. CASE x = k
      <4>1. Of(x, <<c>>) # {} /\ (Told(x, <<c>>, {}) <=> down)
        <5>1. Of(x, <<c>>) = {1} /\ (Told(x, <<c>>, {}) <=> c.down)
          BY <1>1, <3>3, ToldOne, Zenon
        <5> QED
          BY <1>1, <5>1
      <4>2. x \in keydown' <=> down
        BY <2>1, <3>3
      <4> QED
        BY <3>2, <4>1, <4>2, Zenon
    <3>4. CASE x # k
      <4>1. Of(x, <<c>>) = {}
        BY <1>1, <3>4, ToldOne, Zenon
      <4>2. x \in keydown' <=> x \in keydown
        BY <2>1, <3>4
      <4> QED
        BY <3>1, <3>2, <4>1, <4>2, Zenon
    <3> QED
      BY <3>3, <3>4
  <2> QED
    BY <1>4, <2>1, <2>2, AgreeIs, Zenon DEF Agree
<1> QED
  BY <1>5, <1>6


\* All keys released: each has a release at the end of the codes on the way.
LEMMA AgreeRelease ==
  ASSUME WINDOW \in {0, 1}, IInv, IInv', KeysAgree, inputdevice_release_all_keys
  PROVE  KeysAgree'
<1>1. /\ codes = <<>> /\ rpc' = rpc /\ key' = key /\ keydown' = {}
      /\ pressed' = pressed
  BY DEF inputdevice_release_all_keys, HostIdle, readVars
<1>2. PICK s \in [1 .. Cardinality(keydown) -> keydown] :
        /\ Range(s) = keydown
        /\ codes' = [i \in DOMAIN s |-> [key |-> s[i], down |-> FALSE]]
  BY DEF inputdevice_release_all_keys
<1>3. PICK r \in Seq(Codes), n \in Nat :
        /\ r = codes' /\ DOMAIN r = 1 .. n /\ DOMAIN s = 1 .. n
        /\ \A i \in 1 .. n : r[i] = [key |-> s[i], down |-> FALSE]
  <2>1. TypeOK
    BY DEF IInv, Pair
  <2>2. PICK m \in Nat : m = Cardinality(keydown)
    BY <1>2, <2>1, ReleaseIs
  <2>3. PICK q \in Seq(Codes) :
          /\ q = codes' /\ Len(q) = m
          /\ \A i \in 1 .. m : q[i] = [key |-> s[i], down |-> FALSE]
    BY <1>2, <2>1, <2>2, ReleaseIs
  <2>4. DOMAIN q = 1 .. m /\ DOMAIN s = 1 .. m
    BY <2>2, <2>3, LenProperties
  <2> QED
    BY <2>3, <2>4
<1>4. \A i \in 1 .. n : r[i].key = s[i] /\ r[i].down = FALSE
  BY <1>3
<1>5. Queue' = Queue
  <2>1. ~HsyncGet /\ ~RecordPublish
    BY <1>1 DEF RecordPublish, HsyncGet, inputdevice_release_all_keys, HostIdle
  <2>2. Next
    BY DEF Next
  <2> QED
    BY <2>1, <2>2, QueueKept
<1>6. PICK w \in Seq(Codes) : w = OnTheWay /\ OnTheWay' = w \o r
  BY <1>1, <1>3, <1>5, WayGrows, OnTheWayIs, Zenon
<1>7. ASSUME pressed # Parted, NEW x \in Keys
      PROVE  ~Told(x, w \o r, pressed)
  <2>1. x \in keydown <=> Told(x, w, pressed)
    BY <1>6, <1>7, AgreeIs, Zenon DEF Agree
  <2>2. Told(x, w \o r, pressed) <=>
          IF Of(x, r) = {} THEN Told(x, w, pressed) ELSE Told(x, r, {})
    BY ToldConcat, Zenon
  <2>3. CASE x \in keydown
    <3>1. PICK i \in 1 .. n : s[i] = x
      BY <1>2, <1>3, <2>3 DEF Range
    <3>2. i \in Of(x, r)
      BY <1>3, <1>4, <3>1 DEF Of
    <3>3. ~Told(x, r, {})
      <4>1. \A j \in Of(x, r) : j \in 1 .. n
        BY <1>3 DEF Of
      <4>2. \A j \in Of(x, r) : ~r[j].down
        BY <1>4, <4>1
      <4> QED
        BY <3>2, <4>2, Zenon DEF Told
    <3> QED
      BY <2>2, <3>2, <3>3, Zenon
  <2>4. CASE x \notin keydown
    <3>1. Of(x, r) = {}
      <4>1. ASSUME NEW i \in 1 .. n PROVE r[i].key # x
        <5>1. s[i] \in keydown
          BY <1>3
        <5> QED
          BY <1>4, <2>4, <5>1
      <4> QED
        BY <1>3, <4>1 DEF Of
    <3> QED
      BY <2>1, <2>2, <2>4, <3>1, Zenon
  <2> QED
    BY <2>3, <2>4
<1> QED
  BY <1>1, <1>6, <1>7, AgreeIs, Zenon DEF Agree

\* A code given to the program.
LEMMA AgreeGive ==
  ASSUME WINDOW \in {0, 1}, IInv, IInv', KeysAgree, GetAdvance \/ GetWrap,
         rpc' = "idle"
  PROVE  KeysAgree'
<1>1. /\ rpc # "idle" /\ codes' = codes /\ keydown' = keydown
      /\ pressed' = AfterCode(pressed, key)
  <2>1. CASE GetAdvance
    BY <2>1 DEF GetAdvance, GiveKey, hostVars
  <2>2. CASE GetWrap
    BY <2>2 DEF GetWrap, GiveKey, hostVars
  <2> QED
    BY <2>1, <2>2
<1>2. Queue' = Queue
  <2>1. ~HsyncGet /\ ~RecordPublish
    BY <1>1 DEF RecordPublish, HsyncGet, readVars
  <2>2. Next
    BY DEF Next, CIA_hsync_handler
  <2> QED
    BY <2>1, <2>2, QueueKept
<1>3. PICK c \in Codes, q \in Seq(Codes), t \in Seq(Codes) :
        c = key /\ q = Queue /\ t = codes
  BY <1>1, OnTheWayIs
<1>4. PICK v \in Seq(Codes) : v = q \o t
  BY ConcatProperties
<1>5. OnTheWay = <<c>> \o v
  <2>1. OnTheWay = (<<c>> \o q) \o t
    BY <1>1, <1>3, OnTheWayIs, Zenon
  <2>2. <<c>> \in Seq(Codes)
    OBVIOUS
  <2>3. (<<c>> \o q) \o t = <<c>> \o (q \o t)
    BY <2>2, ConcatAssociative
  <2> QED
    BY <1>4, <2>1, <2>3, Zenon
<1>6. OnTheWay' = v
  BY <1>1, <1>2, <1>3, <1>4, OnTheWayNext, Zenon
<1>7. CASE pressed = Parted
  BY <1>1, <1>7, AgreeIs DEF AfterCode, Agree
<1>8. CASE pressed # Parted
  <2>1. PICK P \in SUBSET Keys : P = pressed
    BY <1>8 DEF IInv, Filled
  <2>2. \A x \in Keys : x \in keydown <=> Told(x, <<c>> \o v, P)
    BY <1>5, <1>8, <2>1, AgreeIs, Zenon DEF Agree
  <2>3. \A x \in Keys : x \in keydown <=> Told(x, v, AfterCode(P, c))
    BY <2>2, ToldFirst, Zenon
  <2> QED
    BY <1>1, <1>3, <1>6, <2>1, <2>3, AgreeIs, Zenon DEF Agree
<1> QED
  BY <1>7, <1>8

\* What the program was told, with the codes still on their way, gives the
\* keys the user holds, after any number of presses, releases, resets of the
\* machine and hand-shakes, unless a code was dropped or a reset by the
\* keyboard forgot the keys.
THEOREM KeysStayTrue ==
  ASSUME WINDOW \in {0, 1}
  PROVE  Spec => []KeysAgree
<1>1. Init => KeysAgree
  <2> SUFFICES ASSUME Init PROVE KeysAgree
    OBVIOUS
  <2>1. IInv
    BY InvInit
  <2>2. Queue = <<>>
    <3>1. Held = 0 /\ Read = 0
      BY KeyboardAssumption DEF Init, Held, Start, Slot, Read
    <3> QED
      BY <2>1, <3>1, QueueIs, EmptySeq
  <2>3. OnTheWay = <<>>
    BY <2>2 DEF Init, OnTheWay
  <2>4. \A k \in Keys : Of(k, <<>>) = {}
    BY DEF Of
  <2> QED
    BY <2>3, <2>4 DEF Init, KeysAgree, DownAfter
<1>2. ASSUME IInv, IInv', KeysAgree, [Next]_vars
      PROVE  KeysAgree'
  <2> USE <1>2
  <2> USE DEF hostVars, ringVars, readVars, ciaVars, programVars
  <2>1. ASSUME NEW k \in Keys, NEW down \in BOOLEAN, NEW reset \in BOOLEAN,
               inputdevice_do_keyboard(k, down, reset)
        PROVE  KeysAgree'
    BY <2>1, AgreeKey
  <2>2. CASE inputdevice_release_all_keys
    BY <2>2, AgreeRelease
  <2>3. CASE (GetAdvance \/ GetWrap) /\ rpc' = "idle"
    BY <2>3, AgreeGive
  <2>4. ASSUME /\ keydown' = keydown /\ pressed' = pressed
               /\ HsyncGet \/ (key' = key /\ (rpc = "idle" <=> rpc' = "idle"))
               /\ RecordPublish \/ codes' = codes
        PROVE  KeysAgree'
    <3>1. OnTheWay' = OnTheWay
      BY <2>4, WayKept
    <3> QED
      BY <2>4, <3>1, AgreeIs, Zenon
  <2>5. CASE record_key
    <3>1. CASE RecordTest
      <4>1. CASE Full
        BY <3>1, <4>1, AgreeIs DEF RecordTest, Agree
      <4>2. CASE ~Full
        BY <2>4, <3>1, <4>2 DEF RecordTest
      <4> QED
        BY <4>1, <4>2
    <3>2. CASE RecordStore
      BY <2>4, <3>2 DEF RecordStore
    <3>3. CASE RecordPublish
      BY <2>4, <3>3 DEF RecordPublish
    <3> QED
      BY <2>5, <3>1, <3>2, <3>3 DEF record_key
  <2>6. CASE HsyncCounts \/ HsyncRests \/ HsyncWaits \/ HsyncPowerUp \/ HsyncGet
    BY <2>4, <2>6 DEF HsyncCounts, HsyncRests, HsyncWaits, HsyncPowerUp, HsyncGet
  <2>7. CASE (GetAdvance \/ GetWrap) /\ rpc' # "idle"
    BY <2>4, <2>7 DEF GetAdvance, GetWrap, GiveKey
  <2>8. CASE ReadSdr \/ WriteCra \/ CIA_reset \/ UNCHANGED vars
    BY <2>4, <2>8 DEF ReadSdr, WriteCra, CIA_reset, vars
  <2> QED
    BY <2>1, <2>2, <2>3, <2>5, <2>6, <2>7, <2>8 DEF Next, CIA_hsync_handler
<1>3. Spec => []IInv
  BY Invariance
<1> QED
  BY <1>1, <1>2, <1>3, PTL DEF Spec
=============================================================================
