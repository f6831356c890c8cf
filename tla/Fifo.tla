-------------------------------- MODULE Fifo --------------------------------
(***************************************************************************)
(* What a communication pipe of include/commpipe.h promises the threads    *)
(* that use it: a bounded first-in first-out queue of words.  A writer     *)
(* asks for one word to be sent, the word is put at the end of the queue   *)
(* at one instant during the call, and the reader receives the words in    *)
(* the order in which they were put, each exactly once.                    *)
(***************************************************************************)
EXTENDS Naturals, Sequences

CONSTANTS Writers,      \* the threads that write
          Words,        \* the values a word can have
          Capacity,     \* how many words the queue holds
          NoWord        \* "no word": not a member of Words

VARIABLES asked,        \* the word each writer has asked to send, or NoWord
          queue,        \* the words sent and not yet received
          got           \* the word received last

fifoVars == <<asked, queue, got>>

Init ==
  /\ asked = [w \in Writers |-> NoWord]
  /\ queue = <<>>
  /\ got = NoWord

Ask(w, v) ==
  /\ asked[w] = NoWord
  /\ asked' = [asked EXCEPT ![w] = v]
  /\ UNCHANGED <<queue, got>>

Put(w) ==
  /\ asked[w] # NoWord
  /\ Len(queue) < Capacity
  /\ queue' = Append(queue, asked[w])
  /\ asked' = [asked EXCEPT ![w] = NoWord]
  /\ UNCHANGED got

Get ==
  /\ queue # <<>>
  /\ got' = Head(queue)
  /\ queue' = Tail(queue)
  /\ UNCHANGED asked

Next == \/ \E w \in Writers : Put(w) \/ \E v \in Words : Ask(w, v)
        \/ Get

Spec == Init /\ [][Next]_fifoVars
=============================================================================
