----------------------- MODULE FilesysPackets_proofs ------------------------
(***************************************************************************)
(* Theorems about the path of DOS packets (FilesysPackets), for any number *)
(* of units and packets, limit of started commands and size of the pipes,  *)
(* with resets.                                                            *)
(***************************************************************************)
EXTENDS FilesysPackets, FiniteSetTheorems, SequenceTheorems, TLAPS

-----------------------------------------------------------------------------
(* The inductive invariant.                                                *)

Of(u) == {p \in Packets : UnitOf[p] = u}

\* Units do not mix: what a unit's port, list and pipe hold was sent to it.
Contents ==
  /\ complete \in [Units -> Nat] /\ acked \in [Units -> Nat]
  /\ sent \in [Units -> Nat]
  /\ \A u \in Units : /\ port[u] \in Seq(Of(u) \cup {Dummy})
                      /\ queue[u] \in Seq(Of(u))
                      /\ words[u] \in Seq(Of(u) \cup {Death})
                      /\ unitPipe[u] \in Seq(Of(u) \cup {Death})
                      /\ Holds(u) => msg[u] \in Of(u)
                      /\ task[u] = "scan" => scan[u] >= 1

\* A trap is where its task waits for it; it has started no more commands
\* than the limit, and its packet is not marked.
TrapPlace ==
  /\ \A u \in Units :
       /\ task[u] = "trap" <=> emu \in {"count", "write"} /\ emuUnit = u
       /\ task[u] = "trap" => d5[u] < Limit
  /\ emu \in {"count", "write"} => emuUnit \in Units
  /\ emu = "count" => written = 0
  /\ emu = "write" => written <= 2 /\ status[msg[emuUnit]] = 0

\* The reset takes the threads down one after the other.
ResetOrder ==
  /\ emu = "reset" => emuUnit \in Units /\ resets < MaxResets
  /\ \A u \in Units :
       /\ goDown[u] = 1 <=> emu = "reset" /\ u <= emuUnit
       /\ emu = "reset" /\ u < emuUnit => thread[u] = "gone"
       /\ syncSem[u] > 0 => thread[u] = "gone"

\* Words of the command that a trap is writing.
Partial(u) == IF emu = "write" /\ emuUnit = u THEN written ELSE 0
Pipe(u) == words[u] \o unitPipe[u]
PastHandle(u) == thread[u] \in {"sent", "int", "count", "back"}

\* A packet whose command the task has started.
Started(u, p) ==
  /\ \/ \E i \in 1 .. Len(queue[u]) : queue[u][i] = p
     \/ p \in replied
     \/ task[u] = "enqueue" /\ p = msg[u]
  /\ status[p] # 1

\* unit_pipe holds whole commands that were started, and what the trap that is
\* running has written.
PipeWords ==
  \A u \in Units :
    /\ Len(words[u]) <= 3 /\ Len(unitPipe[u]) <= UnitCap
    /\ PastHandle(u) => words[u] = <<>>
    /\ goDown[u] = 0 =>
         /\ \E k \in 0 .. UnitCap + 3 : Len(Pipe(u)) = 3 * k + Partial(u)
         /\ \A i \in 1 .. Len(Pipe(u)) :
              IF i <= Len(Pipe(u)) - Partial(u) THEN Started(u, Pipe(u)[i])
                                                ELSE Pipe(u)[i] = msg[u]

Count(S, s) == Cardinality({i \in 1 .. Len(s) : s[i] \in S})
Marked(x) == {p \in Packets : status[p] = x}

\* The commands that no thread has carried out.
Undone(u) == Count(Marked(0), queue[u])
             + (IF task[u] = "enqueue" /\ status[msg[u]] = 0 THEN 1 ELSE 0)

\* Every command in unit_pipe is one that is not done; and the locks on their
\* way back, with those of the commands in unit_pipe, are bounded.
LocksBound ==
  \A u \in Units :
    /\ goDown[u] = 0 => Len(Pipe(u)) <= 3 * Undone(u) + Partial(u)
    /\ 3 * (backPipe[u] + (IF PastHandle(u) THEN 1 ELSE 0))
         + (IF goDown[u] = 0 THEN Len(Pipe(u)) - Partial(u) ELSE 0)
       <= 3 * (Limit + Spare + (IF task[u] = "scan" THEN 0 ELSE d5[u]))

\* A completed command that the task has not seen is to be signalled, and the
\* signal is on its way.
Unseen(u) ==
  \/ task[u] = "enqueue" /\ status[msg[u]] = -1
  \/ \E i \in 1 .. Len(queue[u]) : /\ status[queue[u][i]] = -1
                                   /\ ~(task[u] = "scan" /\ scan[u] <= i)
Signalled ==
  \A u \in Units : Unseen(u) =>
    /\ thread[u] = "sent" \/ acked[u] # sent[u] \/ acked[u] # complete[u]
    /\ \/ thread[u] \in {"sent", "int"} \/ intRequested = 1
       \/ server = "loop" /\ unitNo <= u
       \/ acked[u] # complete[u]

\* The words that active_fs_packets counts, three for each command: read by
\* the thread, in unit_pipe, with the thread, or still to be written.
Places == Units \X (1 .. 4) \X (1 .. UnitCap + 3)
InFlight ==
  {x \in Places :
     LET u == x[1]
         i == x[3]
     IN \/ x[2] = 1 /\ goDown[u] = 0 /\ i <= Len(words[u])
        \/ x[2] = 2 /\ goDown[u] = 0 /\ i <= Len(unitPipe[u])
        \/ x[2] = 3 /\ thread[u] \in {"sent", "int", "count"} /\ i <= 3
        \/ x[2] = 4 /\ emu = "write" /\ emuUnit = u /\ written < i /\ i <= 3}

Balance ==
  /\ Cardinality(InFlight) <= 3 * active
  /\ emu # "reset" /\ resets = 0 => Cardinality(InFlight) = 3 * active

IInv == /\ TypeOK /\ Contents /\ TrapPlace /\ ResetOrder /\ PipeWords
        /\ PacketInOnePlace /\ OneDummy /\ AnsweredWhenDone /\ D5Counts
        /\ LocksBound /\ Signalled /\ Balance

-----------------------------------------------------------------------------
(* Sequences: what Append, Tail, RemoveAt and a new head change.           *)

\* GetMsg and the threads' reads take the head of a queue.
LEMMA TailIs ==
  ASSUME NEW T, NEW s \in Seq(T), s # <<>>
  PROVE  /\ Tail(s) \in Seq(T) /\ Len(Tail(s)) = Len(s) - 1 /\ Len(s) \in Nat \ {0}
         /\ Head(s) = s[1] /\ s[1] \in T
         /\ \A i \in 1 .. Len(Tail(s)) : Tail(s)[i] = s[i + 1]
<1>1. Len(s) \in Nat \ {0}
  BY EmptySeq
<1>2. /\ Tail(s) \in Seq(T) /\ Len(Tail(s)) = Len(s) - 1
      /\ \A i \in 1 .. Len(Tail(s)) : Tail(s)[i] = s[i + 1]
  BY HeadTailProperties
<1>3. Head(s) = s[1] /\ s[1] \in T
  BY <1>1, ElementOfSeq
<1> QED
  BY <1>1, <1>2, <1>3

\* The Amiga list without the command that FSML_check_old unlinks.
LEMMA RemoveAtIs ==
  ASSUME NEW T, NEW s \in Seq(T), NEW k \in 1 .. Len(s)
  PROVE  /\ RemoveAt(s, k) \in Seq(T) /\ Len(RemoveAt(s, k)) = Len(s) - 1
         /\ \A i \in 1 .. Len(s) - 1 :
              RemoveAt(s, k)[i] = IF i < k THEN s[i] ELSE s[i + 1]
<1> DEFINE a == SubSeq(s, 1, k - 1)
           b == SubSeq(s, k + 1, Len(s))
<1>1. Len(s) \in Nat /\ k \in Nat /\ k >= 1 /\ k <= Len(s)
      /\ \A i \in 1 .. Len(s) : s[i] \in T
  BY LenProperties, ElementOfSeq
<1>2. /\ a \in Seq(T) /\ Len(a) = k - 1
      /\ \A i \in 1 .. k - 1 : a[i] = s[i]
  <2>1. \A i \in 1 .. k - 1 : s[i] \in T
    BY <1>1
  <2>2. /\ a \in Seq(T) /\ Len(a) = IF 1 <= k - 1 THEN (k - 1) - 1 + 1 ELSE 0
        /\ \A i \in 1 .. (k - 1) - 1 + 1 : a[i] = s[1 + i - 1]
    BY <1>1, <2>1, SubSeqProperties
  <2> QED
    BY <1>1, <2>2
<1>3. /\ b \in Seq(T) /\ Len(b) = Len(s) - k
      /\ \A i \in 1 .. Len(s) - k : b[i] = s[k + i]
  <2>1. \A i \in k + 1 .. Len(s) : s[i] \in T
    BY <1>1
  <2>2. /\ b \in Seq(T)
        /\ Len(b) = IF k + 1 <= Len(s) THEN Len(s) - (k + 1) + 1 ELSE 0
        /\ \A i \in 1 .. Len(s) - (k + 1) + 1 : b[i] = s[(k + 1) + i - 1]
    BY <1>1, <2>1, SubSeqProperties
  <2> QED
    BY <1>1, <2>2
<1> HIDE DEF a, b
<1>4. /\ a \o b \in Seq(T) /\ Len(a \o b) = Len(a) + Len(b)
      /\ \A i \in 1 .. Len(a) + Len(b) :
           (a \o b)[i] = IF i <= Len(a) THEN a[i] ELSE b[i - Len(a)]
  BY <1>2, <1>3, ConcatProperties
<1>5. RemoveAt(s, k) = a \o b
  BY DEF RemoveAt, a, b
<1>6. ASSUME NEW i \in 1 .. Len(s) - 1
      PROVE  (a \o b)[i] = IF i < k THEN s[i] ELSE s[i + 1]
  <2>1. CASE i < k
    BY <1>1, <1>2, <1>3, <1>4, <2>1
  <2>2. CASE i >= k
    <3>1. (a \o b)[i] = b[i - (k - 1)] /\ i - (k - 1) \in 1 .. Len(s) - k
      BY <1>1, <1>2, <1>3, <1>4, <2>2
    <3>2. b[i - (k - 1)] = s[k + (i - (k - 1))] /\ k + (i - (k - 1)) = i + 1
      BY <1>1, <1>3, <3>1
    <3> QED
      BY <1>1, <2>2, <3>1, <3>2
  <2>3. i < k \/ i >= k
    BY <1>1
  <2> QED
    BY <2>1, <2>2, <2>3
<1> QED
  BY <1>1, <1>2, <1>3, <1>4, <1>5, <1>6

\* Enqueue: a command goes to the head of the list.
LEMMA PrependIs ==
  ASSUME NEW T, NEW s \in Seq(T), NEW e \in T
  PROVE  /\ <<e>> \o s \in Seq(T) /\ Len(<<e>> \o s) = Len(s) + 1
         /\ (<<e>> \o s)[1] = e
         /\ \A i \in 1 .. Len(s) : (<<e>> \o s)[i + 1] = s[i]
<1>1. <<e>> \in Seq(T) /\ Len(<<e>>) = 1 /\ <<e>>[1] = e /\ Len(s) \in Nat
  BY LenProperties
<1>2. /\ <<e>> \o s \in Seq(T) /\ Len(<<e>> \o s) = 1 + Len(s)
      /\ \A i \in 1 .. 1 + Len(s) :
           (<<e>> \o s)[i] = IF i <= 1 THEN <<e>>[i] ELSE s[i - 1]
  BY <1>1, ConcatProperties
<1> QED
  BY <1>1, <1>2

-----------------------------------------------------------------------------
(* How many elements of a sequence lie in a set.                           *)

At(S, s) == {i \in 1 .. Len(s) : s[i] \in S}

\* Positions are counted by natural numbers.
LEMMA CountType ==
  ASSUME NEW T, NEW s \in Seq(T), NEW S
  PROVE  /\ Count(S, s) \in Nat /\ IsFiniteSet(At(S, s))
         /\ Count(S, s) = Cardinality(At(S, s))
         /\ (Count(S, s) = 0 <=> \A i \in 1 .. Len(s) : s[i] \notin S)
<1>1. IsFiniteSet(1 .. Len(s))
  BY LenProperties, FS_Interval
<1>2. At(S, s) \in SUBSET (1 .. Len(s))
  BY DEF At
<1>3. IsFiniteSet(At(S, s))
  BY <1>1, <1>2, FS_Subset
<1>4. Cardinality(At(S, s)) \in Nat
      /\ (Cardinality(At(S, s)) = 0 <=> At(S, s) = {})
  BY <1>3, FS_CardinalityType, FS_EmptySet
<1>5. Count(S, s) = Cardinality(At(S, s))
  BY DEF Count, At
<1>6. At(S, s) = {} <=> \A i \in 1 .. Len(s) : s[i] \notin S
  BY DEF At
<1> QED
  BY <1>3, <1>4, <1>5, <1>6

\* Taking out one element lowers the count if the element counts.
LEMMA CountOut ==
  ASSUME NEW T, NEW s \in Seq(T), NEW t \in Seq(T), NEW k \in 1 .. Len(s),
         Len(s) = Len(t) + 1,
         \A i \in 1 .. Len(t) : t[i] = IF i < k THEN s[i] ELSE s[i + 1], NEW S
  PROVE  Count(S, s) = Count(S, t) + (IF s[k] \in S THEN 1 ELSE 0)
<1> DEFINE A == At(S, t)
           B == At(S, s) \ {k}
           f == [i \in A |-> IF i < k THEN i ELSE i + 1]
<1>1. Len(t) \in Nat /\ k \in Nat
  BY LenProperties
<1>2. f \in Bijection(A, B)
  <2>1. \A i \in A : f[i] \in B
    BY <1>1 DEF At
  <2>2. \A i, j \in A : f[i] = f[j] => i = j
    BY <1>1 DEF At
  <2>3. ASSUME NEW j \in B PROVE \E i \in A : f[i] = j
    <3>1. CASE j < k
      <4>1. j \in A /\ f[j] = j
        BY <1>1, <3>1 DEF At
      <4> QED
        BY <4>1
    <3>2. CASE j > k
      <4>1. j - 1 \in 1 .. Len(t) /\ ~(j - 1 < k) /\ (j - 1) + 1 = j
        BY <1>1, <3>2 DEF At
      <4>2. t[j - 1] = s[j]
        BY <4>1
      <4>3. j - 1 \in A
        BY <4>1, <4>2 DEF At
      <4>4. f[j - 1] = j
        BY <4>1, <4>3
      <4> QED
        BY <4>3, <4>4
    <3>3. j < k \/ j > k
      BY <1>1 DEF At
    <3> QED
      BY <3>1, <3>2, <3>3
  <2> HIDE DEF f, A, B
  <2>4. f \in [A -> B]
    BY <2>1 DEF f
  <2>5. f \in Injection(A, B)
    BY <2>2, <2>4 DEF Injection, IsInjective
  <2>6. f \in Surjection(A, B)
    BY <2>3, <2>4 DEF Surjection
  <2> QED
    BY <2>5, <2>6 DEF Bijection
<1>3. IsFiniteSet(A) /\ IsFiniteSet(At(S, s))
  BY CountType
<1>4. Cardinality(B) = Cardinality(A)
  BY <1>2, <1>3, FS_Bijection DEF ExistsBijection
<1>5. Cardinality(B) = IF s[k] \in S THEN Cardinality(At(S, s)) - 1
                       ELSE Cardinality(At(S, s))
  <2>1. k \in At(S, s) <=> s[k] \in S
    BY DEF At
  <2> QED
    BY <1>3, <2>1, FS_RemoveElement
<1>6. /\ Count(S, s) = Cardinality(At(S, s)) /\ Count(S, s) \in Nat
      /\ Count(S, t) = Cardinality(A) /\ Count(S, t) \in Nat
  BY CountType
<1> QED
  BY <1>4, <1>5, <1>6

\* The counts after each operation on a queue.
LEMMA CountSteps ==
  ASSUME NEW T, NEW s \in Seq(T), NEW S
  PROVE  /\ Count(S, <<>>) = 0
         /\ \A e \in T : Count(S, Append(s, e))
                           = Count(S, s) + (IF e \in S THEN 1 ELSE 0)
         /\ \A e \in T : Count(S, <<e>> \o s)
                           = Count(S, s) + (IF e \in S THEN 1 ELSE 0)
         /\ s # <<>> => Count(S, s) = Count(S, Tail(s))
                                       + (IF Head(s) \in S THEN 1 ELSE 0)
         /\ \A k \in 1 .. Len(s) :
              Count(S, s) = Count(S, RemoveAt(s, k))
                             + (IF s[k] \in S THEN 1 ELSE 0)
<1>0. Len(s) \in Nat
  BY LenProperties
<1>1. Count(S, <<>>) = 0
  <2>1. {i \in 1 .. Len(<<>>) : <<>>[i] \in S} = {}
    <3>1. Len(<<>>) = 0
      OBVIOUS
    <3>2. 1 .. 0 = {}
      OBVIOUS
    <3> QED
      BY <3>1, <3>2, Zenon
  <2> QED
    BY <2>1, FS_EmptySet, Zenon DEF Count
<1>2. ASSUME NEW e \in T
      PROVE  Count(S, Append(s, e)) = Count(S, s) + (IF e \in S THEN 1 ELSE 0)
  <2> DEFINE t == Append(s, e)
  <2>0. PICK k \in Nat : k = Len(s) + 1
    BY <1>0
  <2>1. /\ t \in Seq(T) /\ Len(t) = Len(s) + 1
        /\ \A i \in 1 .. Len(s) : t[i] = s[i]
        /\ t[k] = e
    BY <1>0, <2>0, AppendProperties
  <2> HIDE DEF t
  <2>2. /\ k \in 1 .. Len(t)
        /\ \A i \in 1 .. Len(s) : s[i] = IF i < k THEN t[i] ELSE t[i + 1]
    BY <1>0, <2>0, <2>1
  <2>3. Count(S, t) = Count(S, s) + (IF t[k] \in S THEN 1 ELSE 0)
    BY <2>1, <2>2, CountOut
  <2> QED
    BY <2>1, <2>3 DEF t
<1>3. ASSUME NEW e \in T
      PROVE  Count(S, <<e>> \o s) = Count(S, s) + (IF e \in S THEN 1 ELSE 0)
  <2> DEFINE t == <<e>> \o s
  <2>1. /\ t \in Seq(T) /\ Len(t) = Len(s) + 1 /\ t[1] = e
        /\ \A i \in 1 .. Len(s) : t[i + 1] = s[i]
    BY PrependIs
  <2> HIDE DEF t
  <2>2. /\ 1 \in 1 .. Len(t)
        /\ \A i \in 1 .. Len(s) : s[i] = IF i < 1 THEN t[i] ELSE t[i + 1]
    BY <1>0, <2>1
  <2>3. Count(S, t) = Count(S, s) + (IF t[1] \in S THEN 1 ELSE 0)
    BY <2>1, <2>2, CountOut
  <2> QED
    BY <2>1, <2>3 DEF t
<1>4. ASSUME s # <<>>
      PROVE  Count(S, s) = Count(S, Tail(s)) + (IF Head(s) \in S THEN 1 ELSE 0)
  <2> DEFINE t == Tail(s)
  <2>1. /\ t \in Seq(T) /\ Len(t) = Len(s) - 1
        /\ Len(s) \in Nat \ {0} /\ Head(s) = s[1]
        /\ \A i \in 1 .. Len(t) : t[i] = s[i + 1]
    BY <1>4, TailIs
  <2> HIDE DEF t
  <2>2. /\ 1 \in 1 .. Len(s) /\ Len(s) = Len(t) + 1
        /\ \A i \in 1 .. Len(t) : t[i] = IF i < 1 THEN s[i] ELSE s[i + 1]
    BY <2>1
  <2>3. Count(S, s) = Count(S, t) + (IF s[1] \in S THEN 1 ELSE 0)
    BY <2>1, <2>2, CountOut
  <2> QED
    BY <2>1, <2>3 DEF t
<1>5. ASSUME NEW k \in 1 .. Len(s)
      PROVE  Count(S, s) = Count(S, RemoveAt(s, k))
                             + (IF s[k] \in S THEN 1 ELSE 0)
  <2> DEFINE t == RemoveAt(s, k)
  <2>1. /\ t \in Seq(T) /\ Len(t) = Len(s) - 1
        /\ \A i \in 1 .. Len(s) - 1 : t[i] = IF i < k THEN s[i] ELSE s[i + 1]
    BY RemoveAtIs
  <2> HIDE DEF t
  <2>2. Len(s) = Len(t) + 1
        /\ \A i \in 1 .. Len(t) : t[i] = IF i < k THEN s[i] ELSE s[i + 1]
    BY <1>0, <2>1
  <2>3. Count(S, s) = Count(S, t) + (IF s[k] \in S THEN 1 ELSE 0)
    <3> HIDE <2>2
    <3>1. /\ k \in 1 .. Len(s) /\ Len(s) = Len(t) + 1 /\ t \in Seq(T)
          /\ \A i \in 1 .. Len(t) : t[i] = IF i < k THEN s[i] ELSE s[i + 1]
      BY <2>1, <2>2
    <3> QED
      BY <3>1, CountOut
  <2> QED
    BY <2>3 DEF t
<1> QED
  BY <1>1, <1>2, <1>3, <1>4, <1>5

\* Two sets that agree on the elements of a sequence count alike there; one
\* that holds one element more counts as often more as it comes.
LEMMA CountSets ==
  ASSUME NEW T, NEW s \in Seq(T), NEW R, NEW S
  PROVE  /\ (\A i \in 1 .. Len(s) : s[i] \in R <=> s[i] \in S)
              => Count(R, s) = Count(S, s)
         /\ (\A i \in 1 .. Len(s) : s[i] \in R => s[i] \in S)
              => Count(R, s) <= Count(S, s)
         /\ \A x : x \notin R /\ S = R \cup {x}
                     => Count(S, s) = Count(R, s) + Count({x}, s)
<1>1. /\ IsFiniteSet(At(R, s)) /\ Count(R, s) = Cardinality(At(R, s))
      /\ IsFiniteSet(At(S, s)) /\ Count(S, s) = Cardinality(At(S, s))
  BY CountType
<1>2. (\A i \in 1 .. Len(s) : s[i] \in R <=> s[i] \in S) => At(R, s) = At(S, s)
  BY DEF At
<1>3. (\A i \in 1 .. Len(s) : s[i] \in R => s[i] \in S)
        => At(R, s) \subseteq At(S, s)
  BY DEF At
<1>4. ASSUME NEW x, x \notin R, S = R \cup {x}
      PROVE  Count(S, s) = Count(R, s) + Count({x}, s)
  <2>1. At(S, s) = At(R, s) \cup At({x}, s)
    BY <1>4 DEF At
  <2>2. At(R, s) \cap At({x}, s) = {}
    BY <1>4 DEF At
  <2>3. /\ IsFiniteSet(At({x}, s)) /\ Count({x}, s) = Cardinality(At({x}, s))
        /\ Count({x}, s) \in Nat /\ Count(R, s) \in Nat
    BY CountType
  <2>4. Cardinality(At(S, s))
          = Cardinality(At(R, s)) + Cardinality(At({x}, s)) - Cardinality({})
    BY <1>1, <2>1, <2>2, <2>3, FS_Union
  <2> QED
    BY <1>1, <2>3, <2>4, FS_EmptySet
<1>5. At(R, s) \subseteq At(S, s) => Count(R, s) <= Count(S, s)
  BY <1>1, FS_Subset
<1> QED
  BY <1>1, <1>2, <1>3, <1>4, <1>5

\* How often a packet comes is such a count.
LEMMA TimesIs ==
  ASSUME NEW x, NEW s
  PROVE  Times(x, s) = Count({x}, s)
<1>1. {i \in 1 .. Len(s) : s[i] = x} = {i \in 1 .. Len(s) : s[i] \in {x}}
  OBVIOUS
<1> QED
  BY <1>1, Zenon DEF Times, Count

-----------------------------------------------------------------------------
(* What the invariant says of one unit and of one packet.                  *)

\* What is not "Too many commands queued."
Live == {p \in Packets : status[p] # 1}

\* The types of a unit's sequences.
LEMMA UnitTypes ==
  ASSUME Contents, NEW u \in Units
  PROVE  /\ port[u] \in Seq(Packets \cup {Dummy}) /\ queue[u] \in Seq(Packets)
         /\ words[u] \in Seq(Packets \cup {Death})
         /\ unitPipe[u] \in Seq(Packets \cup {Death})
         /\ \A i \in 1 .. Len(queue[u]) :
              queue[u][i] \in Packets /\ UnitOf[queue[u][i]] = u
<1>1. Of(u) \subseteq Packets
  BY DEF Of
<1>2. /\ port[u] \in Seq(Of(u) \cup {Dummy}) /\ queue[u] \in Seq(Of(u))
      /\ words[u] \in Seq(Of(u) \cup {Death})
      /\ unitPipe[u] \in Seq(Of(u) \cup {Death})
  BY DEF Contents
<1>3. \A i \in 1 .. Len(queue[u]) : queue[u][i] \in Of(u)
  BY <1>2, ElementOfSeq
<1>4. /\ port[u] \in Seq(Packets \cup {Dummy}) /\ queue[u] \in Seq(Packets)
      /\ words[u] \in Seq(Packets \cup {Death})
      /\ unitPipe[u] \in Seq(Packets \cup {Death})
  BY <1>1, <1>2, SeqMonotonic
<1> QED
  BY <1>3, <1>4 DEF Of

\* d5's count of the commands that were started, as a count of the list.
LEMMA StartedCount ==
  ASSUME NEW st, NEW q \in Seq(Packets)
  PROVE  Cardinality({i \in 1 .. Len(q) : st[q[i]] # 1})
           = Count({p \in Packets : st[p] # 1}, q)
<1>1. \A i \in 1 .. Len(q) : q[i] \in Packets
  BY ElementOfSeq
<1>2. {i \in 1 .. Len(q) : st[q[i]] # 1}
        = {i \in 1 .. Len(q) : q[i] \in {p \in Packets : st[p] # 1}}
  BY <1>1
<1> QED
  BY <1>2, Zenon DEF Count

\* The register d5 in these terms.
LEMMA D5Is ==
  ASSUME D5Counts, Contents, NEW u \in Units
  PROVE  /\ d5[u] = Count(Live, queue[u])
                    + (IF task[u] = "enqueue" /\ status[msg[u]] # 1 THEN 1 ELSE 0)
         /\ Count(Live, queue[u]) \in Nat
<1>1. queue[u] \in Seq(Packets)
  BY UnitTypes
<1>2. Cardinality({i \in 1 .. Len(queue[u]) : status[queue[u][i]] # 1})
        = Count(Live, queue[u])
  BY <1>1, StartedCount DEF Live
<1>3. Count(Live, queue[u]) \in Nat
  BY <1>1, CountType
<1> QED
  BY <1>2, <1>3 DEF D5Counts

\* A command the task answers is one that d5 counts.
LEMMA ScanCounted ==
  ASSUME TypeOK, Contents, D5Counts, NEW u \in Units, ScanReply(u)
  PROVE  /\ scan[u] \in 1 .. Len(queue[u]) /\ queue[u][scan[u]] \in Of(u)
         /\ status[queue[u][scan[u]]] = -1
         /\ Count(Live, queue[u]) >= 1 /\ d5[u] >= 1
<1>1. /\ task[u] = "scan" /\ scan[u] <= Len(queue[u])
      /\ status[queue[u][scan[u]]] < 0
  BY DEF ScanReply
<1>2. queue[u] \in Seq(Packets) /\ queue[u] \in Seq(Of(u))
  BY UnitTypes DEF Contents
<1>3. scan[u] \in 1 .. Len(queue[u])
  <2>1. scan[u] \in Nat
    BY DEF TypeOK
  <2>2. scan[u] >= 1
    BY <1>1 DEF Contents
  <2>3. Len(queue[u]) \in Nat
    BY <1>2, LenProperties
  <2> QED
    BY <1>1, <2>1, <2>2, <2>3
<1>4. queue[u][scan[u]] \in Packets /\ queue[u][scan[u]] \in Of(u)
  BY <1>2, <1>3, ElementOfSeq
<1>5. status[queue[u][scan[u]]] = -1
  <2>1. status \in [Packets -> {-1, 0, 1}]
    BY DEF TypeOK
  <2>2. status[queue[u][scan[u]]] \in {-1, 0, 1}
    BY <1>4, <2>1
  <2> QED
    BY <1>1, <2>2
<1>6. queue[u][scan[u]] \in Live
  BY <1>4, <1>5 DEF Live
<1>7. Count(Live, queue[u]) # 0 /\ Count(Live, queue[u]) \in Nat
  BY <1>2, <1>3, <1>6, CountType
<1> QED
  BY <1>3, <1>4, <1>5, <1>7, D5Is

\* Where a packet is not, when the task holds it and when it is in the list.
LEMMA Alone ==
  ASSUME Contents, PacketInOnePlace, NEW u \in Units, NEW p \in Of(u)
  PROVE  /\ Holds(u) /\ msg[u] = p
              => /\ p \notin unsent /\ p \notin replied
                 /\ Count({p}, queue[u]) = 0 /\ Count({p}, port[u]) = 0
                 /\ \A i \in 1 .. Len(queue[u]) : queue[u][i] # p
         /\ (\E i \in 1 .. Len(queue[u]) : queue[u][i] = p)
              => /\ p \notin unsent /\ p \notin replied
                 /\ Count({p}, queue[u]) = 1 /\ Count({p}, port[u]) = 0
<1>1. p \in Packets /\ UnitOf[p] = u
  BY DEF Of
<1>2. /\ Count({p}, queue[u]) \in Nat /\ Count({p}, port[u]) \in Nat
      /\ Count({p}, queue[u]) = 0
           <=> \A i \in 1 .. Len(queue[u]) : queue[u][i] \notin {p}
  BY UnitTypes, CountType
<1>3. Times(p, queue[u]) = Count({p}, queue[u])
      /\ Times(p, port[u]) = Count({p}, port[u])
  BY TimesIs
<1>4. (IF p \in unsent THEN 1 ELSE 0) + Count({p}, port[u])
        + (IF Holds(u) /\ msg[u] = p THEN 1 ELSE 0)
        + Count({p}, queue[u]) + (IF p \in replied THEN 1 ELSE 0) = 1
  BY <1>1, <1>3 DEF PacketInOnePlace
<1> QED
  BY <1>2, <1>4

-----------------------------------------------------------------------------
(* Types, variable by variable.                                            *)

TaskTypes ==
  /\ unsent \subseteq Packets /\ replied \subseteq Packets
  /\ task \in [Units -> {"wait", "dummy", "scan", "dos", "trap", "enqueue"}]
  /\ msg \in [Units -> Packets \cup {Dummy}]
  /\ status \in [Packets -> {-1, 0, 1}]
  /\ d5 \in [Units -> 0 .. Limit] /\ scan \in [Units -> Nat]
  /\ \A u \in Units : /\ Holds(u) => msg[u] \in Of(u)
                      /\ task[u] = "scan" => scan[u] >= 1

EmuTypes ==
  /\ emu \in {"run", "count", "write", "reset"}
  /\ emuUnit \in {0} \cup Units /\ written \in 0 .. 3
  /\ server \in {"idle", "loop", "done"} /\ unitNo \in 1 .. NUnits + 1
  /\ intRequested \in {0, 1} /\ intreq \in {0, 1}
  /\ resets \in 0 .. MaxResets

CountTypes ==
  /\ complete \in [Units -> Nat] /\ acked \in [Units -> Nat]
  /\ sent \in [Units -> Nat]
  /\ \A u \in Units : complete[u] <= acked[u] /\ acked[u] <= sent[u]

ThreadTypes ==
  /\ backPipe \in [Units -> 0 .. BackCap]
  /\ thread \in [Units -> {"read", "sent", "int", "count", "back", "gone"}]
  /\ counterSem \in {0, 1} /\ active \in Nat
  /\ goDown \in [Units -> {0, 1}] /\ syncSem \in [Units -> {0, 1}]

SeqTypes ==
  /\ port = [u \in Units |-> port[u]] /\ queue = [u \in Units |-> queue[u]]
  /\ words = [u \in Units |-> words[u]]
  /\ unitPipe = [u \in Units |-> unitPipe[u]]
  /\ \A u \in Units : /\ port[u] \in Seq(Of(u) \cup {Dummy})
                      /\ queue[u] \in Seq(Of(u))
                      /\ words[u] \in Seq(Of(u) \cup {Death})
                      /\ unitPipe[u] \in Seq(Of(u) \cup {Death})

\* Together they are the types.
LEMMA AllTypes ==
  TypeOK /\ Contents
    <=> TaskTypes /\ EmuTypes /\ CountTypes /\ ThreadTypes /\ SeqTypes
<1>1. ASSUME TypeOK, Contents
      PROVE  TaskTypes /\ EmuTypes /\ CountTypes /\ ThreadTypes /\ SeqTypes
  <2>1. TaskTypes
    BY <1>1 DEF TypeOK, Contents, TaskTypes
  <2>2. EmuTypes /\ CountTypes /\ ThreadTypes
    BY <1>1 DEF TypeOK, Contents, EmuTypes, CountTypes, ThreadTypes
  <2>3. SeqTypes
    BY <1>1 DEF TypeOK, Contents, SeqTypes
  <2> QED
    BY <2>1, <2>2, <2>3
<1>2. ASSUME TaskTypes, EmuTypes, CountTypes, ThreadTypes, SeqTypes
      PROVE  TypeOK /\ Contents
  <2>1. Contents
    BY <1>2 DEF TaskTypes, CountTypes, SeqTypes, Contents
  <2>2. /\ port \in [Units -> Seq(Packets \cup {Dummy})]
        /\ queue \in [Units -> Seq(Packets)]
        /\ unitPipe \in [Units -> Seq(Packets \cup {Death})]
        /\ words \in [Units -> Seq(Packets \cup {Death})]
    <3>1. \A u \in Units : /\ port[u] \in Seq(Packets \cup {Dummy})
                          /\ queue[u] \in Seq(Packets)
                          /\ words[u] \in Seq(Packets \cup {Death})
                          /\ unitPipe[u] \in Seq(Packets \cup {Death})
      BY <2>1, UnitTypes
    <3>2. /\ port = [u \in Units |-> port[u]] /\ queue = [u \in Units |-> queue[u]]
          /\ words = [u \in Units |-> words[u]]
          /\ unitPipe = [u \in Units |-> unitPipe[u]]
      BY <1>2 DEF SeqTypes
    <3> QED
      BY <3>1, <3>2
  <2>3. TypeOK
    BY <1>2, <2>2 DEF TaskTypes, EmuTypes, CountTypes, ThreadTypes, TypeOK
  <2> QED
    BY <2>1, <2>3
<1> QED
  BY <1>1, <1>2

\* The unit's task.
LEMMA TaskTypesInv ==
  ASSUME IInv, [Next]_vars
  PROVE  TaskTypes'
<1> USE DEF taskVars, emuVars, intVars, countVars, threadVars, Goto, TGoto
<1>0. TaskTypes
  BY AllTypes DEF IInv
<1>f. ASSUME UNCHANGED <<unsent, replied, task, msg, status, d5, scan>>
      PROVE  TaskTypes'
  BY <1>0, <1>f DEF TaskTypes, Holds
<1>1. ASSUME NEW p \in Packets, Send(p) PROVE TaskTypes'
  BY <1>0, <1>1 DEF Send, TaskTypes, Holds
<1>2. ASSUME NEW u \in Units, GetMsg(u) PROVE TaskTypes'
  <2>1. port[u] \in Seq(Of(u) \cup {Dummy}) /\ port[u] # <<>>
    BY <1>2, AllTypes DEF GetMsg, IInv, SeqTypes
  <2>2. Head(port[u]) \in Of(u) \cup {Dummy}
    BY <2>1, TailIs
  <2>3. Of(u) \subseteq Packets
    BY DEF Of
  <2> QED
    BY <1>0, <1>2, <2>2, <2>3 DEF GetMsg, TaskTypes, Holds
<1>3. ASSUME NEW u \in Units, Release(u) PROVE TaskTypes'
  BY <1>0, <1>3 DEF Release, TaskTypes, Holds
<1>4. ASSUME NEW u \in Units, ScanReply(u) PROVE TaskTypes'
  <2>1. /\ queue[u][scan[u]] \in Packets /\ d5[u] >= 1
        /\ replied' = replied \cup {queue[u][scan[u]]}
    BY <1>4, ScanCounted DEF IInv, ScanReply, Of
  <2> QED
    BY <1>0, <1>4, <2>1, FilesysAssumption DEF ScanReply, TaskTypes, Holds
<1>5. ASSUME NEW u \in Units, ScanNext(u) PROVE TaskTypes'
  BY <1>0, <1>5 DEF ScanNext, TaskTypes, Holds
<1>6. ASSUME NEW u \in Units, ScanEnd(u) PROVE TaskTypes'
  BY <1>0, <1>6 DEF ScanEnd, TaskTypes, Holds
<1>7. ASSUME NEW u \in Units, TooMany(u) PROVE TaskTypes'
  BY <1>0, <1>7 DEF TooMany, TaskTypes, Holds
<1>8. ASSUME NEW u \in Units, Refuse(u) PROVE TaskTypes'
  BY <1>0, <1>8 DEF Refuse, TaskTypes, Holds, Of
<1>9. ASSUME NEW u \in Units, DoCommand(u) PROVE TaskTypes'
  BY <1>0, <1>9 DEF DoCommand, TaskTypes, Holds
<1>10. ASSUME NEW u \in Units, Enqueue(u) PROVE TaskTypes'
  BY <1>0, <1>10 DEF Enqueue, TaskTypes, Holds
<1>11. ASSUME NEW u \in Units, Handle(u) PROVE TaskTypes'
  BY <1>0, <1>11 DEF Handle, TaskTypes, Holds
<1>12. CASE CountPacket
  BY <1>0, <1>12 DEF CountPacket, TaskTypes, Holds
<1>13. CASE WritePacket
  <2>1. emuUnit \in Units /\ d5[emuUnit] < Limit
    BY <1>13 DEF WritePacket, IInv, TrapPlace
  <2>2. CASE written < 2
    BY <1>f, <1>0, <1>13, <2>2 DEF WritePacket, TaskTypes, Holds
  <2>3. CASE ~(written < 2)
    <3>1. task[emuUnit] = "trap" /\ task' = [task EXCEPT ![emuUnit] = "enqueue"]
          /\ d5' = [d5 EXCEPT ![emuUnit] = @ + 1]
          /\ UNCHANGED <<unsent, replied, msg, status, scan>>
      BY <1>13, <2>3 DEF WritePacket
    <3>2. d5' \in [Units -> 0 .. Limit]
      BY <1>0, <2>1, <3>1, FilesysAssumption DEF TaskTypes
    <3> QED
      BY <1>0, <3>1, <3>2 DEF TaskTypes, Holds
  <2> QED
    BY <2>2, <2>3
<1>14. CASE Reboot
  <2>1. Limit \in Nat
    BY FilesysAssumption
  <2> QED
    BY <1>14, <2>1 DEF Reboot, TaskTypes, Holds
<1>15. ASSUME NEW u \in Units,
             \/ ReadWord(u) \/ Drop(u) \/ CountSent(u) \/ RaiseInt(u)
             \/ Uncount(u) \/ SendLocks(u) \/ PutDummy(u)
      PROVE  TaskTypes'
  BY <1>f, <1>15 DEF ReadWord, Drop, CountSent, RaiseInt, Uncount, SendLocks,
     PutDummy
<1>16. CASE \/ Hsync \/ EnterServer \/ NoneNeeds \/ LeaveServer \/ Reset
          \/ SendDeath \/ NextDown
  BY <1>f, <1>16 DEF Hsync, EnterServer, NoneNeeds, LeaveServer, Reset,
     SendDeath, NextDown
<1>17. CASE UNCHANGED vars
  BY <1>f, <1>17 DEF vars
<1> QED
  BY <1>1, <1>2, <1>3, <1>4, <1>5, <1>6, <1>7, <1>8, <1>9, <1>10, <1>11,
     <1>12, <1>13, <1>14, <1>15, <1>16, <1>17
     DEF Next, TaskStep, ThreadStep, HandlerStep, ServerStep, ResetStep

\* The emulator's thread and the interrupt.
LEMMA EmuTypesInv ==
  ASSUME IInv, [Next]_vars
  PROVE  EmuTypes'
<1> USE DEF taskVars, emuVars, intVars, countVars, threadVars, Goto, TGoto
<1>0. EmuTypes
  BY AllTypes DEF IInv
<1>f. ASSUME UNCHANGED <<emu, emuUnit, written, server, unitNo, intRequested,
                          intreq, resets>>
      PROVE  EmuTypes'
  BY <1>0, <1>f DEF EmuTypes
<1>1. ASSUME NEW u \in Units, DoCommand(u) PROVE EmuTypes'
  BY <1>0, <1>1, FilesysAssumption DEF DoCommand, EmuTypes, Units
<1>2. ASSUME NEW u \in Units, RaiseInt(u) PROVE EmuTypes'
  BY <1>0, <1>2 DEF RaiseInt, EmuTypes
<1>3. ASSUME NEW u \in Units, PutDummy(u) PROVE EmuTypes'
  BY <1>0, <1>3, FilesysAssumption DEF PutDummy, EmuTypes, Units
<1>4. CASE CountPacket
  BY <1>0, <1>4 DEF CountPacket, EmuTypes
<1>5. CASE WritePacket
  <2>1. written <= 2
    BY <1>5 DEF WritePacket, IInv, TrapPlace
  <2> QED
    BY <1>0, <1>5, <2>1 DEF WritePacket, EmuTypes
<1>6. CASE Hsync
  BY <1>0, <1>6 DEF Hsync, EmuTypes
<1>7. CASE EnterServer
  BY <1>0, <1>7, FilesysAssumption DEF EnterServer, EmuTypes, Units
<1>8. CASE NoneNeeds
  BY <1>0, <1>8, FilesysAssumption DEF NoneNeeds, EmuTypes, Units
<1>9. CASE LeaveServer
  BY <1>0, <1>9 DEF LeaveServer, EmuTypes
<1>10. CASE Reset
  BY <1>0, <1>10, FilesysAssumption DEF Reset, EmuTypes, Units
<1>11. CASE SendDeath
  BY <1>0, <1>11, FilesysAssumption DEF SendDeath, EmuTypes, Units
<1>12. CASE NextDown
  BY <1>0, <1>12, FilesysAssumption DEF NextDown, EmuTypes, Units
<1>13. CASE Reboot
  <2>1. resets < MaxResets
    BY <1>13 DEF Reboot, IInv, ResetOrder
  <2> QED
    BY <1>0, <1>13, <2>1, FilesysAssumption DEF Reboot, EmuTypes
<1>14. ASSUME NEW u \in Units,
             \/ GetMsg(u) \/ Release(u) \/ ScanReply(u) \/ ScanNext(u)
             \/ ScanEnd(u) \/ TooMany(u) \/ Refuse(u) \/ Enqueue(u)
             \/ ReadWord(u) \/ Drop(u) \/ Handle(u) \/ CountSent(u)
             \/ Uncount(u) \/ SendLocks(u)
      PROVE  EmuTypes'
  BY <1>f, <1>14 DEF GetMsg, Release, ScanReply, ScanNext, ScanEnd, TooMany,
     Refuse, Enqueue, ReadWord, Drop, Handle, CountSent, Uncount, SendLocks
<1>15. CASE \/ \E p \in Packets : Send(p)
  BY <1>f, <1>15 DEF Send
<1>16. CASE UNCHANGED vars
  BY <1>f, <1>16 DEF vars
<1> QED
  BY <1>1, <1>2, <1>3, <1>4, <1>5, <1>6, <1>7, <1>8, <1>9, <1>10, <1>11,
     <1>12, <1>13, <1>14, <1>15, <1>16
     DEF Next, TaskStep, ThreadStep, HandlerStep, ServerStep, ResetStep

\* The three counts of a unit.
LEMMA CountTypesInv ==
  ASSUME IInv, [Next]_vars
  PROVE  CountTypes'
<1> USE DEF taskVars, emuVars, intVars, countVars, threadVars, Goto, TGoto
<1>0. CountTypes
  BY AllTypes DEF IInv
<1>f. ASSUME UNCHANGED <<complete, acked, sent>>
      PROVE  CountTypes'
  BY <1>0, <1>f DEF CountTypes
<1>1. ASSUME NEW u \in Units, Release(u) PROVE CountTypes'
  BY <1>0, <1>1 DEF Release, CountTypes
<1>2. ASSUME NEW u \in Units, CountSent(u) PROVE CountTypes'
  BY <1>0, <1>2 DEF CountSent, CountTypes
<1>3. ASSUME NEW u \in Units, PutDummy(u) PROVE CountTypes'
  BY <1>0, <1>3 DEF PutDummy, CountTypes
<1>4. CASE Reboot
  BY <1>0, <1>4 DEF Reboot, CountTypes
<1>5. ASSUME NEW u \in Units,
             \/ GetMsg(u) \/ ScanReply(u) \/ ScanNext(u) \/ ScanEnd(u)
             \/ TooMany(u) \/ Refuse(u) \/ DoCommand(u) \/ Enqueue(u)
             \/ ReadWord(u) \/ Drop(u) \/ Handle(u) \/ RaiseInt(u)
             \/ Uncount(u) \/ SendLocks(u)
      PROVE  CountTypes'
  BY <1>f, <1>5 DEF GetMsg, ScanReply, ScanNext, ScanEnd, TooMany, Refuse,
     DoCommand, Enqueue, ReadWord, Drop, Handle, RaiseInt, Uncount, SendLocks
<1>6. CASE \/ CountPacket \/ WritePacket \/ Hsync \/ EnterServer
          \/ NoneNeeds \/ LeaveServer \/ Reset \/ SendDeath \/ NextDown
          \/ \E p \in Packets : Send(p)
  BY <1>f, <1>6 DEF CountPacket, WritePacket, Hsync, EnterServer, NoneNeeds,
     LeaveServer, Reset, SendDeath, NextDown, Send
<1>7. CASE UNCHANGED vars
  BY <1>f, <1>7 DEF vars
<1> QED
  BY <1>1, <1>2, <1>3, <1>4, <1>5, <1>6, <1>7
     DEF Next, TaskStep, ThreadStep, HandlerStep, ServerStep, ResetStep

\* The ports, lists and pipes.
LEMMA SeqTypesInv ==
  ASSUME IInv, [Next]_vars
  PROVE  SeqTypes'
<1> USE DEF taskVars, emuVars, intVars, countVars, threadVars, Goto, TGoto
<1>0. SeqTypes
  BY AllTypes DEF IInv
<1>f. ASSUME UNCHANGED <<port, queue, words, unitPipe>>
      PROVE  SeqTypes'
  BY <1>0, <1>f DEF SeqTypes
<1>1. ASSUME NEW p \in Packets, Send(p) PROVE SeqTypes'
  <2>1. UnitOf[p] \in Units /\ p \in Of(UnitOf[p])
    BY FilesysAssumption DEF Of
  <2>2. port[UnitOf[p]] \in Seq(Of(UnitOf[p]) \cup {Dummy})
    BY <1>0, <2>1 DEF SeqTypes
  <2>3. Append(port[UnitOf[p]], p) \in Seq(Of(UnitOf[p]) \cup {Dummy})
    BY <2>1, <2>2, AppendProperties
  <2> QED
    BY <1>0, <1>1, <2>1, <2>3 DEF Send, SeqTypes
<1>2. ASSUME NEW u \in Units, GetMsg(u) PROVE SeqTypes'
  <2>1. port[u] \in Seq(Of(u) \cup {Dummy}) /\ port[u] # <<>>
    BY <1>0, <1>2 DEF GetMsg, SeqTypes
  <2>2. Tail(port[u]) \in Seq(Of(u) \cup {Dummy})
    BY <2>1, TailIs
  <2> QED
    BY <1>0, <1>2, <2>2 DEF GetMsg, SeqTypes
<1>3. ASSUME NEW u \in Units, ScanReply(u) PROVE SeqTypes'
  <2>1. /\ scan[u] \in 1 .. Len(queue[u]) /\ queue[u] \in Seq(Of(u))
        /\ queue' = [queue EXCEPT ![u] = RemoveAt(queue[u], scan[u])]
    BY <1>0, <1>3, ScanCounted DEF IInv, ScanReply, SeqTypes
  <2>2. RemoveAt(queue[u], scan[u]) \in Seq(Of(u))
    BY <2>1, RemoveAtIs
  <2> QED
    BY <1>0, <1>3, <2>1, <2>2 DEF ScanReply, SeqTypes
<1>4. ASSUME NEW u \in Units, Enqueue(u) PROVE SeqTypes'
  <2>1. msg[u] \in Of(u) /\ queue[u] \in Seq(Of(u))
        /\ queue' = [queue EXCEPT ![u] = <<msg[u]>> \o queue[u]]
    BY <1>0, <1>4 DEF Enqueue, IInv, Contents, Holds, SeqTypes
  <2>2. <<msg[u]>> \o queue[u] \in Seq(Of(u))
    BY <2>1, PrependIs
  <2> QED
    BY <1>0, <1>4, <2>1, <2>2 DEF Enqueue, SeqTypes
<1>5. ASSUME NEW u \in Units, ReadWord(u) PROVE SeqTypes'
  <2>1. /\ words[u] \in Seq(Of(u) \cup {Death})
        /\ unitPipe[u] \in Seq(Of(u) \cup {Death}) /\ unitPipe[u] # <<>>
    BY <1>0, <1>5 DEF ReadWord, SeqTypes
  <2>2. /\ Head(unitPipe[u]) \in Of(u) \cup {Death}
        /\ Tail(unitPipe[u]) \in Seq(Of(u) \cup {Death})
    BY <2>1, TailIs
  <2>3. Append(words[u], Head(unitPipe[u])) \in Seq(Of(u) \cup {Death})
    BY <2>1, <2>2, AppendProperties
  <2> QED
    BY <1>0, <1>5, <2>2, <2>3 DEF ReadWord, SeqTypes
<1>6. ASSUME NEW u \in Units, Drop(u) PROVE SeqTypes'
  <2>1. <<>> \in Seq(Of(u) \cup {Death})
    BY EmptySeq
  <2> QED
    BY <1>0, <1>6, <2>1 DEF Drop, SeqTypes
<1>7. ASSUME NEW u \in Units, Handle(u) PROVE SeqTypes'
  <2>1. <<>> \in Seq(Of(u) \cup {Death})
    BY EmptySeq
  <2> QED
    BY <1>0, <1>7, <2>1 DEF Handle, SeqTypes
<1>8. ASSUME NEW u \in Units, PutDummy(u) PROVE SeqTypes'
  <2>1. port[u] \in Seq(Of(u) \cup {Dummy})
    BY <1>0 DEF SeqTypes
  <2>2. Append(port[u], Dummy) \in Seq(Of(u) \cup {Dummy})
    BY <2>1, AppendProperties
  <2> QED
    BY <1>0, <1>8, <2>2 DEF PutDummy, SeqTypes
<1>9. CASE WritePacket
  <2>1. emuUnit \in Units /\ msg[emuUnit] \in Of(emuUnit)
    BY <1>9 DEF WritePacket, IInv, TrapPlace, Contents, Holds
  <2>2. unitPipe[emuUnit] \in Seq(Of(emuUnit) \cup {Death})
    BY <1>0, <2>1 DEF SeqTypes
  <2>3. Append(unitPipe[emuUnit], msg[emuUnit])
          \in Seq(Of(emuUnit) \cup {Death})
    BY <2>1, <2>2, AppendProperties
  <2> QED
    BY <1>0, <1>9, <2>1, <2>3 DEF WritePacket, SeqTypes
<1>10. CASE SendDeath
  <2>1. emuUnit \in Units
    BY <1>10 DEF SendDeath, IInv, ResetOrder
  <2>2. unitPipe[emuUnit] \in Seq(Of(emuUnit) \cup {Death})
    BY <1>0, <2>1 DEF SeqTypes
  <2>3. Append(unitPipe[emuUnit], Death) \in Seq(Of(emuUnit) \cup {Death})
    BY <2>2, AppendProperties
  <2> QED
    BY <1>0, <1>10, <2>1, <2>3 DEF SendDeath, SeqTypes
<1>11. CASE Reboot
  <2>1. \A u \in Units : /\ <<>> \in Seq(Of(u) \cup {Dummy}) /\ <<>> \in Seq(Of(u))
                        /\ <<>> \in Seq(Of(u) \cup {Death})
    BY EmptySeq
  <2> QED
    BY <1>11, <2>1 DEF Reboot, SeqTypes
<1>12. ASSUME NEW u \in Units,
             \/ Release(u) \/ ScanNext(u) \/ ScanEnd(u) \/ TooMany(u)
             \/ Refuse(u) \/ DoCommand(u) \/ CountSent(u) \/ RaiseInt(u)
             \/ Uncount(u) \/ SendLocks(u)
      PROVE  SeqTypes'
  BY <1>f, <1>12 DEF Release, ScanNext, ScanEnd, TooMany, Refuse, DoCommand,
     CountSent, RaiseInt, Uncount, SendLocks
<1>13. CASE \/ CountPacket \/ Hsync \/ EnterServer \/ NoneNeeds
          \/ LeaveServer \/ Reset \/ NextDown
  BY <1>f, <1>13 DEF CountPacket, Hsync, EnterServer, NoneNeeds, LeaveServer,
     Reset, NextDown
<1>14. CASE UNCHANGED vars
  BY <1>f, <1>14 DEF vars
<1> QED
  BY <1>1, <1>2, <1>3, <1>4, <1>5, <1>6, <1>7, <1>8, <1>9, <1>10, <1>11,
     <1>12, <1>13, <1>14
     DEF Next, TaskStep, ThreadStep, HandlerStep, ServerStep, ResetStep

-----------------------------------------------------------------------------
(* The threads.                                                            *)

\* A count over the words of the units' commands is a number.
LEMMA PlacesFinite ==
  ASSUME NEW S \in SUBSET Places
  PROVE  IsFiniteSet(S) /\ Cardinality(S) \in Nat
<1> DEFINE D == Units \X ((1 .. 4) \X (1 .. UnitCap + 3))
           f == [x \in Places |-> <<x[1], <<x[2], x[3]>>>>]
<1>1. IsFiniteSet(D)
  <2>1. /\ IsFiniteSet(Units) /\ IsFiniteSet(1 .. 4)
        /\ IsFiniteSet(1 .. UnitCap + 3)
    <3>1. 1 \in Int /\ 4 \in Int /\ NUnits \in Int /\ UnitCap + 3 \in Int
      BY FilesysAssumption
    <3>2. IsFiniteSet(1 .. NUnits)
      BY <3>1, FS_Interval
    <3>3. IsFiniteSet(1 .. 4)
      BY <3>1, FS_Interval
    <3>4. IsFiniteSet(1 .. UnitCap + 3)
      BY <3>1, FS_Interval
    <3> QED
      BY <3>2, <3>3, <3>4 DEF Units
  <2>2. IsFiniteSet((1 .. 4) \X (1 .. UnitCap + 3))
    BY <2>1, FS_Product
  <2> QED
    BY <2>1, <2>2, FS_Product
<1>2. f \in Injection(Places, D)
  <2>1. f \in [Places -> D]
    BY DEF Places
  <2>2. \A x, y \in Places : f[x] = f[y] => x = y
    BY DEF Places
  <2> QED
    BY <2>1, <2>2 DEF Injection, IsInjective
<1>3. IsFiniteSet(Places)
  BY <1>1, <1>2, FS_Injection
<1> QED
  BY <1>3, FS_Subset, FS_CardinalityType

\* A command that a thread is about to take off active_fs_packets is counted
\* there.
LEMMA CountedActive ==
  ASSUME Balance, TypeOK, NEW u \in Units, thread[u] = "count"
  PROVE  active >= 1
<1>1. active \in Nat /\ UnitCap \in Nat
  BY FilesysAssumption DEF TypeOK
<1>2. <<u, 3, 1>> \in InFlight
  BY <1>1 DEF InFlight, Places
<1>3. IsFiniteSet(InFlight) /\ Cardinality(InFlight) \in Nat
  BY PlacesFinite DEF InFlight
<1>4. Cardinality(InFlight) # 0
  BY <1>2, <1>3, FS_EmptySet
<1> QED
  BY <1>1, <1>3, <1>4 DEF Balance

\* The threads and what they share with the emulator.
LEMMA ThreadTypesInv ==
  ASSUME IInv, [Next]_vars
  PROVE  ThreadTypes'
<1> USE DEF taskVars, emuVars, intVars, countVars, threadVars, Goto, TGoto
<1>0. ThreadTypes
  BY AllTypes DEF IInv
<1>f. ASSUME UNCHANGED <<backPipe, thread, counterSem, active, goDown,
                          syncSem>>
      PROVE  ThreadTypes'
  BY <1>0, <1>f DEF ThreadTypes
<1>1. ASSUME NEW u \in Units, Release(u) PROVE ThreadTypes'
  BY <1>0, <1>1, FilesysAssumption DEF Release, ThreadTypes
<1>2. ASSUME NEW u \in Units, Drop(u) PROVE ThreadTypes'
  <2>1. syncSem[u] = 0
    BY <1>0, <1>2 DEF Drop, IInv, ResetOrder, ThreadTypes
  <2>2. \/ /\ syncSem' = [syncSem EXCEPT ![u] = syncSem[u] + 1]
           /\ thread' = [thread EXCEPT ![u] = "gone"]
        \/ UNCHANGED <<syncSem, thread>>
    BY <1>2 DEF Drop
  <2>3. UNCHANGED <<backPipe, counterSem, active, goDown>>
    BY <1>2 DEF Drop
  <2> QED
    BY <1>0, <2>1, <2>2, <2>3 DEF ThreadTypes
<1>3. ASSUME NEW u \in Units, Handle(u) PROVE ThreadTypes'
  BY <1>0, <1>3 DEF Handle, ThreadTypes
<1>4. ASSUME NEW u \in Units, CountSent(u) PROVE ThreadTypes'
  BY <1>0, <1>4 DEF CountSent, ThreadTypes
<1>5. ASSUME NEW u \in Units, RaiseInt(u) PROVE ThreadTypes'
  BY <1>0, <1>5 DEF RaiseInt, ThreadTypes
<1>6. ASSUME NEW u \in Units, Uncount(u) PROVE ThreadTypes'
  <2>1. active >= 1
    BY <1>6, CountedActive DEF Uncount, IInv
  <2> QED
    BY <1>0, <1>6, <2>1 DEF Uncount, ThreadTypes
<1>7. ASSUME NEW u \in Units, SendLocks(u) PROVE ThreadTypes'
  BY <1>0, <1>7, FilesysAssumption DEF SendLocks, ThreadTypes
<1>8. CASE CountPacket
  BY <1>0, <1>8 DEF CountPacket, ThreadTypes
<1>9. CASE Reset
  BY <1>0, <1>9 DEF Reset, ThreadTypes
<1>10. CASE NextDown
  <2>1. emuUnit \in Units
    BY <1>10 DEF NextDown, IInv, ResetOrder
  <2>2. /\ syncSem[emuUnit] = 1
        /\ syncSem' = [syncSem EXCEPT ![emuUnit] = syncSem[emuUnit] - 1]
        /\ goDown' = [goDown EXCEPT ![emuUnit + 1] = 1]
        /\ UNCHANGED <<backPipe, thread, counterSem, active>>
    BY <1>0, <1>10, <2>1 DEF NextDown, ThreadTypes
  <2>3. syncSem' \in [Units -> {0, 1}]
    BY <1>0, <2>1, <2>2 DEF ThreadTypes
  <2>4. goDown' \in [Units -> {0, 1}]
    BY <1>0, <2>2 DEF ThreadTypes
  <2> QED
    BY <1>0, <2>2, <2>3, <2>4 DEF ThreadTypes
<1>11. CASE Reboot
  BY <1>0, <1>11, FilesysAssumption DEF Reboot, ThreadTypes
<1>12. ASSUME NEW u \in Units,
             \/ GetMsg(u) \/ ScanReply(u) \/ ScanNext(u) \/ ScanEnd(u)
             \/ TooMany(u) \/ Refuse(u) \/ DoCommand(u) \/ Enqueue(u)
             \/ ReadWord(u) \/ PutDummy(u)
      PROVE  ThreadTypes'
  BY <1>f, <1>12 DEF GetMsg, ScanReply, ScanNext, ScanEnd, TooMany, Refuse,
     DoCommand, Enqueue, ReadWord, PutDummy
<1>13. CASE \/ WritePacket \/ Hsync \/ EnterServer \/ NoneNeeds
          \/ LeaveServer \/ SendDeath
          \/ \E p \in Packets : Send(p)
  BY <1>f, <1>13 DEF WritePacket, Hsync, EnterServer, NoneNeeds, LeaveServer,
     SendDeath, Send
<1>14. CASE UNCHANGED vars
  BY <1>f, <1>14 DEF vars
<1> QED
  BY <1>1, <1>2, <1>3, <1>4, <1>5, <1>6, <1>7, <1>8, <1>9, <1>10, <1>11,
     <1>12, <1>13, <1>14
     DEF Next, TaskStep, ThreadStep, HandlerStep, ServerStep, ResetStep

\* All the types.
LEMMA TypesInv ==
  ASSUME IInv, [Next]_vars
  PROVE  TypeOK' /\ Contents'
<1>1. /\ TaskTypes' /\ EmuTypes' /\ CountTypes' /\ ThreadTypes' /\ SeqTypes'
  BY TaskTypesInv, EmuTypesInv, CountTypesInv, ThreadTypesInv, SeqTypesInv
<1>2. (TypeOK /\ Contents)'
        <=> (TaskTypes /\ EmuTypes /\ CountTypes /\ ThreadTypes /\ SeqTypes)'
  BY AllTypes, PTL
<1> QED
  BY <1>1, <1>2

-----------------------------------------------------------------------------
(* What is in a pipe.                                                      *)

\* The words the thread holds come before those in unit_pipe.
LEMMA PipeIs ==
  ASSUME NEW u, NEW T, words[u] \in Seq(T), unitPipe[u] \in Seq(T)
  PROVE  /\ Pipe(u) \in Seq(T) /\ Len(words[u]) \in Nat
         /\ Len(unitPipe[u]) \in Nat
         /\ Len(Pipe(u)) = Len(words[u]) + Len(unitPipe[u])
         /\ \A i \in 1 .. Len(Pipe(u)) :
              Pipe(u)[i] = IF i <= Len(words[u]) THEN words[u][i]
                           ELSE unitPipe[u][i - Len(words[u])]
<1>1. Len(words[u]) \in Nat /\ Len(unitPipe[u]) \in Nat
  BY LenProperties
<1>2. /\ words[u] \o unitPipe[u] \in Seq(T)
      /\ Len(words[u] \o unitPipe[u]) = Len(words[u]) + Len(unitPipe[u])
      /\ \A i \in 1 .. Len(words[u]) + Len(unitPipe[u]) :
           (words[u] \o unitPipe[u])[i]
             = IF i <= Len(words[u]) THEN words[u][i]
               ELSE unitPipe[u][i - Len(words[u])]
  BY ConcatProperties
<1> QED
  BY <1>1, <1>2, Zenon DEF Pipe

\* What the trap has written of its command.
LEMMA PartialIs ==
  ASSUME TypeOK, TrapPlace, NEW u
  PROVE  /\ Partial(u) \in 0 .. 2
         /\ Partial(u) # 0 => emu = "write" /\ emuUnit = u /\ task[u] = "trap"
<1>1. written \in 0 .. 3
  BY DEF TypeOK
<1> QED
  BY <1>1 DEF TrapPlace, Partial

\* A thread handles a packet that its unit's task has started, and that no
\* trap is about to send.
LEMMA HandleIs ==
  ASSUME IInv, NEW u \in Units, Len(words[u]) = 3, goDown[u] = 0
  PROVE  /\ words[u][2] \in Of(u) /\ status[words[u][2]] # 1
         /\ Started(u, words[u][2])
         /\ \/ \E i \in 1 .. Len(queue[u]) : queue[u][i] = words[u][2]
            \/ words[u][2] \in replied
            \/ task[u] = "enqueue" /\ words[u][2] = msg[u]
         /\ Holds(u) /\ msg[u] = words[u][2] => task[u] = "enqueue"
<1> DEFINE p == words[u][2]
<1>1. TypeOK /\ Contents /\ TrapPlace /\ PipeWords /\ PacketInOnePlace
  BY DEF IInv
<1>2. /\ words[u] \in Seq(Of(u) \cup {Death})
      /\ unitPipe[u] \in Seq(Of(u) \cup {Death})
  BY <1>1 DEF Contents
<1>3. /\ Len(Pipe(u)) \in Nat /\ Len(Pipe(u)) >= 3 /\ Pipe(u)[2] = p
  <2>1. /\ Len(unitPipe[u]) \in Nat
        /\ Len(Pipe(u)) = Len(words[u]) + Len(unitPipe[u])
        /\ \A i \in 1 .. Len(Pipe(u)) :
             Pipe(u)[i] = IF i <= Len(words[u]) THEN words[u][i]
                          ELSE unitPipe[u][i - Len(words[u])]
    BY <1>2, PipeIs
  <2>2. Len(Pipe(u)) \in Nat /\ Len(Pipe(u)) >= 3
    BY <2>1
  <2>3. 2 \in 1 .. Len(Pipe(u)) /\ 2 <= Len(words[u])
    BY <2>2
  <2> QED
    BY <2>1, <2>2, <2>3
<1>4. Partial(u) \in 0 .. 2
  BY <1>1, PartialIs
<1>5. \E k \in 0 .. UnitCap + 3 : Len(Pipe(u)) = 3 * k + Partial(u)
  BY <1>1 DEF PipeWords
<1>6. 2 <= Len(Pipe(u)) - Partial(u)
  BY <1>3, <1>4, <1>5, FilesysAssumption
<1>7. Started(u, p)
  <2>1. 2 \in 1 .. Len(Pipe(u))
    BY <1>3
  <2>2. IF 2 <= Len(Pipe(u)) - Partial(u) THEN Started(u, Pipe(u)[2])
                                          ELSE Pipe(u)[2] = msg[u]
    BY <1>1, <2>1 DEF PipeWords
  <2> QED
    BY <1>3, <1>6, <2>2
<1>8. p \in Of(u)
  <2>1. p \in Of(u) \cup {Death}
    BY <1>2, ElementOfSeq
  <2>2. \A i \in 1 .. Len(queue[u]) : queue[u][i] \in Of(u)
    BY <1>1, UnitTypes DEF Of
  <2>3. task[u] = "enqueue" => msg[u] \in Of(u)
    BY <1>1 DEF Contents, Holds
  <2>4. replied \subseteq Packets /\ Of(u) \subseteq Packets
        /\ Death \notin Packets
    BY <1>1, FilesysAssumption DEF TypeOK, Of
  <2> QED
    BY <1>7, <2>1, <2>2, <2>3, <2>4 DEF Started
<1>9. /\ status[p] # 1
      /\ \/ \E i \in 1 .. Len(queue[u]) : queue[u][i] = p
         \/ p \in replied
         \/ task[u] = "enqueue" /\ p = msg[u]
  BY <1>7 DEF Started
<1>10. Holds(u) /\ msg[u] = p => task[u] = "enqueue"
  BY <1>1, <1>8, <1>9, Alone
<1> QED
  BY <1>7, <1>8, <1>9, <1>10

-----------------------------------------------------------------------------
(* The emulator's thread.                                                  *)

\* The trap that is in progress.
LEMMA TrapPlaceInv ==
  ASSUME IInv, [Next]_vars
  PROVE  TrapPlace'
<1> USE DEF taskVars, emuVars, intVars, countVars, threadVars, Goto, TGoto
<1>0. TrapPlace /\ TaskTypes /\ EmuTypes
  BY AllTypes DEF IInv
<1>f. ASSUME UNCHANGED <<task, emu, emuUnit, d5, written, status, msg>>
      PROVE  TrapPlace'
  BY <1>0, <1>f DEF TrapPlace
<1>1. ASSUME NEW u \in Units, GetMsg(u) PROVE TrapPlace'
  BY <1>0, <1>1 DEF GetMsg, TrapPlace, TaskTypes, EmuTypes, Runs68k
<1>2. ASSUME NEW u \in Units, Release(u) PROVE TrapPlace'
  BY <1>0, <1>2 DEF Release, TrapPlace, TaskTypes, EmuTypes, Runs68k
<1>3. ASSUME NEW u \in Units, ScanReply(u) PROVE TrapPlace'
  BY <1>0, <1>3 DEF ScanReply, TrapPlace, TaskTypes, EmuTypes, Runs68k
<1>4. ASSUME NEW u \in Units, ScanEnd(u) PROVE TrapPlace'
  BY <1>0, <1>4 DEF ScanEnd, TrapPlace, TaskTypes, EmuTypes, Runs68k
<1>5. ASSUME NEW u \in Units, TooMany(u) PROVE TrapPlace'
  BY <1>0, <1>5 DEF TooMany, TrapPlace, TaskTypes, EmuTypes, Runs68k
<1>6. ASSUME NEW u \in Units, Refuse(u) PROVE TrapPlace'
  BY <1>0, <1>6 DEF Refuse, TrapPlace, TaskTypes, EmuTypes, Runs68k
<1>7. ASSUME NEW u \in Units, DoCommand(u) PROVE TrapPlace'
  BY <1>0, <1>7 DEF DoCommand, TrapPlace, TaskTypes, EmuTypes, Runs68k
<1>8. ASSUME NEW u \in Units, Enqueue(u) PROVE TrapPlace'
  BY <1>0, <1>8 DEF Enqueue, TrapPlace, TaskTypes, EmuTypes, Runs68k
<1>9. ASSUME NEW u \in Units, Handle(u) PROVE TrapPlace'
  <2>1. /\ words[u][2] \in Of(u)
        /\ Holds(u) /\ msg[u] = words[u][2] => task[u] = "enqueue"
    BY <1>9, HandleIs DEF Handle, IInv
  <2>2. status' = [status EXCEPT ![words[u][2]] = -1]
        /\ UNCHANGED <<task, emu, emuUnit, d5, written, msg>>
    BY <1>9 DEF Handle
  <2>3. ASSUME emu = "write" PROVE msg[emuUnit] # words[u][2]
    <3>1. task[emuUnit] = "trap" /\ emuUnit \in Units
      BY <1>0, <2>3 DEF TrapPlace
    <3>2. msg[emuUnit] \in Of(emuUnit)
      BY <1>0, <3>1 DEF TaskTypes, Holds
    <3> QED
      BY <2>1, <3>1, <3>2 DEF Of, Holds
  <2>4. emu' = "write" => status'[msg'[emuUnit']] = 0
    BY <1>0, <2>1, <2>2, <2>3 DEF TrapPlace
  <2> QED
    BY <1>0, <2>2, <2>4 DEF TrapPlace
<1>10. CASE CountPacket
  <2>1. emuUnit \in Units /\ msg[emuUnit] \in Packets
    BY <1>0, <1>10 DEF CountPacket, TrapPlace, TaskTypes, Holds, Of
  <2> QED
    BY <1>0, <1>10, <2>1 DEF CountPacket, TrapPlace, TaskTypes, EmuTypes
<1>11. CASE WritePacket
  <2>1. emu = "write" /\ emuUnit \in Units /\ written \in 0 .. 2
        /\ written' = written + 1 /\ UNCHANGED <<emuUnit, status, msg>>
    BY <1>0, <1>11 DEF WritePacket, TrapPlace, EmuTypes
  <2>2. CASE written < 2
    BY <1>0, <1>11, <2>1, <2>2 DEF WritePacket, TrapPlace
  <2>3. CASE ~(written < 2)
    <3>1. emu' = "run" /\ task' = [task EXCEPT ![emuUnit] = "enqueue"]
      BY <1>11, <2>3 DEF WritePacket
    <3> QED
      BY <1>0, <2>1, <3>1 DEF TrapPlace, TaskTypes
  <2> QED
    BY <2>2, <2>3
<1>12. CASE Reset
  BY <1>0, <1>12 DEF Reset, TrapPlace, TaskTypes, EmuTypes, Runs68k
<1>13. CASE SendDeath
  BY <1>0, <1>13 DEF SendDeath, TrapPlace, TaskTypes, EmuTypes, Runs68k
<1>14. CASE NextDown
  BY <1>0, <1>14 DEF NextDown, TrapPlace, TaskTypes, EmuTypes, Runs68k
<1>15. CASE Reboot
  BY <1>0, <1>15 DEF Reboot, TrapPlace, TaskTypes, EmuTypes, Runs68k
<1>16. ASSUME NEW u \in Units,
             \/ ScanNext(u) \/ ReadWord(u) \/ Drop(u) \/ CountSent(u)
             \/ RaiseInt(u) \/ Uncount(u) \/ SendLocks(u) \/ PutDummy(u)
      PROVE  TrapPlace'
  BY <1>f, <1>16 DEF ScanNext, ReadWord, Drop, CountSent, RaiseInt, Uncount,
     SendLocks, PutDummy
<1>17. CASE \/ Hsync \/ EnterServer \/ NoneNeeds \/ LeaveServer
          \/ \E p \in Packets : Send(p)
  BY <1>f, <1>17 DEF Hsync, EnterServer, NoneNeeds, LeaveServer, Send
<1>18. CASE UNCHANGED vars
  BY <1>f, <1>18 DEF vars
<1> QED
  BY <1>1, <1>2, <1>3, <1>4, <1>5, <1>6, <1>7, <1>8, <1>9, <1>10, <1>11,
     <1>12, <1>13, <1>14, <1>15, <1>16, <1>17, <1>18
     DEF Next, TaskStep, ThreadStep, HandlerStep, ServerStep, ResetStep

\* The reset.
LEMMA ResetOrderInv ==
  ASSUME IInv, [Next]_vars
  PROVE  ResetOrder'
<1> USE DEF taskVars, emuVars, intVars, countVars, threadVars, Goto, TGoto
<1>0. ResetOrder /\ EmuTypes /\ ThreadTypes
  BY AllTypes DEF IInv
<1>f. ASSUME UNCHANGED <<emu, emuUnit, resets, goDown, thread, syncSem>>
      PROVE  ResetOrder'
  BY <1>0, <1>f DEF ResetOrder
<1>1. ASSUME NEW u \in Units, DoCommand(u) PROVE ResetOrder'
  BY <1>0, <1>1 DEF DoCommand, ResetOrder, EmuTypes, ThreadTypes, Runs68k
<1>2. ASSUME NEW u \in Units, Drop(u) PROVE ResetOrder'
  BY <1>0, <1>2 DEF Drop, ResetOrder, EmuTypes, ThreadTypes, Runs68k
<1>3. ASSUME NEW u \in Units, Handle(u) PROVE ResetOrder'
  BY <1>0, <1>3 DEF Handle, ResetOrder, EmuTypes, ThreadTypes, Runs68k
<1>4. ASSUME NEW u \in Units, CountSent(u) PROVE ResetOrder'
  BY <1>0, <1>4 DEF CountSent, ResetOrder, EmuTypes, ThreadTypes, Runs68k
<1>5. ASSUME NEW u \in Units, RaiseInt(u) PROVE ResetOrder'
  BY <1>0, <1>5 DEF RaiseInt, ResetOrder, EmuTypes, ThreadTypes, Runs68k
<1>6. ASSUME NEW u \in Units, Uncount(u) PROVE ResetOrder'
  BY <1>0, <1>6 DEF Uncount, ResetOrder, EmuTypes, ThreadTypes, Runs68k
<1>7. ASSUME NEW u \in Units, SendLocks(u) PROVE ResetOrder'
  BY <1>0, <1>7 DEF SendLocks, ResetOrder, EmuTypes, ThreadTypes, Runs68k
<1>8. CASE CountPacket
  BY <1>0, <1>8 DEF CountPacket, ResetOrder, EmuTypes, ThreadTypes, Runs68k
<1>9. CASE WritePacket
  BY <1>0, <1>9 DEF WritePacket, ResetOrder, EmuTypes, ThreadTypes, Runs68k
<1>10. CASE Reset
  BY <1>0, <1>10, FilesysAssumption DEF Reset, ResetOrder, EmuTypes, ThreadTypes, Units
<1>11. CASE NextDown
  BY <1>0, <1>11, FilesysAssumption DEF NextDown, ResetOrder, EmuTypes, ThreadTypes, Units
<1>12. CASE Reboot
  BY <1>0, <1>12 DEF Reboot, ResetOrder, EmuTypes, ThreadTypes, Runs68k
<1>13. ASSUME NEW u \in Units,
             \/ GetMsg(u) \/ Release(u) \/ ScanReply(u) \/ ScanNext(u)
             \/ ScanEnd(u) \/ TooMany(u) \/ Refuse(u) \/ Enqueue(u)
             \/ ReadWord(u) \/ PutDummy(u)
      PROVE  ResetOrder'
  BY <1>f, <1>13 DEF GetMsg, Release, ScanReply, ScanNext, ScanEnd, TooMany,
     Refuse, Enqueue, ReadWord, PutDummy
<1>14. CASE \/ Hsync \/ EnterServer \/ NoneNeeds \/ LeaveServer
          \/ SendDeath
          \/ \E p \in Packets : Send(p)
  BY <1>f, <1>14 DEF Hsync, EnterServer, NoneNeeds, LeaveServer, SendDeath,
     Send
<1>15. CASE UNCHANGED vars
  BY <1>f, <1>15 DEF vars
<1> QED
  BY <1>1, <1>2, <1>3, <1>4, <1>5, <1>6, <1>7, <1>8, <1>9, <1>10, <1>11,
     <1>12, <1>13, <1>14, <1>15
     DEF Next, TaskStep, ThreadStep, HandlerStep, ServerStep, ResetStep

-----------------------------------------------------------------------------
(* Where packets and the dummy message are.                                *)

\* The places of a packet, and of a unit's dummy message, as counts.
OnePlace(p) ==
  (IF p \in unsent THEN 1 ELSE 0) + Count({p}, port[UnitOf[p]])
    + (IF Holds(UnitOf[p]) /\ msg[UnitOf[p]] = p THEN 1 ELSE 0)
    + Count({p}, queue[UnitOf[p]]) + (IF p \in replied THEN 1 ELSE 0) = 1
DummyPlace(u) ==
  Count({Dummy}, port[u]) + (IF task[u] = "dummy" THEN 1 ELSE 0)
    = (IF acked[u] # complete[u] THEN 1 ELSE 0)

\* They say what the invariants say.
LEMMA PlaceIs ==
  /\ PacketInOnePlace <=> \A p \in Packets : OnePlace(p)
  /\ OneDummy <=> \A u \in Units : DummyPlace(u)
<1>1. \A p \in Packets : /\ Times(p, port[UnitOf[p]]) = Count({p}, port[UnitOf[p]])
                         /\ Times(p, queue[UnitOf[p]]) = Count({p}, queue[UnitOf[p]])
  BY TimesIs
<1>2. \A u \in Units : Times(Dummy, port[u]) = Count({Dummy}, port[u])
  BY TimesIs
<1>3. PacketInOnePlace <=> \A p \in Packets : OnePlace(p)
  BY <1>1 DEF PacketInOnePlace, OnePlace
<1>4. OneDummy <=> \A u \in Units : DummyPlace(u)
  BY <1>2 DEF OneDummy, DummyPlace
<1> QED
  BY <1>3, <1>4

\* How the counts of a packet and of the dummy message change with a unit's
\* port and list.
LEMMA PlaceCounts ==
  ASSUME Contents, NEW u \in Units, NEW x
  PROVE  /\ Count({x}, port[u]) \in Nat /\ Count({x}, queue[u]) \in Nat
         /\ \A e \in Of(u) \cup {Dummy} :
              Count({x}, Append(port[u], e))
                = Count({x}, port[u]) + (IF e = x THEN 1 ELSE 0)
         /\ port[u] # <<>> =>
              Count({x}, port[u]) = Count({x}, Tail(port[u]))
                                    + (IF Head(port[u]) = x THEN 1 ELSE 0)
         /\ \A e \in Of(u) : Count({x}, <<e>> \o queue[u])
                = Count({x}, queue[u]) + (IF e = x THEN 1 ELSE 0)
<1>1. port[u] \in Seq(Of(u) \cup {Dummy}) /\ queue[u] \in Seq(Of(u))
  BY DEF Contents
<1>2. Count({x}, port[u]) \in Nat /\ Count({x}, queue[u]) \in Nat
  BY <1>1, CountType
<1>3. \A e : e \in {x} <=> e = x
  OBVIOUS
<1>4. /\ \A e \in Of(u) \cup {Dummy} :
           Count({x}, Append(port[u], e))
             = Count({x}, port[u]) + (IF e \in {x} THEN 1 ELSE 0)
      /\ port[u] # <<>> =>
           Count({x}, port[u]) = Count({x}, Tail(port[u]))
                                 + (IF Head(port[u]) \in {x} THEN 1 ELSE 0)
  BY <1>1, CountSteps
<1>5. \A e \in Of(u) : Count({x}, <<e>> \o queue[u])
        = Count({x}, queue[u]) + (IF e \in {x} THEN 1 ELSE 0)
  <2>1. PICK q \in Seq(Of(u)) : q = queue[u]
    BY <1>1
  <2>2. \A e \in Of(u) : Count({x}, <<e>> \o q)
          = Count({x}, q) + (IF e \in {x} THEN 1 ELSE 0)
    BY CountSteps
  <2> QED
    BY <2>1, <2>2
<1> QED
  BY <1>2, <1>3, <1>4, <1>5

\* A packet.
LEMMA OnePlaceInv ==
  ASSUME IInv, [Next]_vars
  PROVE  \A p \in Packets : OnePlace(p)'
<1> USE DEF taskVars, emuVars, intVars, countVars, threadVars, Goto, TGoto
<1>0. /\ IInv /\ TaskTypes /\ SeqTypes /\ Contents
      /\ \A p \in Packets : OnePlace(p)
  BY AllTypes, PlaceIs DEF IInv
<1>g. ASSUME UNCHANGED <<unsent, port, msg, queue, replied>>,
             \A v \in Units : Holds(v)' <=> Holds(v)
      PROVE  \A p \in Packets : OnePlace(p)'
  <2>1. \A p \in Packets : UnitOf[p] \in Units
    BY FilesysAssumption
  <2> QED
    BY <1>0, <1>g, <2>1 DEF OnePlace
<1>f. ASSUME UNCHANGED <<unsent, port, task, msg, queue, replied>>
      PROVE  \A p \in Packets : OnePlace(p)'
  BY <1>0, <1>f DEF OnePlace, Holds
<1>1. ASSUME NEW p \in Packets, Send(p) PROVE \A q \in Packets : OnePlace(q)'
  <2>1. /\ UnitOf[p] \in Units /\ p \in Of(UnitOf[p])
        /\ p \in unsent /\ unsent' = unsent \ {p}
        /\ port' = [port EXCEPT ![UnitOf[p]] = Append(port[UnitOf[p]], p)]
        /\ UNCHANGED <<task, msg, queue, replied>>
    BY <1>1, FilesysAssumption DEF Send, Of
  <2> SUFFICES ASSUME NEW q \in Packets PROVE OnePlace(q)'
    OBVIOUS
  <2>2. UnitOf[q] \in Units
    BY FilesysAssumption
  <2>3. Count({q}, Append(port[UnitOf[p]], p))
          = Count({q}, port[UnitOf[p]]) + (IF p = q THEN 1 ELSE 0)
    BY <1>0, <2>1, PlaceCounts
  <2>4. Count({q}, port[UnitOf[q]]) \in Nat
        /\ Count({q}, queue[UnitOf[q]]) \in Nat
    BY <1>0, <2>2, PlaceCounts
  <2> HIDE DEF Count
  <2>5. Count({q}, port'[UnitOf[q]])
          = Count({q}, port[UnitOf[q]]) + (IF p = q THEN 1 ELSE 0)
    BY <1>0, <2>1, <2>2, <2>3, <2>4 DEF SeqTypes
  <2>6. OnePlace(q)
    BY <1>0
  <2> QED
    BY <2>1, <2>2, <2>4, <2>5, <2>6 DEF OnePlace, Holds
<1>2. ASSUME NEW u \in Units, GetMsg(u) PROVE \A p \in Packets : OnePlace(p)'
  <2>1. /\ port[u] # <<>> /\ task[u] = "wait"
        /\ task' = [task EXCEPT ![u] = IF Head(port[u]) = Dummy THEN "dummy"
                                       ELSE "dos"]
        /\ msg' = [msg EXCEPT ![u] = Head(port[u])]
        /\ port' = [port EXCEPT ![u] = Tail(port[u])]
        /\ Head(port[u]) \in Of(u) \cup {Dummy}
        /\ UNCHANGED <<unsent, queue, replied>>
    <3>1. port[u] \in Seq(Of(u) \cup {Dummy}) /\ port[u] # <<>>
      BY <1>0, <1>2 DEF GetMsg, SeqTypes
    <3>2. Head(port[u]) \in Of(u) \cup {Dummy}
      BY <3>1, TailIs
    <3> QED
      BY <1>2, <3>2 DEF GetMsg
  <2> SUFFICES ASSUME NEW q \in Packets PROVE OnePlace(q)'
    OBVIOUS
  <2>2. UnitOf[q] \in Units /\ OnePlace(q)
    BY <1>0, FilesysAssumption
  <2>3. Count({q}, port[UnitOf[q]]) \in Nat
        /\ Count({q}, queue[UnitOf[q]]) \in Nat
    BY <1>0, <2>2, PlaceCounts
  <2>4. Count({q}, port'[UnitOf[q]])
          = Count({q}, port[UnitOf[q]])
            - (IF UnitOf[q] = u /\ Head(port[u]) = q THEN 1 ELSE 0)
    <3>1. Count({q}, port[u]) = Count({q}, Tail(port[u]))
                                + (IF Head(port[u]) = q THEN 1 ELSE 0)
      BY <1>0, <2>1, PlaceCounts
    <3>2. port'[u] = Tail(port[u]) /\ (UnitOf[q] # u => port'[UnitOf[q]] = port[UnitOf[q]])
      BY <1>0, <2>1, <2>2 DEF SeqTypes
    <3>3. Count({q}, Tail(port[u])) \in Nat
      <4>1. Tail(port[u]) \in Seq(Of(u) \cup {Dummy})
        BY <1>0, <2>1, TailIs DEF SeqTypes
      <4> QED
        BY <4>1, CountType
    <3> QED
      BY <2>3, <3>1, <3>2, <3>3
  <2>5. q # Dummy
    BY FilesysAssumption
  <2>6. task \in [Units -> {"wait", "dummy", "scan", "dos", "trap", "enqueue"}]
        /\ msg \in [Units -> Packets \cup {Dummy}]
    BY <1>0 DEF TaskTypes
  <2> QED
    BY <1>0, <2>1, <2>2, <2>3, <2>4, <2>5, <2>6 DEF OnePlace, Holds
<1>3. ASSUME NEW u \in Units, Release(u) PROVE \A p \in Packets : OnePlace(p)'
  <2>1. \A v \in Units : Holds(v)' <=> Holds(v)
    BY <1>0, <1>3 DEF Release, TaskTypes, Holds
  <2> QED
    BY <1>3, <1>g, <2>1 DEF Release
<1>4. ASSUME NEW u \in Units, ScanReply(u) PROVE \A p \in Packets : OnePlace(p)'
  <2>1. PICK k \in 1 .. Len(queue[u]) :
          /\ queue[u][k] \in Of(u)
          /\ queue' = [queue EXCEPT ![u] = RemoveAt(queue[u], k)]
          /\ replied' = replied \cup {queue[u][k]}
          /\ UNCHANGED <<unsent, port, task, msg>>
    BY <1>0, <1>4, ScanCounted DEF IInv, ScanReply
  <2>2. PICK b \in Of(u) : b = queue[u][k]
    BY <2>1
  <2>3. PICK t \in Seq(Of(u)) : t = RemoveAt(queue[u], k)
    BY <1>0, RemoveAtIs DEF SeqTypes
  <2> SUFFICES ASSUME NEW q \in Packets PROVE OnePlace(q)'
    OBVIOUS
  <2>4. UnitOf[q] \in Units /\ OnePlace(q)
    BY <1>0, FilesysAssumption
  <2>5. Count({q}, port[UnitOf[q]]) \in Nat
        /\ Count({q}, queue[UnitOf[q]]) \in Nat
    BY <1>0, <2>4, PlaceCounts
  <2>6. Count({q}, queue[u]) = Count({q}, t) + (IF b = q THEN 1 ELSE 0)
        /\ Count({q}, t) \in Nat
    <3>1. Count({q}, queue[u]) = Count({q}, RemoveAt(queue[u], k))
                                 + (IF queue[u][k] = q THEN 1 ELSE 0)
      <4>1. queue[u] \in Seq(Of(u))
        BY <1>0 DEF SeqTypes
      <4>2. Count({q}, queue[u]) = Count({q}, RemoveAt(queue[u], k))
                                   + (IF queue[u][k] \in {q} THEN 1 ELSE 0)
        BY <4>1, CountSteps
      <4> QED
        BY <4>2
    <3>2. Count({q}, t) \in Nat
      BY CountType
    <3> QED
      BY <2>2, <2>3, <3>1, <3>2
  <2>7. b = q => q \notin replied /\ UnitOf[q] = u
    BY <1>0, <2>2, Alone DEF IInv, Of
  <2>8. /\ queue'[u] = t
        /\ UnitOf[q] # u => queue'[UnitOf[q]] = queue[UnitOf[q]]
    BY <1>0, <2>1, <2>3, <2>4 DEF SeqTypes
  <2>9. Count({q}, queue'[UnitOf[q]])
          = Count({q}, queue[UnitOf[q]]) - (IF b = q THEN 1 ELSE 0)
    BY <2>5, <2>6, <2>7, <2>8
  <2>10. /\ q \in replied' <=> q \in replied \/ b = q
         /\ UNCHANGED <<unsent, port, task, msg>>
    BY <2>1, <2>2
  <2> QED
    BY <2>4, <2>5, <2>7, <2>9, <2>10 DEF OnePlace, Holds
<1>5. ASSUME NEW u \in Units, ScanEnd(u) PROVE \A p \in Packets : OnePlace(p)'
  <2>1. \A v \in Units : Holds(v)' <=> Holds(v)
    BY <1>0, <1>5 DEF ScanEnd, TaskTypes, Holds
  <2> QED
    BY <1>5, <1>g, <2>1 DEF ScanEnd
<1>6. ASSUME NEW u \in Units, TooMany(u) PROVE \A p \in Packets : OnePlace(p)'
  <2>1. \A v \in Units : Holds(v)' <=> Holds(v)
    BY <1>0, <1>6 DEF TooMany, TaskTypes, Holds
  <2> QED
    BY <1>6, <1>g, <2>1 DEF TooMany
<1>7. ASSUME NEW u \in Units, Refuse(u) PROVE \A p \in Packets : OnePlace(p)'
  <2>1. /\ task[u] = "dos" /\ msg[u] \in Of(u)
        /\ task' = [task EXCEPT ![u] = "wait"]
        /\ replied' = replied \cup {msg[u]}
        /\ UNCHANGED <<unsent, port, msg, queue>>
    BY <1>0, <1>7 DEF Refuse, TaskTypes, Holds
  <2> SUFFICES ASSUME NEW q \in Packets PROVE OnePlace(q)'
    OBVIOUS
  <2>2. UnitOf[q] \in Units /\ OnePlace(q)
    BY <1>0, FilesysAssumption
  <2>3. Count({q}, port[UnitOf[q]]) \in Nat
        /\ Count({q}, queue[UnitOf[q]]) \in Nat
    BY <1>0, <2>2, PlaceCounts
  <2>4. msg[u] = q => q \notin replied /\ UnitOf[q] = u
    <3>1. msg[u] = q => q \in Of(u)
      BY <2>1
    <3> QED
      BY <1>0, <2>1, <3>1, Alone DEF IInv, Of, Holds
  <2>5. task \in [Units -> {"wait", "dummy", "scan", "dos", "trap", "enqueue"}]
    BY <1>0 DEF TaskTypes
  <2> QED
    BY <1>0, <2>1, <2>2, <2>3, <2>4, <2>5 DEF OnePlace, Holds
<1>8. ASSUME NEW u \in Units, DoCommand(u) PROVE \A p \in Packets : OnePlace(p)'
  <2>1. \A v \in Units : Holds(v)' <=> Holds(v)
    BY <1>0, <1>8 DEF DoCommand, TaskTypes, Holds
  <2> QED
    BY <1>8, <1>g, <2>1 DEF DoCommand
<1>9. ASSUME NEW u \in Units, Enqueue(u) PROVE \A p \in Packets : OnePlace(p)'
  <2>1. /\ task[u] = "enqueue" /\ msg[u] \in Of(u)
        /\ task' = [task EXCEPT ![u] = "wait"]
        /\ queue' = [queue EXCEPT ![u] = <<msg[u]>> \o queue[u]]
        /\ UNCHANGED <<unsent, port, msg, replied>>
    BY <1>0, <1>9 DEF Enqueue, TaskTypes, Holds
  <2> SUFFICES ASSUME NEW q \in Packets PROVE OnePlace(q)'
    OBVIOUS
  <2>2. UnitOf[q] \in Units /\ OnePlace(q)
    BY <1>0, FilesysAssumption
  <2>3. Count({q}, port[UnitOf[q]]) \in Nat
        /\ Count({q}, queue[UnitOf[q]]) \in Nat
    BY <1>0, <2>2, PlaceCounts
  <2>4. Count({q}, queue'[UnitOf[q]])
          = Count({q}, queue[UnitOf[q]])
            + (IF UnitOf[q] = u /\ msg[u] = q THEN 1 ELSE 0)
    <3>1. Count({q}, <<msg[u]>> \o queue[u]) = Count({q}, queue[u])
                                + (IF msg[u] = q THEN 1 ELSE 0)
      BY <1>0, <2>1, PlaceCounts
    <3>2. /\ queue'[u] = <<msg[u]>> \o queue[u]
          /\ UnitOf[q] # u => queue'[UnitOf[q]] = queue[UnitOf[q]]
      BY <1>0, <2>1, <2>2 DEF SeqTypes
    <3> DEFINE t == <<msg[u]>> \o queue[u]
    <3> HIDE DEF t
    <3>3. /\ Count({q}, t) = Count({q}, queue[u]) + (IF msg[u] = q THEN 1 ELSE 0)
          /\ UnitOf[q] = u => queue'[UnitOf[q]] = t
      BY <3>1, <3>2 DEF t
    <3> QED
      BY <2>3, <3>2, <3>3
  <2>5. task \in [Units -> {"wait", "dummy", "scan", "dos", "trap", "enqueue"}]
    BY <1>0 DEF TaskTypes
  <2> QED
    BY <1>0, <2>1, <2>2, <2>3, <2>4, <2>5 DEF OnePlace, Holds
<1>10. ASSUME NEW u \in Units, PutDummy(u) PROVE \A p \in Packets : OnePlace(p)'
  <2>1. /\ port' = [port EXCEPT ![u] = Append(port[u], Dummy)]
        /\ UNCHANGED <<unsent, task, msg, queue, replied>>
    BY <1>10 DEF PutDummy
  <2> SUFFICES ASSUME NEW q \in Packets PROVE OnePlace(q)'
    OBVIOUS
  <2>2. UnitOf[q] \in Units /\ OnePlace(q)
    BY <1>0, FilesysAssumption
  <2>3. Count({q}, port[UnitOf[q]]) \in Nat
        /\ Count({q}, queue[UnitOf[q]]) \in Nat
    BY <1>0, <2>2, PlaceCounts
  <2>4. Count({q}, port'[UnitOf[q]]) = Count({q}, port[UnitOf[q]])
    <3>1. q # Dummy
      BY FilesysAssumption
    <3>2. Count({q}, Append(port[u], Dummy))
            = Count({q}, port[u]) + (IF Dummy = q THEN 1 ELSE 0)
      BY <1>0, PlaceCounts
    <3>3. /\ port'[u] = Append(port[u], Dummy)
          /\ UnitOf[q] # u => port'[UnitOf[q]] = port[UnitOf[q]]
      BY <1>0, <2>1, <2>2 DEF SeqTypes
    <3> DEFINE t == Append(port[u], Dummy)
    <3> HIDE DEF t
    <3>4. /\ Count({q}, t) = Count({q}, port[u])
          /\ UnitOf[q] = u => port'[UnitOf[q]] = t
      <4>1. Dummy # q /\ Count({q}, port[u]) \in Nat
        BY <1>0, <3>1, PlaceCounts
      <4> QED
        BY <3>2, <3>3, <4>1 DEF t
    <3> QED
      BY <3>3, <3>4
  <2> QED
    BY <1>0, <2>1, <2>2, <2>3, <2>4 DEF OnePlace, Holds
<1>11. CASE WritePacket
  <2>1. emuUnit \in Units /\ UNCHANGED <<unsent, port, msg, queue, replied>>
        /\ (written < 2 => UNCHANGED task)
        /\ (~(written < 2) => /\ task[emuUnit] = "trap"
                              /\ task' = [task EXCEPT ![emuUnit] = "enqueue"])
    BY <1>0, <1>11 DEF WritePacket, IInv, TrapPlace
  <2>2. \A v \in Units : Holds(v)' <=> Holds(v)
    BY <1>0, <2>1 DEF TaskTypes, Holds
  <2> QED
    BY <1>g, <2>1, <2>2
<1>12. CASE Reboot
  <2> SUFFICES ASSUME NEW q \in Packets PROVE OnePlace(q)'
    OBVIOUS
  <2>1. UnitOf[q] \in Units
    BY FilesysAssumption
  <2>2. /\ unsent' = Packets /\ port'[UnitOf[q]] = <<>>
        /\ task'[UnitOf[q]] = "wait"
        /\ queue'[UnitOf[q]] = <<>> /\ replied' = {}
    BY <1>12, <2>1 DEF Reboot
  <2>3. Count({q}, <<>>) = 0
    <3>1. <<>> \in Seq({})
      BY EmptySeq
    <3> QED
      BY <3>1, CountSteps
  <2> QED
    BY <2>2, <2>3 DEF OnePlace, Holds
<1>13. ASSUME NEW u \in Units,
             \/ ScanNext(u) \/ ReadWord(u) \/ Drop(u) \/ Handle(u)
             \/ CountSent(u) \/ RaiseInt(u) \/ Uncount(u) \/ SendLocks(u)
      PROVE  \A p \in Packets : OnePlace(p)'
  BY <1>f, <1>13 DEF ScanNext, ReadWord, Drop, Handle, CountSent, RaiseInt,
     Uncount, SendLocks
<1>14. CASE \/ CountPacket \/ Hsync \/ EnterServer \/ NoneNeeds
          \/ LeaveServer \/ Reset \/ SendDeath \/ NextDown
  BY <1>f, <1>14 DEF CountPacket, Hsync, EnterServer, NoneNeeds, LeaveServer,
     Reset, SendDeath, NextDown
<1>15. CASE UNCHANGED vars
  BY <1>f, <1>15 DEF vars
<1> QED
  BY <1>1, <1>2, <1>3, <1>4, <1>5, <1>6, <1>7, <1>8, <1>9, <1>10, <1>11,
     <1>12, <1>13, <1>14, <1>15
     DEF Next, TaskStep, ThreadStep, HandlerStep, ServerStep, ResetStep

\* The dummy message of a unit.
LEMMA DummyPlaceInv ==
  ASSUME IInv, [Next]_vars
  PROVE  \A v \in Units : DummyPlace(v)'
<1> USE DEF taskVars, emuVars, intVars, countVars, threadVars, Goto, TGoto
<1>0. /\ IInv /\ TaskTypes /\ CountTypes /\ SeqTypes /\ Contents
      /\ \A v \in Units : DummyPlace(v)
  BY AllTypes, PlaceIs DEF IInv
<1>f. ASSUME UNCHANGED <<port, task, acked, complete>>
      PROVE  \A v \in Units : DummyPlace(v)'
  BY <1>0, <1>f DEF DummyPlace
<1>1. ASSUME NEW p \in Packets, Send(p) PROVE \A v \in Units : DummyPlace(v)'
  <2>1. /\ UnitOf[p] \in Units /\ p \in Of(UnitOf[p]) /\ p # Dummy
        /\ port' = [port EXCEPT ![UnitOf[p]] = Append(port[UnitOf[p]], p)]
        /\ UNCHANGED <<task, acked, complete>>
    BY <1>1, FilesysAssumption DEF Send, Of
  <2>2. \A v \in Units : Count({Dummy}, port'[v]) = Count({Dummy}, port[v])
    <3>1. Count({Dummy}, Append(port[UnitOf[p]], p))
            = Count({Dummy}, port[UnitOf[p]]) + (IF p = Dummy THEN 1 ELSE 0)
          /\ Count({Dummy}, port[UnitOf[p]]) \in Nat
      BY <1>0, <2>1, PlaceCounts
    <3>2. \A v \in Units :
            port'[v] = IF v = UnitOf[p] THEN Append(port[UnitOf[p]], p) ELSE port[v]
      BY <1>0, <2>1 DEF SeqTypes
    <3> QED
      BY <2>1, <3>1, <3>2
  <2> QED
    BY <1>0, <2>1, <2>2 DEF DummyPlace
<1>2. ASSUME NEW u \in Units, GetMsg(u) PROVE \A v \in Units : DummyPlace(v)'
  <2>1. /\ port[u] # <<>> /\ task[u] = "wait"
        /\ task' = [task EXCEPT ![u] = IF Head(port[u]) = Dummy THEN "dummy"
                                       ELSE "dos"]
        /\ port' = [port EXCEPT ![u] = Tail(port[u])]
        /\ UNCHANGED <<acked, complete>>
    BY <1>2 DEF GetMsg
  <2>2. PICK h \in Of(u) \cup {Dummy}, t \in Seq(Of(u) \cup {Dummy}) :
          h = Head(port[u]) /\ t = Tail(port[u])
    BY <1>0, <2>1, TailIs DEF SeqTypes
  <2>3. /\ Count({Dummy}, port[u])
             = Count({Dummy}, t) + (IF h = Dummy THEN 1 ELSE 0)
        /\ Count({Dummy}, t) \in Nat
    <3>1. Count({Dummy}, t) \in Nat
      BY CountType
    <3> QED
      BY <1>0, <2>1, <2>2, <3>1, PlaceCounts
  <2>4. port'[u] = t /\ \A v \in Units : v # u => port'[v] = port[v]
    BY <1>0, <2>1, <2>2 DEF SeqTypes
  <2>5. task'[u] = (IF h = Dummy THEN "dummy" ELSE "dos")
        /\ \A v \in Units : v # u => task'[v] = task[v]
    BY <1>0, <2>1, <2>2 DEF TaskTypes
  <2>6. DummyPlace(u)'
    <3>1. DummyPlace(u) /\ task[u] = "wait" /\ acked' = acked
          /\ complete' = complete
      BY <1>0, <2>1
    <3> QED
      BY <2>3, <2>4, <2>5, <3>1 DEF DummyPlace
  <2>7. ASSUME NEW v \in Units, v # u PROVE DummyPlace(v)'
    <3>1. /\ DummyPlace(v) /\ acked' = acked /\ complete' = complete
          /\ port'[v] = port[v] /\ task'[v] = task[v]
      BY <1>0, <2>1, <2>4, <2>5, <2>7
    <3> QED
      BY <3>1, Zenon DEF DummyPlace
  <2> QED
    BY <2>6, <2>7
<1>3. ASSUME NEW u \in Units, Release(u) PROVE \A v \in Units : DummyPlace(v)'
  <2>1. /\ task[u] = "dummy" /\ task' = [task EXCEPT ![u] = "scan"]
        /\ complete' = [complete EXCEPT ![u] = acked[u]]
        /\ UNCHANGED <<port, acked>>
    BY <1>3 DEF Release
  <2>2. /\ task'[u] = "scan" /\ complete'[u] = acked[u]
        /\ \A v \in Units : v # u => /\ task'[v] = task[v]
                                     /\ complete'[v] = complete[v]
    BY <1>0, <2>1 DEF TaskTypes, CountTypes
  <2>3. DummyPlace(u)'
    <3>1. DummyPlace(u) /\ Count({Dummy}, port[u]) \in Nat
      BY <1>0, PlaceCounts
    <3>2. Count({Dummy}, port[u]) = 0 /\ port' = port /\ acked' = acked
      BY <2>1, <3>1 DEF DummyPlace
    <3> QED
      BY <2>2, <3>2 DEF DummyPlace
  <2>4. ASSUME NEW v \in Units, v # u PROVE DummyPlace(v)'
    <3>1. /\ DummyPlace(v) /\ acked' = acked /\ port' = port
          /\ complete'[v] = complete[v] /\ task'[v] = task[v]
      BY <1>0, <2>1, <2>2, <2>4
    <3> QED
      BY <3>1, Zenon DEF DummyPlace
  <2> QED
    BY <2>3, <2>4
<1>4. ASSUME NEW u \in Units, ScanEnd(u) PROVE \A v \in Units : DummyPlace(v)'
  <2>1. \A v \in Units : task'[v] = "dummy" <=> task[v] = "dummy"
    BY <1>0, <1>4 DEF ScanEnd, TaskTypes
  <2> QED
    BY <1>0, <1>4, <2>1 DEF ScanEnd, DummyPlace
<1>5. ASSUME NEW u \in Units, TooMany(u) PROVE \A v \in Units : DummyPlace(v)'
  <2>1. \A v \in Units : task'[v] = "dummy" <=> task[v] = "dummy"
    BY <1>0, <1>5 DEF TooMany, TaskTypes
  <2> QED
    BY <1>0, <1>5, <2>1 DEF TooMany, DummyPlace
<1>6. ASSUME NEW u \in Units, Refuse(u) PROVE \A v \in Units : DummyPlace(v)'
  <2>1. \A v \in Units : task'[v] = "dummy" <=> task[v] = "dummy"
    BY <1>0, <1>6 DEF Refuse, TaskTypes
  <2> QED
    BY <1>0, <1>6, <2>1 DEF Refuse, DummyPlace
<1>7. ASSUME NEW u \in Units, DoCommand(u) PROVE \A v \in Units : DummyPlace(v)'
  <2>1. \A v \in Units : task'[v] = "dummy" <=> task[v] = "dummy"
    BY <1>0, <1>7 DEF DoCommand, TaskTypes
  <2> QED
    BY <1>0, <1>7, <2>1 DEF DoCommand, DummyPlace
<1>8. ASSUME NEW u \in Units, Enqueue(u) PROVE \A v \in Units : DummyPlace(v)'
  <2>1. \A v \in Units : task'[v] = "dummy" <=> task[v] = "dummy"
    BY <1>0, <1>8 DEF Enqueue, TaskTypes
  <2> QED
    BY <1>0, <1>8, <2>1 DEF Enqueue, DummyPlace
<1>9. ASSUME NEW u \in Units, PutDummy(u) PROVE \A v \in Units : DummyPlace(v)'
  <2>1. /\ acked[u] = complete[u] /\ acked[u] # sent[u]
        /\ acked' = [acked EXCEPT ![u] = sent[u]]
        /\ port' = [port EXCEPT ![u] = Append(port[u], Dummy)]
        /\ UNCHANGED <<task, complete>>
    BY <1>9 DEF PutDummy, Needs
  <2>2. PICK t : t = Append(port[u], Dummy)
    OBVIOUS
  <2>3. Count({Dummy}, t) = Count({Dummy}, port[u]) + 1
        /\ Count({Dummy}, port[u]) \in Nat
    BY <1>0, <2>2, PlaceCounts
  <2>4. port'[u] = t /\ \A v \in Units : v # u => port'[v] = port[v]
    BY <1>0, <2>1, <2>2 DEF SeqTypes
  <2>5. acked'[u] # complete[u] /\ \A v \in Units : v # u => acked'[v] = acked[v]
    BY <1>0, <2>1 DEF CountTypes
  <2>6. DummyPlace(u)'
    <3>1. DummyPlace(u)
      BY <1>0
    <3>2. Count({Dummy}, port[u]) = 0 /\ task[u] # "dummy"
      BY <2>1, <2>3, <3>1 DEF DummyPlace
    <3>3. Count({Dummy}, t) = 1
      BY <2>3, <3>2
    <3>4. Count({Dummy}, port'[u]) = 1
      BY <2>4, <3>3, Zenon
    <3>5. task'[u] # "dummy" /\ acked'[u] # complete'[u]
      BY <2>1, <2>5, <3>2
    <3> QED
      BY <3>4, <3>5 DEF DummyPlace
  <2>7. ASSUME NEW v \in Units, v # u PROVE DummyPlace(v)'
    <3>1. /\ DummyPlace(v) /\ task' = task /\ complete' = complete
          /\ port'[v] = port[v] /\ acked'[v] = acked[v]
      BY <1>0, <2>1, <2>4, <2>5, <2>7
    <3> QED
      BY <3>1, Zenon DEF DummyPlace
  <2> QED
    BY <2>6, <2>7
<1>10. CASE WritePacket
  <2>1. emuUnit \in Units /\ UNCHANGED <<port, acked, complete>>
        /\ (written < 2 => UNCHANGED task)
        /\ (~(written < 2) => /\ task[emuUnit] = "trap"
                              /\ task' = [task EXCEPT ![emuUnit] = "enqueue"])
    BY <1>0, <1>10 DEF WritePacket, IInv, TrapPlace
  <2>2. \A v \in Units : task'[v] = "dummy" <=> task[v] = "dummy"
    BY <1>0, <2>1 DEF TaskTypes
  <2> QED
    BY <1>0, <2>1, <2>2 DEF DummyPlace
<1>11. CASE Reboot
  <2>1. Count({Dummy}, <<>>) = 0
    <3>1. <<>> \in Seq({})
      BY EmptySeq
    <3> QED
      BY <3>1, CountSteps
  <2>2. \A v \in Units : /\ port'[v] = <<>> /\ task'[v] = "wait"
                         /\ acked'[v] = 0 /\ complete'[v] = 0
    BY <1>11 DEF Reboot
  <2> QED
    BY <2>1, <2>2 DEF DummyPlace
<1>12. ASSUME NEW u \in Units,
             \/ ScanReply(u) \/ ScanNext(u) \/ ReadWord(u) \/ Drop(u)
             \/ Handle(u) \/ CountSent(u) \/ RaiseInt(u) \/ Uncount(u)
             \/ SendLocks(u)
      PROVE  \A v \in Units : DummyPlace(v)'
  BY <1>f, <1>12 DEF ScanReply, ScanNext, ReadWord, Drop, Handle, CountSent,
     RaiseInt, Uncount, SendLocks
<1>13. CASE \/ CountPacket \/ Hsync \/ EnterServer \/ NoneNeeds
          \/ LeaveServer \/ Reset \/ SendDeath \/ NextDown
  BY <1>f, <1>13 DEF CountPacket, Hsync, EnterServer, NoneNeeds, LeaveServer,
     Reset, SendDeath, NextDown
<1>14. CASE UNCHANGED vars
  BY <1>f, <1>14 DEF vars
<1> QED
  BY <1>1, <1>2, <1>3, <1>4, <1>5, <1>6, <1>7, <1>8, <1>9, <1>10, <1>11,
     <1>12, <1>13, <1>14
     DEF Next, TaskStep, ThreadStep, HandlerStep, ServerStep, ResetStep

\* So packets and dummy messages stay in one place.
LEMMA PlaceInv ==
  ASSUME IInv, [Next]_vars
  PROVE  PacketInOnePlace' /\ OneDummy'
<1>1. /\ (PacketInOnePlace <=> \A p \in Packets : OnePlace(p))'
      /\ (OneDummy <=> \A u \in Units : DummyPlace(u))'
  BY PlaceIs, PTL
<1> QED
  BY <1>1, OnePlaceInv, DummyPlaceInv

\* What was answered.
LEMMA AnsweredInv ==
  ASSUME IInv, [Next]_vars
  PROVE  AnsweredWhenDone'
<1> USE DEF taskVars, emuVars, intVars, countVars, threadVars, Goto, TGoto
<1>0. IInv /\ TaskTypes /\ AnsweredWhenDone
  BY AllTypes DEF IInv
<1>f. ASSUME UNCHANGED <<status, replied>>
      PROVE  AnsweredWhenDone'
  BY <1>0, <1>f DEF AnsweredWhenDone
<1>1. ASSUME NEW u \in Units, ScanReply(u) PROVE AnsweredWhenDone'
  <2>1. status[queue[u][scan[u]]] = -1
        /\ replied' = replied \cup {queue[u][scan[u]]} /\ UNCHANGED status
    BY <1>0, <1>1, ScanCounted DEF IInv, ScanReply
  <2> QED
    BY <1>0, <2>1 DEF AnsweredWhenDone
<1>2. ASSUME NEW u \in Units, TooMany(u) PROVE AnsweredWhenDone'
  <2>1. msg[u] \in Of(u) /\ msg[u] \notin replied
    BY <1>0, <1>2, Alone DEF TooMany, IInv, TaskTypes, Holds
  <2> QED
    BY <1>0, <1>2, <2>1 DEF TooMany, AnsweredWhenDone, TaskTypes
<1>3. ASSUME NEW u \in Units, Refuse(u) PROVE AnsweredWhenDone'
  BY <1>0, <1>3 DEF Refuse, AnsweredWhenDone
<1>4. ASSUME NEW u \in Units, Handle(u) PROVE AnsweredWhenDone'
  BY <1>0, <1>4 DEF Handle, AnsweredWhenDone, TaskTypes
<1>5. CASE CountPacket
  <2>1. emuUnit \in Units /\ task[emuUnit] = "trap"
    BY <1>0, <1>5 DEF CountPacket, IInv, TrapPlace
  <2>2. msg[emuUnit] \in Of(emuUnit) /\ msg[emuUnit] \notin replied
    BY <1>0, <2>1, Alone DEF IInv, TaskTypes, Holds
  <2> QED
    BY <1>0, <1>5, <2>2 DEF CountPacket, AnsweredWhenDone, TaskTypes
<1>6. CASE Reboot
  BY <1>0, <1>6 DEF Reboot, AnsweredWhenDone
<1>7. ASSUME NEW u \in Units,
             \/ GetMsg(u) \/ Release(u) \/ ScanNext(u) \/ ScanEnd(u)
             \/ DoCommand(u) \/ Enqueue(u) \/ ReadWord(u) \/ Drop(u)
             \/ CountSent(u) \/ RaiseInt(u) \/ Uncount(u) \/ SendLocks(u)
             \/ PutDummy(u)
      PROVE  AnsweredWhenDone'
  BY <1>f, <1>7 DEF GetMsg, Release, ScanNext, ScanEnd, DoCommand, Enqueue,
     ReadWord, Drop, CountSent, RaiseInt, Uncount, SendLocks, PutDummy
<1>8. CASE \/ WritePacket \/ Hsync \/ EnterServer \/ NoneNeeds
          \/ LeaveServer \/ Reset \/ SendDeath \/ NextDown
          \/ \E p \in Packets : Send(p)
  BY <1>f, <1>8 DEF WritePacket, Hsync, EnterServer, NoneNeeds, LeaveServer,
     Reset, SendDeath, NextDown, Send
<1>9. CASE UNCHANGED vars
  BY <1>f, <1>9 DEF vars
<1> QED
  BY <1>1, <1>2, <1>3, <1>4, <1>5, <1>6, <1>7, <1>8, <1>9
     DEF Next, TaskStep, ThreadStep, HandlerStep, ServerStep, ResetStep

-----------------------------------------------------------------------------
(* What the list holds: the commands begun (d5) and those not done.        *)

\* The commands of a unit's list, and the one about to join it, whose status
\* is in X.
Tagged(X) == {p \in Packets : status[p] \in X}
InList(X, u) == Count(Tagged(X), queue[u])
                + (IF task[u] = "enqueue" /\ status[msg[u]] \in X THEN 1 ELSE 0)

\* d5 counts those begun; Undone those not done.
LEMMA InListIs ==
  TypeOK /\ Contents =>
    /\ D5Counts <=> \A u \in Units : d5[u] = InList({-1, 0}, u)
    /\ \A u \in Units : /\ Undone(u) = InList({0}, u)
                        /\ InList({0}, u) \in Nat /\ InList({-1, 0}, u) \in Nat
                        /\ InList({0}, u) <= InList({-1, 0}, u)
<1> SUFFICES ASSUME TypeOK, Contents
             PROVE  /\ D5Counts <=> \A u \in Units : d5[u] = InList({-1, 0}, u)
                    /\ \A u \in Units :
                         /\ Undone(u) = InList({0}, u)
                         /\ InList({0}, u) \in Nat /\ InList({-1, 0}, u) \in Nat
                         /\ InList({0}, u) <= InList({-1, 0}, u)
  OBVIOUS
<1>1. status \in [Packets -> {-1, 0, 1}]
  BY DEF TypeOK
<1>2. {p \in Packets : status[p] # 1} = Tagged({-1, 0})
  BY <1>1 DEF Tagged
<1>3. Marked(0) = Tagged({0})
  BY <1>1 DEF Tagged, Marked
<1>4. ASSUME NEW u \in Units
      PROVE  task[u] = "enqueue" => /\ status[msg[u]] # 1
                                        <=> status[msg[u]] \in {-1, 0}
                                    /\ status[msg[u]] = 0
                                        <=> status[msg[u]] \in {0}
  <2>1. task[u] = "enqueue" => msg[u] \in Packets
    BY DEF Contents, Holds, Of
  <2> QED
    BY <1>1, <2>1
<1>5. ASSUME NEW u \in Units
      PROVE  Cardinality({i \in 1 .. Len(queue[u]) : status[queue[u][i]] # 1})
               = Count(Tagged({-1, 0}), queue[u])
  <2>1. queue[u] \in Seq(Packets)
    BY UnitTypes
  <2> QED
    BY <1>2, <2>1, StartedCount
<1>6. ASSUME NEW u \in Units
      PROVE  /\ Count(Tagged({0}), queue[u]) \in Nat
             /\ Count(Tagged({-1, 0}), queue[u]) \in Nat
             /\ Count(Tagged({0}), queue[u]) <= Count(Tagged({-1, 0}), queue[u])
  <2>1. queue[u] \in Seq(Packets)
    BY UnitTypes
  <2>2. \A p : p \in Tagged({0}) => p \in Tagged({-1, 0})
    BY DEF Tagged
  <2> QED
    BY <2>1, <2>2, CountType, CountSets
<1>7. ASSUME NEW u \in Units
      PROVE  /\ Undone(u) = InList({0}, u)
             /\ InList({0}, u) \in Nat /\ InList({-1, 0}, u) \in Nat
             /\ InList({0}, u) <= InList({-1, 0}, u)
  <2>1. Undone(u) = InList({0}, u)
    BY <1>3, <1>4 DEF Undone, InList
  <2>2. /\ InList({0}, u) \in Nat /\ InList({-1, 0}, u) \in Nat
        /\ InList({0}, u) <= InList({-1, 0}, u)
    BY <1>6 DEF InList
  <2> QED
    BY <2>1, <2>2
<1>8. D5Counts <=> \A u \in Units : d5[u] = InList({-1, 0}, u)
  BY <1>4, <1>5 DEF D5Counts, InList
<1> QED
  BY <1>7, <1>8

\* A packet that a task holds is in no list.
LEMMA HeldIsNotListed ==
  ASSUME IInv, NEW u \in Units, Holds(u)
  PROVE  /\ msg[u] \in Of(u)
         /\ \A v \in Units : /\ \A i \in 1 .. Len(queue[v]) : queue[v][i] # msg[u]
                             /\ v # u /\ Holds(v) => msg[v] # msg[u]
<1>1. Contents /\ PacketInOnePlace
  BY DEF IInv
<1>2. msg[u] \in Of(u)
  BY <1>1 DEF Contents
<1>3. ASSUME NEW v \in Units, v # u
      PROVE  \A i \in 1 .. Len(queue[v]) : queue[v][i] # msg[u]
  BY <1>1, <1>2, <1>3, UnitTypes DEF Of
<1>4. \A i \in 1 .. Len(queue[u]) : queue[u][i] # msg[u]
  BY <1>1, <1>2, Alone
<1>5. \A v \in Units : v # u /\ Holds(v) => msg[v] # msg[u]
  BY <1>1, <1>2 DEF Contents, Of
<1> QED
  BY <1>2, <1>3, <1>4, <1>5

\* A new status of a packet that is not in a list leaves the list's counts.
LEMMA Retag ==
  ASSUME Contents, NEW v \in Units, NEW X, NEW st, NEW m,
         \A p \in Packets : p # m => st[p] = status[p],
         \A i \in 1 .. Len(queue[v]) : queue[v][i] # m
  PROVE  Count({p \in Packets : st[p] \in X}, queue[v]) = Count(Tagged(X), queue[v])
<1>1. queue[v] \in Seq(Packets)
      /\ \A i \in 1 .. Len(queue[v]) : queue[v][i] \in Packets
  BY UnitTypes
<1> DEFINE S == {p \in Packets : st[p] \in X}
<1>2. \A i \in 1 .. Len(queue[v]) : queue[v][i] \in S <=> queue[v][i] \in Tagged(X)
  BY <1>1 DEF Tagged
<1> HIDE DEF S
<1>3. Count(S, queue[v]) = Count(Tagged(X), queue[v])
  BY <1>1, <1>2, CountSets
<1> QED
  BY <1>3 DEF S

\* Steps that leave what a unit's list holds, or move a command into it.
LEMMA ListKept ==
  ASSUME IInv, NEW v \in Units, NEW X, 0 \in X, 1 \notin X,
         \/ \E u \in Units : \/ GetMsg(u) \/ Release(u) \/ ScanEnd(u)
                             \/ TooMany(u) \/ Refuse(u) \/ DoCommand(u)
                             \/ Enqueue(u)
                             \/ u # v /\ (ScanReply(u) \/ Handle(u))
         \/ CountPacket
         \/ WritePacket /\ (written < 2 \/ emuUnit # v)
         \/ UNCHANGED <<task, msg, queue, status>>
  PROVE  InList(X, v)' = InList(X, v)
<1> USE DEF Goto, TGoto
<1>0. /\ TypeOK /\ Contents /\ TaskTypes /\ SeqTypes /\ TrapPlace
  BY AllTypes DEF IInv
<1>f. ASSUME queue'[v] = queue[v], status' = status,
             task'[v] = "enqueue" <=> task[v] = "enqueue",
             task[v] = "enqueue" => msg'[v] = msg[v]
      PROVE  InList(X, v)' = InList(X, v)
  <2>1. Tagged(X)' = Tagged(X)
    BY <1>f DEF Tagged
  <2>2. Count(Tagged(X), queue[v])' = Count(Tagged(X), queue[v])
    BY <1>f, <2>1, Zenon
  <2>3. task'[v] = "enqueue" /\ status'[msg'[v]] \in X
          <=> task[v] = "enqueue" /\ status[msg[v]] \in X
    BY <1>f
  <2> QED
    BY <2>2, <2>3 DEF InList
<1>s. ASSUME NEW m, queue' = queue, \A i \in 1 .. Len(queue[v]) : queue[v][i] # m,
             \A p \in Packets : p # m => status'[p] = status[p],
             task'[v] = "enqueue" /\ status'[msg'[v]] \in X
               <=> task[v] = "enqueue" /\ status[msg[v]] \in X
      PROVE  InList(X, v)' = InList(X, v)
  <2>1. Count({p \in Packets : status'[p] \in X}, queue[v])
          = Count(Tagged(X), queue[v])
    BY <1>0, <1>s, Retag
  <2>2. Tagged(X)' = {p \in Packets : status'[p] \in X}
    BY DEF Tagged
  <2>3. Count(Tagged(X), queue[v])' = Count(Tagged(X), queue[v])
    BY <1>s, <2>1, <2>2, Zenon
  <2> QED
    BY <1>s, <2>3 DEF InList
<1>1. ASSUME NEW u \in Units,
             GetMsg(u) \/ Release(u) \/ ScanEnd(u) \/ Refuse(u) \/ DoCommand(u)
      PROVE  InList(X, v)' = InList(X, v)
  <2>1. /\ queue' = queue /\ status' = status
        /\ task'[v] = "enqueue" <=> task[v] = "enqueue"
        /\ task[v] = "enqueue" => msg'[v] = msg[v]
    BY <1>0, <1>1 DEF GetMsg, Release, ScanEnd, Refuse, DoCommand, TaskTypes
  <2> QED
    BY <1>f, <2>1
<1>2. ASSUME NEW u \in Units, TooMany(u) PROVE InList(X, v)' = InList(X, v)
  <2>1. /\ task[u] = "dos" /\ task' = [task EXCEPT ![u] = "enqueue"]
        /\ status' = [status EXCEPT ![msg[u]] = 1]
        /\ queue' = queue /\ msg' = msg
    BY <1>2 DEF TooMany
  <2>2. /\ msg[u] \in Of(u)
        /\ \A i \in 1 .. Len(queue[v]) : queue[v][i] # msg[u]
        /\ v # u /\ Holds(v) => msg[v] # msg[u]
    BY <2>1, HeldIsNotListed DEF Holds
  <2>3. msg[u] \in Packets /\ (task[v] = "enqueue" => msg[v] \in Packets)
    BY <1>0, <2>2 DEF TaskTypes, Holds, Of
  <2>4. \A p \in Packets : p # msg[u] => status'[p] = status[p]
    BY <1>0, <2>1 DEF TaskTypes
  <2>5. status'[msg[u]] = 1
    BY <1>0, <2>1, <2>3 DEF TaskTypes
  <2>6. task'[v] = "enqueue" /\ status'[msg'[v]] \in X
          <=> task[v] = "enqueue" /\ status[msg[v]] \in X
    <3>1. CASE v = u
      BY <1>0, <2>1, <2>5, <3>1 DEF TaskTypes
    <3>2. CASE v # u
      BY <1>0, <2>1, <2>2, <2>3, <2>4, <3>2 DEF TaskTypes, Holds
    <3> QED
      BY <3>1, <3>2
  <2> QED
    BY <1>s, <2>1, <2>2, <2>4, <2>6
<1>3. ASSUME NEW u \in Units, Enqueue(u) PROVE InList(X, v)' = InList(X, v)
  <2>1. /\ task[u] = "enqueue" /\ task' = [task EXCEPT ![u] = "wait"]
        /\ queue' = [queue EXCEPT ![u] = <<msg[u]>> \o queue[u]]
        /\ status' = status /\ msg' = msg
    BY <1>3 DEF Enqueue
  <2>2. CASE v # u
    BY <1>f, <1>0, <2>1, <2>2 DEF TaskTypes, SeqTypes
  <2>3. CASE v = u
    <3>1. msg[u] \in Of(u) /\ msg[u] \in Packets /\ queue[u] \in Seq(Of(u))
      BY <1>0, <2>1 DEF TaskTypes, Holds, SeqTypes, Of
    <3>2. Count(Tagged(X), <<msg[u]>> \o queue[u])
            = Count(Tagged(X), queue[u])
              + (IF msg[u] \in Tagged(X) THEN 1 ELSE 0)
          /\ Count(Tagged(X), queue[u]) \in Nat
      BY <3>1, CountSteps, CountType
    <3>3. Tagged(X)' = Tagged(X) /\ (msg[u] \in Tagged(X) <=> status[msg[u]] \in X)
      BY <2>1, <3>1 DEF Tagged
    <3>4. queue'[u] = <<msg[u]>> \o queue[u] /\ task'[u] = "wait"
      BY <1>0, <2>1 DEF TaskTypes, SeqTypes
    <3>5. Count(Tagged(X), queue[u])' = Count(Tagged(X), <<msg[u]>> \o queue[u])
      BY <3>3, <3>4, Zenon
    <3> QED
      BY <2>1, <2>3, <3>2, <3>3, <3>4, <3>5 DEF InList
  <2> QED
    BY <2>2, <2>3
<1>4. ASSUME NEW u \in Units, u # v, ScanReply(u)
      PROVE  InList(X, v)' = InList(X, v)
  <2>1. queue'[v] = queue[v] /\ UNCHANGED <<task, msg, status>>
    BY <1>0, <1>4 DEF ScanReply, SeqTypes
  <2> QED
    BY <1>f, <2>1
<1>5. ASSUME NEW u \in Units, u # v, Handle(u)
      PROVE  InList(X, v)' = InList(X, v)
  <2>1. words[u][2] \in Of(u) /\ Len(words[u]) = 3 /\ goDown[u] = 0
    BY <1>5, HandleIs DEF Handle
  <2>2. /\ status' = [status EXCEPT ![words[u][2]] = -1]
        /\ UNCHANGED <<task, msg, queue>>
    BY <1>5 DEF Handle
  <2>3. /\ \A i \in 1 .. Len(queue[v]) : queue[v][i] # words[u][2]
        /\ task[v] = "enqueue" => msg[v] # words[u][2] /\ msg[v] \in Packets
    BY <1>0, <1>5, <2>1, UnitTypes DEF Of, TaskTypes, Holds
  <2>4. \A p \in Packets : p # words[u][2] => status'[p] = status[p]
    BY <1>0, <2>2 DEF TaskTypes
  <2>5. task'[v] = "enqueue" /\ status'[msg'[v]] \in X
          <=> task[v] = "enqueue" /\ status[msg[v]] \in X
    BY <2>2, <2>3, <2>4
  <2> QED
    BY <1>s, <2>2, <2>3, <2>4, <2>5
<1>6. CASE CountPacket
  <2>1. /\ emuUnit \in Units /\ task[emuUnit] = "trap"
        /\ status' = [status EXCEPT ![msg[emuUnit]] = 0]
        /\ UNCHANGED <<task, msg, queue>>
    BY <1>0, <1>6 DEF CountPacket, TrapPlace
  <2>2. /\ \A i \in 1 .. Len(queue[v]) : queue[v][i] # msg[emuUnit]
        /\ v # emuUnit /\ Holds(v) => msg[v] # msg[emuUnit]
    BY <2>1, HeldIsNotListed DEF Holds
  <2>3. \A p \in Packets : p # msg[emuUnit] => status'[p] = status[p]
    BY <1>0, <2>1 DEF TaskTypes
  <2>4. task'[v] = "enqueue" /\ status'[msg'[v]] \in X
          <=> task[v] = "enqueue" /\ status[msg[v]] \in X
    <3>1. task[v] = "enqueue" => msg[v] # msg[emuUnit] /\ msg[v] \in Packets
      BY <1>0, <2>1, <2>2 DEF TaskTypes, Holds, Of
    <3> QED
      BY <2>1, <2>3, <3>1
  <2> QED
    BY <1>s, <2>1, <2>2, <2>3, <2>4
<1>7. CASE WritePacket /\ (written < 2 \/ emuUnit # v)
  <2>1. task'[v] = task[v] /\ UNCHANGED <<queue, status, msg>>
    BY <1>0, <1>7 DEF WritePacket, TaskTypes
  <2> QED
    BY <1>f, <2>1
<1>8. CASE UNCHANGED <<task, msg, queue, status>>
  BY <1>f, <1>8
<1> QED
  BY <1>1, <1>2, <1>3, <1>4, <1>5, <1>6, <1>7, <1>8

\* A command that is answered leaves the list.
LEMMA ListReply ==
  ASSUME IInv, NEW u \in Units, ScanReply(u), NEW X
  PROVE  InList(X, u)' = InList(X, u) - (IF -1 \in X THEN 1 ELSE 0)
<1>0. /\ TypeOK /\ Contents /\ D5Counts /\ SeqTypes
  BY AllTypes DEF IInv
<1>1. PICK k \in 1 .. Len(queue[u]) :
        /\ queue[u][k] \in Of(u) /\ status[queue[u][k]] = -1
        /\ queue' = [queue EXCEPT ![u] = RemoveAt(queue[u], k)]
        /\ UNCHANGED <<task, msg, status>>
  BY <1>0, ScanCounted DEF ScanReply
<1>2. queue[u] \in Seq(Of(u)) /\ queue[u][k] \in Packets
  BY <1>0, <1>1 DEF SeqTypes, Of
<1>3. Count(Tagged(X), queue[u])
        = Count(Tagged(X), RemoveAt(queue[u], k))
          + (IF queue[u][k] \in Tagged(X) THEN 1 ELSE 0)
  BY <1>2, CountSteps
<1>4. Count(Tagged(X), RemoveAt(queue[u], k)) \in Nat
  <2>1. RemoveAt(queue[u], k) \in Seq(Of(u))
    BY <1>2, RemoveAtIs
  <2> QED
    BY <2>1, CountType
<1>5. queue[u][k] \in Tagged(X) <=> -1 \in X
  BY <1>1, <1>2 DEF Tagged
<1>6. Tagged(X)' = Tagged(X) /\ queue'[u] = RemoveAt(queue[u], k)
  BY <1>0, <1>1 DEF Tagged, SeqTypes
<1>7. Count(Tagged(X), queue[u])' = Count(Tagged(X), RemoveAt(queue[u], k))
  BY <1>6, Zenon
<1>8. task' = task /\ msg' = msg /\ status' = status
  BY <1>1
<1> QED
  BY <1>3, <1>4, <1>5, <1>7, <1>8 DEF InList

\* A trap that returns 1 has begun a command.
LEMMA ListWrite ==
  ASSUME IInv, WritePacket, ~(written < 2), NEW X, 0 \in X
  PROVE  InList(X, emuUnit)' = InList(X, emuUnit) + 1
<1>0. /\ TypeOK /\ Contents /\ TrapPlace /\ TaskTypes
  BY AllTypes DEF IInv
<1>1. /\ emuUnit \in Units /\ task[emuUnit] = "trap"
      /\ task' = [task EXCEPT ![emuUnit] = "enqueue"]
      /\ status[msg[emuUnit]] = 0 /\ UNCHANGED <<emuUnit, queue, status, msg>>
  BY <1>0 DEF WritePacket, TrapPlace, Goto
<1>2. task'[emuUnit] = "enqueue" /\ emuUnit' = emuUnit
  BY <1>0, <1>1 DEF TaskTypes
<1>3. Count(Tagged(X), queue[emuUnit]) \in Nat
  BY <1>0, <1>1, UnitTypes, CountType
<1>4. Count(Tagged(X), queue[emuUnit])' = Count(Tagged(X), queue[emuUnit])
  BY <1>1 DEF Tagged
<1> QED
  BY <1>1, <1>2, <1>3, <1>4 DEF InList

\* A command that a thread has carried out is begun, and was one not done.
LEMMA ListHandle ==
  ASSUME IInv, NEW u \in Units, Handle(u)
  PROVE  /\ InList({-1, 0}, u)' = InList({-1, 0}, u)
         /\ InList({0}, u)' >= InList({0}, u) - 1
<1>0. /\ TypeOK /\ Contents /\ TaskTypes /\ PacketInOnePlace
  BY AllTypes DEF IInv
<1>1. PICK p \in Of(u) :
        /\ p = words[u][2] /\ status[p] # 1
        /\ status' = [status EXCEPT ![p] = -1]
        /\ UNCHANGED <<task, msg, queue>>
        /\ Holds(u) /\ msg[u] = p => task[u] = "enqueue"
  BY HandleIs DEF Handle
<1>2. p \in Packets /\ queue[u] \in Seq(Packets)
      /\ (task[u] = "enqueue" => msg[u] \in Packets)
  BY <1>0, UnitTypes DEF Of, TaskTypes, Holds
<1>3. status \in [Packets -> {-1, 0, 1}]
  BY <1>0 DEF TaskTypes
<1>4. /\ status'[p] = -1 /\ \A q \in Packets : q # p => status'[q] = status[q]
      /\ task' = task /\ msg' = msg /\ queue' = queue
  BY <1>1, <1>2, <1>3
<1>5. InList({-1, 0}, u)' = InList({-1, 0}, u)
  <2>1. \A q \in Packets : status'[q] \in {-1, 0} <=> status[q] \in {-1, 0}
    BY <1>1, <1>2, <1>3, <1>4
  <2>2. Tagged({-1, 0})' = Tagged({-1, 0})
    BY <2>1 DEF Tagged
  <2>3. Count(Tagged({-1, 0}), queue[u])' = Count(Tagged({-1, 0}), queue[u])
    BY <1>4, <2>2, Zenon
  <2> QED
    BY <1>2, <1>4, <2>1, <2>3 DEF InList
<1>6. InList({0}, u)' >= InList({0}, u) - 1
  <2> DEFINE S == {q \in Packets : status'[q] \in {0}}
  <2>1. Tagged({0})' = S
    BY DEF Tagged
  <2>2. p \notin S /\ (Tagged({0}) = S \/ Tagged({0}) = S \cup {p})
    BY <1>2, <1>3, <1>4 DEF Tagged
  <2> HIDE DEF S
  <2>3. /\ Count(S, queue[u]) \in Nat /\ Count({p}, queue[u]) \in Nat
        /\ Count(Tagged({0}), queue[u]) \in Nat
        /\ \/ Count(Tagged({0}), queue[u]) = Count(S, queue[u])
           \/ Count(Tagged({0}), queue[u])
                = Count(S, queue[u]) + Count({p}, queue[u])
    <3>1. /\ Count(S, queue[u]) \in Nat /\ Count({p}, queue[u]) \in Nat
          /\ Count(Tagged({0}), queue[u]) \in Nat
      BY <1>2, CountType
    <3>2. Tagged({0}) = S \cup {p} =>
            Count(Tagged({0}), queue[u])
              = Count(S, queue[u]) + Count({p}, queue[u])
      BY <1>2, <2>2, CountSets
    <3> QED
      BY <2>2, <3>1, <3>2, Zenon
  <2>4. Count({p}, queue[u]) <= 1
        /\ (task[u] = "enqueue" /\ msg[u] = p => Count({p}, queue[u]) = 0)
    <3>1. Count({p}, queue[u]) = 0
            <=> \A i \in 1 .. Len(queue[u]) : queue[u][i] \notin {p}
      BY <1>2, CountType
    <3>2. (\E i \in 1 .. Len(queue[u]) : queue[u][i] = p)
            => Count({p}, queue[u]) = 1
      BY <1>0, Alone
    <3>3. Holds(u) /\ msg[u] = p => Count({p}, queue[u]) = 0
      BY <1>0, Alone
    <3> QED
      BY <3>1, <3>2, <3>3 DEF Holds
  <2>5. task[u] = "enqueue" /\ msg[u] # p => status'[msg[u]] = status[msg[u]]
    BY <1>2, <1>4
  <2>6. Count(Tagged({0}), queue[u])' = Count(S, queue[u])
    BY <1>4, <2>1, Zenon
  <2>7. Count(S, queue[u])
          + (IF task[u] = "enqueue" /\ status'[msg[u]] \in {0} THEN 1 ELSE 0)
        >= Count(Tagged({0}), queue[u])
             + (IF task[u] = "enqueue" /\ status[msg[u]] \in {0} THEN 1 ELSE 0)
             - 1
    BY <2>3, <2>4, <2>5
  <2>8. InList({0}, u)'
          = Count(S, queue[u])
              + (IF task[u] = "enqueue" /\ status'[msg[u]] \in {0} THEN 1 ELSE 0)
    BY <1>4, <2>6 DEF InList
  <2>9. InList({0}, u)
          = Count(Tagged({0}), queue[u])
              + (IF task[u] = "enqueue" /\ status[msg[u]] \in {0} THEN 1 ELSE 0)
    BY DEF InList
  <2> QED
    BY <2>3, <2>7, <2>8, <2>9
<1> QED
  BY <1>5, <1>6

\* The register d5.
LEMMA D5Inv ==
  ASSUME IInv, [Next]_vars
  PROVE  D5Counts'
<1> USE DEF taskVars, emuVars, intVars, countVars, threadVars, Goto, TGoto
<1>0. /\ TypeOK /\ Contents /\ TaskTypes /\ TrapPlace
      /\ \A v \in Units : d5[v] = InList({-1, 0}, v)
  BY AllTypes, InListIs DEF IInv
<1> SUFFICES ASSUME NEW v \in Units
             PROVE  d5'[v] = InList({-1, 0}, v)'
  <2>1. (TypeOK /\ Contents =>
           (D5Counts <=> \A u \in Units : d5[u] = InList({-1, 0}, u)))'
    BY InListIs, PTL
  <2> QED
    BY <2>1, TypesInv
<1>k. ASSUME \/ \E u \in Units : \/ GetMsg(u) \/ Release(u) \/ ScanEnd(u)
                                 \/ TooMany(u) \/ Refuse(u) \/ DoCommand(u)
                                 \/ Enqueue(u)
                                 \/ u # v /\ (ScanReply(u) \/ Handle(u))
             \/ CountPacket
             \/ WritePacket /\ (written < 2 \/ emuUnit # v)
             \/ UNCHANGED <<task, msg, queue, status>>,
             d5'[v] = d5[v]
      PROVE  d5'[v] = InList({-1, 0}, v)'
  <2>1. 0 \in {-1, 0} /\ 1 \notin {-1, 0}
    OBVIOUS
  <2>2. InList({-1, 0}, v)' = InList({-1, 0}, v)
    BY <1>k, <2>1, ListKept
  <2> QED
    BY <1>0, <1>k, <2>2
<1>1. ASSUME NEW u \in Units,
             \/ GetMsg(u) \/ Release(u) \/ ScanEnd(u) \/ TooMany(u)
             \/ Refuse(u) \/ DoCommand(u) \/ Enqueue(u)
      PROVE  d5'[v] = InList({-1, 0}, v)'
  <2>1. d5' = d5
    BY <1>1 DEF GetMsg, Release, ScanEnd, TooMany, Refuse, DoCommand, Enqueue
  <2> QED
    BY <1>k, <1>1, <2>1
<1>2. ASSUME NEW u \in Units, ScanReply(u)
      PROVE  d5'[v] = InList({-1, 0}, v)'
  <2>1. d5' = [d5 EXCEPT ![u] = d5[u] - 1]
    BY <1>2 DEF ScanReply
  <2>2. CASE u # v
    <3>1. d5'[v] = d5[v]
      BY <1>0, <2>1, <2>2 DEF TaskTypes
    <3> QED
      BY <1>k, <1>2, <2>2, <3>1
  <2>3. CASE u = v
    <3>1. -1 \in {-1, 0}
      OBVIOUS
    <3>2. InList({-1, 0}, u)' = InList({-1, 0}, u) - 1
      BY <1>2, <3>1, ListReply
    <3>3. d5'[u] = d5[u] - 1
      BY <1>0, <2>1 DEF TaskTypes
    <3> QED
      BY <1>0, <2>3, <3>2, <3>3
  <2> QED
    BY <2>2, <2>3
<1>3. ASSUME NEW u \in Units, Handle(u)
      PROVE  d5'[v] = InList({-1, 0}, v)'
  <2>1. d5' = d5
    BY <1>3 DEF Handle
  <2>2. CASE u # v
    BY <1>k, <1>3, <2>1, <2>2
  <2>3. CASE u = v
    BY <1>0, <1>3, <2>1, <2>3, ListHandle
  <2> QED
    BY <2>2, <2>3
<1>4. CASE CountPacket
  <2>1. d5' = d5
    BY <1>4 DEF CountPacket
  <2> QED
    BY <1>k, <1>4, <2>1
<1>5. CASE WritePacket
  <2>1. CASE written < 2 \/ emuUnit # v
    <3>1. d5'[v] = d5[v]
      BY <1>0, <1>5, <2>1 DEF WritePacket, TaskTypes
    <3> QED
      BY <1>k, <1>5, <2>1, <3>1
  <2>2. CASE ~(written < 2) /\ emuUnit = v
    <3>1. 0 \in {-1, 0}
      OBVIOUS
    <3>2. InList({-1, 0}, emuUnit)' = InList({-1, 0}, emuUnit) + 1
          /\ emuUnit' = emuUnit
      BY <1>5, <2>2, <3>1, ListWrite DEF WritePacket
    <3>3. d5'[v] = d5[v] + 1
      BY <1>0, <1>5, <2>2 DEF WritePacket, TaskTypes
    <3> QED
      BY <1>0, <2>2, <3>2, <3>3
  <2> QED
    BY <2>1, <2>2
<1>6. CASE Reboot
  <2>1. d5'[v] = 0 /\ queue'[v] = <<>> /\ task'[v] = "wait"
    BY <1>6 DEF Reboot
  <2>2. \A S : Count(S, <<>>) = 0
    <3>1. <<>> \in Seq({})
      BY EmptySeq
    <3> QED
      BY <3>1, CountSteps
  <2> QED
    BY <2>1, <2>2 DEF InList
<1>7. CASE \/ \E u \in Units : \/ ScanNext(u) \/ ReadWord(u) \/ Drop(u)
                              \/ CountSent(u) \/ RaiseInt(u) \/ Uncount(u)
                              \/ SendLocks(u) \/ PutDummy(u)
           \/ \E p \in Packets : Send(p)
           \/ Hsync \/ EnterServer \/ NoneNeeds \/ LeaveServer \/ Reset
           \/ SendDeath \/ NextDown \/ UNCHANGED vars
  <2>1. UNCHANGED <<task, msg, queue, status, d5>>
    BY <1>7 DEF ScanNext, ReadWord, Drop, CountSent, RaiseInt, Uncount,
       SendLocks, PutDummy, Send, Hsync, EnterServer, NoneNeeds, LeaveServer,
       Reset, SendDeath, NextDown, vars
  <2> QED
    BY <1>k, <2>1
<1> QED
  BY <1>1, <1>2, <1>3, <1>4, <1>5, <1>6, <1>7
     DEF Next, TaskStep, ThreadStep, HandlerStep, ServerStep, ResetStep

-----------------------------------------------------------------------------
(* The pipes.                                                              *)

\* A command that was started is of its unit.
LEMMA StartedIs ==
  ASSUME TypeOK, Contents, NEW u \in Units, NEW p \in Of(u) \cup {Death},
         Started(u, p)
  PROVE  p \in Of(u) /\ p \in Packets
<1>1. \A i \in 1 .. Len(queue[u]) : queue[u][i] \in Packets
  BY UnitTypes
<1>2. task[u] = "enqueue" => msg[u] \in Packets
  BY DEF Contents, Holds, Of
<1>3. replied \subseteq Packets
  BY DEF TypeOK
<1>4. p \in Packets
  BY <1>1, <1>2, <1>3 DEF Started
<1> QED
  BY <1>4, FilesysAssumption DEF Of

\* A command that was started stays so until the machine boots again.
LEMMA StartedKept ==
  ASSUME IInv, [Next]_vars, ~Reboot, NEW u \in Units,
         NEW p \in Of(u) \cup {Death}, Started(u, p)
  PROVE  Started(u, p)'
<1> USE DEF taskVars, emuVars, intVars, countVars, threadVars, Goto, TGoto
<1>0. /\ TypeOK /\ Contents /\ TaskTypes /\ SeqTypes /\ TrapPlace
      /\ PacketInOnePlace
  BY AllTypes DEF IInv
<1>1. p \in Of(u) /\ p \in Packets /\ status[p] # 1
  BY <1>0, StartedIs DEF Started
<1> DEFINE In == \E i \in 1 .. Len(queue[u]) : queue[u][i] = p
           Joins == task[u] = "enqueue" /\ p = msg[u]
<1>2. In \/ p \in replied \/ Joins
  BY DEF Started
<1>f. ASSUME queue'[u] = queue[u], replied \subseteq replied',
             Joins => task'[u] = "enqueue" /\ msg'[u] = msg[u],
             status'[p] # 1
      PROVE  Started(u, p)'
  BY <1>2, <1>f DEF Started
<1>3. ASSUME NEW v \in Units,
             GetMsg(v) \/ Release(v) \/ ScanEnd(v) \/ Refuse(v) \/ DoCommand(v)
      PROVE  Started(u, p)'
  <2>1. /\ queue' = queue /\ status' = status /\ replied \subseteq replied'
        /\ task[u] = "enqueue" => task'[u] = "enqueue" /\ msg'[u] = msg[u]
    BY <1>0, <1>3 DEF GetMsg, Release, ScanEnd, Refuse, DoCommand, TaskTypes
  <2> QED
    BY <1>1, <1>f, <2>1
<1>4. ASSUME NEW v \in Units, TooMany(v) PROVE Started(u, p)'
  <2>1. /\ task[v] = "dos" /\ task' = [task EXCEPT ![v] = "enqueue"]
        /\ status' = [status EXCEPT ![msg[v]] = 1]
        /\ UNCHANGED <<queue, msg, replied>>
    BY <1>4 DEF TooMany
  <2>2. p # msg[v]
    <3>1. CASE v = u
      BY <1>0, <1>1, <1>2, <2>1, <3>1, Alone DEF Holds
    <3>2. CASE v # u
      BY <1>0, <1>1, <2>1, <3>2 DEF TaskTypes, Holds, Of
    <3> QED
      BY <3>1, <3>2
  <2>3. status'[p] = status[p] /\ (task[u] = "enqueue" => task'[u] = "enqueue")
    BY <1>0, <1>1, <2>1, <2>2 DEF TaskTypes
  <2> QED
    BY <1>1, <1>f, <2>1, <2>3
<1>5. ASSUME NEW v \in Units, ScanReply(v) PROVE Started(u, p)'
  <2>1. PICK k \in 1 .. Len(queue[v]) :
          /\ queue' = [queue EXCEPT ![v] = RemoveAt(queue[v], k)]
          /\ replied' = replied \cup {queue[v][k]}
          /\ UNCHANGED <<task, msg, status>>
    BY <1>0, <1>5, ScanCounted DEF ScanReply, IInv
  <2>2. CASE v # u
    BY <1>0, <1>1, <1>f, <2>1, <2>2 DEF SeqTypes
  <2>3. CASE v = u
    <3>1. queue[u] \in Seq(Of(u)) /\ Len(queue[u]) \in Nat
      BY <1>0, LenProperties DEF SeqTypes
    <3>2. /\ queue'[u] = RemoveAt(queue[u], k)
          /\ Len(RemoveAt(queue[u], k)) = Len(queue[u]) - 1
          /\ \A i \in 1 .. Len(queue[u]) - 1 :
               RemoveAt(queue[u], k)[i]
                 = IF i < k THEN queue[u][i] ELSE queue[u][i + 1]
      BY <1>0, <2>1, <2>3, <3>1, RemoveAtIs DEF SeqTypes
    <3>3. In => p \in replied' \/ \E i \in 1 .. Len(queue'[u]) : queue'[u][i] = p
      <4> SUFFICES ASSUME NEW i \in 1 .. Len(queue[u]), queue[u][i] = p, i # k
                   PROVE  \E j \in 1 .. Len(queue'[u]) : queue'[u][j] = p
        BY <2>1, <2>3
      <4>1. CASE i < k
        <5>1. i \in 1 .. Len(queue[u]) - 1 /\ queue'[u][i] = p
          BY <2>1, <2>3, <3>1, <3>2, <4>1
        <5> QED
          BY <3>2, <5>1
      <4>2. CASE i > k
        <5>1. i - 1 \in 1 .. Len(queue[u]) - 1 /\ ~(i - 1 < k)
              /\ (i - 1) + 1 = i
          BY <2>1, <2>3, <3>1, <4>2
        <5>2. queue'[u][i - 1] = p
          BY <3>2, <5>1
        <5> QED
          BY <3>2, <5>1, <5>2
      <4>3. i < k \/ i > k
        BY <2>3, <3>1
      <4> QED
        BY <4>1, <4>2, <4>3
    <3> QED
      BY <1>1, <1>2, <2>1, <3>3 DEF Started
  <2> QED
    BY <2>2, <2>3
<1>6. ASSUME NEW v \in Units, Enqueue(v) PROVE Started(u, p)'
  <2>1. /\ task[v] = "enqueue" /\ task' = [task EXCEPT ![v] = "wait"]
        /\ queue' = [queue EXCEPT ![v] = <<msg[v]>> \o queue[v]]
        /\ UNCHANGED <<msg, status, replied>>
    BY <1>6 DEF Enqueue
  <2>2. CASE v # u
    BY <1>0, <1>1, <1>f, <2>1, <2>2 DEF SeqTypes, TaskTypes
  <2>3. CASE v = u
    <3>1. /\ queue[u] \in Seq(Of(u)) /\ Len(queue[u]) \in Nat
          /\ msg[u] \in Of(u)
      BY <1>0, <2>1, <2>3, LenProperties DEF SeqTypes, TaskTypes, Holds
    <3>2. PICK t \in Seq(Of(u)) :
             /\ queue'[u] = t /\ Len(t) = Len(queue[u]) + 1 /\ t[1] = msg[u]
             /\ \A i \in 1 .. Len(queue[u]) : t[i + 1] = queue[u][i]
      <4>1. /\ <<msg[u]>> \o queue[u] \in Seq(Of(u))
            /\ Len(<<msg[u]>> \o queue[u]) = Len(queue[u]) + 1
            /\ (<<msg[u]>> \o queue[u])[1] = msg[u]
            /\ \A i \in 1 .. Len(queue[u]) :
                 (<<msg[u]>> \o queue[u])[i + 1] = queue[u][i]
        BY <3>1, PrependIs
      <4>2. queue'[u] = <<msg[u]>> \o queue[u]
        BY <1>0, <2>1, <2>3 DEF SeqTypes
      <4> QED
        BY <4>1, <4>2
    <3>3. In => \E i \in 1 .. Len(t) : t[i] = p
      <4> SUFFICES ASSUME NEW i \in 1 .. Len(queue[u]), queue[u][i] = p
                   PROVE  \E j \in 1 .. Len(t) : t[j] = p
        OBVIOUS
      <4>1. i + 1 \in 1 .. Len(t) /\ t[i + 1] = p
        BY <3>1, <3>2
      <4> QED
        BY <4>1
    <3>4. Joins => \E i \in 1 .. Len(t) : t[i] = p
      <4>1. 1 \in 1 .. Len(t)
        BY <3>1, <3>2
      <4> QED
        BY <3>2, <4>1
    <3> QED
      BY <1>1, <1>2, <2>1, <3>2, <3>3, <3>4 DEF Started
  <2> QED
    BY <2>2, <2>3
<1>7. ASSUME NEW v \in Units, Handle(v) PROVE Started(u, p)'
  <2>1. status'[p] # 1 /\ UNCHANGED <<task, msg, queue, replied>>
    BY <1>0, <1>1, <1>7 DEF Handle, TaskTypes
  <2> QED
    BY <1>f, <2>1
<1>8. CASE CountPacket
  <2>1. status'[p] # 1 /\ UNCHANGED <<task, msg, queue, replied>>
    BY <1>0, <1>1, <1>8 DEF CountPacket, TaskTypes
  <2> QED
    BY <1>f, <2>1
<1>9. CASE WritePacket
  <2>1. /\ UNCHANGED <<msg, queue, replied, status>>
        /\ task[u] = "enqueue" => task'[u] = "enqueue"
    BY <1>0, <1>9 DEF WritePacket, TaskTypes
  <2> QED
    BY <1>1, <1>f, <2>1
<1>10. CASE \/ \E v \in Units : \/ ScanNext(v) \/ ReadWord(v) \/ Drop(v)
                               \/ CountSent(v) \/ RaiseInt(v) \/ Uncount(v)
                               \/ SendLocks(v) \/ PutDummy(v)
            \/ \E q \in Packets : Send(q)
            \/ Hsync \/ EnterServer \/ NoneNeeds \/ LeaveServer \/ Reset
            \/ SendDeath \/ NextDown \/ UNCHANGED vars
  <2>1. UNCHANGED <<task, msg, queue, status, replied>>
    BY <1>10 DEF ScanNext, ReadWord, Drop, CountSent, RaiseInt, Uncount,
       SendLocks, PutDummy, Send, Hsync, EnterServer, NoneNeeds, LeaveServer,
       Reset, SendDeath, NextDown, vars
  <2> QED
    BY <1>1, <1>f, <2>1
<1> QED
  BY <1>3, <1>4, <1>5, <1>6, <1>7, <1>8, <1>9, <1>10
     DEF Next, TaskStep, ThreadStep, HandlerStep, ServerStep, ResetStep

\* Part of PipeWords: what the pipes may hold, and what comes in them.
PipeSizes(u) ==
  /\ Len(words[u]) <= 3 /\ Len(unitPipe[u]) <= UnitCap
  /\ PastHandle(u) => words[u] = <<>>
PipeContents(u) ==
  /\ \E k \in 0 .. UnitCap + 3 : Len(Pipe(u)) = 3 * k + Partial(u)
  /\ \A i \in 1 .. Len(Pipe(u)) :
       IF i <= Len(Pipe(u)) - Partial(u) THEN Started(u, Pipe(u)[i])
                                         ELSE Pipe(u)[i] = msg[u]

\* The sizes.
LEMMA PipeSizesInv ==
  ASSUME IInv, [Next]_vars, NEW v \in Units
  PROVE  PipeSizes(v)'
<1> USE DEF taskVars, emuVars, intVars, countVars, threadVars, Goto, TGoto
<1>0. IInv /\ SeqTypes /\ ThreadTypes /\ PipeSizes(v)
  BY AllTypes DEF IInv, PipeWords, PipeSizes
<1>f. ASSUME UNCHANGED <<words, unitPipe, thread>>
      PROVE  PipeSizes(v)'
  BY <1>0, <1>f DEF PipeSizes, PastHandle
<1>1. ASSUME NEW u \in Units, ReadWord(u) PROVE PipeSizes(v)'
  <2>1. /\ thread[u] = "read" /\ Len(words[u]) < 3 /\ unitPipe[u] # <<>>
        /\ words' = [words EXCEPT ![u] = Append(words[u], Head(unitPipe[u]))]
        /\ unitPipe' = [unitPipe EXCEPT ![u] = Tail(unitPipe[u])]
        /\ UNCHANGED thread
    BY <1>1 DEF ReadWord
  <2>2. CASE v # u
    BY <1>0, <2>1, <2>2 DEF SeqTypes, PipeSizes, PastHandle
  <2>3. CASE v = u
    <3>1. /\ Len(words[u]) \in Nat
          /\ Len(Append(words[u], Head(unitPipe[u]))) = Len(words[u]) + 1
          /\ Len(unitPipe[u]) \in Nat
          /\ Len(Tail(unitPipe[u])) = Len(unitPipe[u]) - 1
      <4>1. /\ words[u] \in Seq(Of(u) \cup {Death})
            /\ unitPipe[u] \in Seq(Of(u) \cup {Death})
        BY <1>0 DEF SeqTypes
      <4>2. Head(unitPipe[u]) \in Of(u) \cup {Death}
            /\ Len(Tail(unitPipe[u])) = Len(unitPipe[u]) - 1
        BY <2>1, <4>1, TailIs
      <4> QED
        BY <4>1, <4>2, AppendProperties, LenProperties
    <3>2. /\ words'[u] = Append(words[u], Head(unitPipe[u]))
          /\ unitPipe'[u] = Tail(unitPipe[u]) /\ ~PastHandle(u)'
      BY <1>0, <2>1 DEF SeqTypes, PastHandle
    <3> QED
      BY <1>0, <2>1, <2>3, <3>1, <3>2, FilesysAssumption DEF PipeSizes
  <2> QED
    BY <2>2, <2>3
<1>2. ASSUME NEW u \in Units, Drop(u) PROVE PipeSizes(v)'
  <2>1. words' = [words EXCEPT ![u] = <<>>] /\ UNCHANGED unitPipe
        /\ \A w \in Units : w # u => thread'[w] = thread[w]
    BY <1>0, <1>2 DEF Drop, ThreadTypes
  <2>2. Len(<<>>) = 0
    OBVIOUS
  <2> QED
    BY <1>0, <2>1, <2>2 DEF SeqTypes, PipeSizes, PastHandle
<1>3. ASSUME NEW u \in Units, Handle(u) PROVE PipeSizes(v)'
  <2>1. words' = [words EXCEPT ![u] = <<>>] /\ UNCHANGED unitPipe
        /\ \A w \in Units : w # u => thread'[w] = thread[w]
    BY <1>0, <1>3 DEF Handle, ThreadTypes
  <2>2. Len(<<>>) = 0
    OBVIOUS
  <2> QED
    BY <1>0, <2>1, <2>2 DEF SeqTypes, PipeSizes, PastHandle
<1>4. ASSUME NEW u \in Units, CountSent(u) PROVE PipeSizes(v)'
  <2>1. UNCHANGED <<words, unitPipe>>
        /\ \A w \in Units : PastHandle(w)' => PastHandle(w)
    BY <1>0, <1>4 DEF CountSent, ThreadTypes, PastHandle
  <2> QED
    BY <1>0, <2>1 DEF PipeSizes
<1>5. ASSUME NEW u \in Units, RaiseInt(u) PROVE PipeSizes(v)'
  <2>1. UNCHANGED <<words, unitPipe>>
        /\ \A w \in Units : PastHandle(w)' => PastHandle(w)
    BY <1>0, <1>5 DEF RaiseInt, ThreadTypes, PastHandle
  <2> QED
    BY <1>0, <2>1 DEF PipeSizes
<1>6. ASSUME NEW u \in Units, Uncount(u) PROVE PipeSizes(v)'
  <2>1. UNCHANGED <<words, unitPipe>>
        /\ \A w \in Units : PastHandle(w)' => PastHandle(w)
    BY <1>0, <1>6 DEF Uncount, ThreadTypes, PastHandle
  <2> QED
    BY <1>0, <2>1 DEF PipeSizes
<1>7. ASSUME NEW u \in Units, SendLocks(u) PROVE PipeSizes(v)'
  <2>1. UNCHANGED <<words, unitPipe>>
        /\ \A w \in Units : PastHandle(w)' => PastHandle(w)
    BY <1>0, <1>7 DEF SendLocks, ThreadTypes, PastHandle
  <2> QED
    BY <1>0, <2>1 DEF PipeSizes
<1>8. CASE WritePacket
  <2>1. /\ emuUnit \in Units /\ Len(unitPipe[emuUnit]) < UnitCap
        /\ unitPipe' = [unitPipe EXCEPT
                          ![emuUnit] = Append(unitPipe[emuUnit], msg[emuUnit])]
        /\ UNCHANGED <<words, thread>>
    BY <1>0, <1>8 DEF WritePacket, IInv, TrapPlace
  <2>2. msg[emuUnit] \in Of(emuUnit) \cup {Death}
    BY <1>0, <1>8, AllTypes DEF WritePacket, IInv, TrapPlace, TaskTypes, Holds
  <2>3. Len(unitPipe[emuUnit]) \in Nat
        /\ Len(Append(unitPipe[emuUnit], msg[emuUnit])) = Len(unitPipe[emuUnit]) + 1
    BY <1>0, <2>1, <2>2, AppendProperties, LenProperties DEF SeqTypes
  <2>4. UnitCap \in Nat
    BY FilesysAssumption
  <2> QED
    BY <1>0, <2>1, <2>3, <2>4 DEF PipeSizes, SeqTypes, PastHandle
<1>9. CASE SendDeath
  <2>1. /\ emuUnit \in Units /\ Len(unitPipe[emuUnit]) < UnitCap
        /\ unitPipe' = [unitPipe EXCEPT
                          ![emuUnit] = Append(unitPipe[emuUnit], Death)]
        /\ UNCHANGED <<words, thread>>
    BY <1>0, <1>9 DEF SendDeath, IInv, ResetOrder
  <2>2. Death \in Of(emuUnit) \cup {Death}
    OBVIOUS
  <2>3. Len(unitPipe[emuUnit]) \in Nat
        /\ Len(Append(unitPipe[emuUnit], Death)) = Len(unitPipe[emuUnit]) + 1
    BY <1>0, <2>1, <2>2, AppendProperties, LenProperties DEF SeqTypes
  <2>4. UnitCap \in Nat
    BY FilesysAssumption
  <2> QED
    BY <1>0, <2>1, <2>3, <2>4 DEF PipeSizes, SeqTypes, PastHandle
<1>10. CASE Reboot
  <2>1. unitPipe'[v] = <<>> /\ words'[v] = <<>>
    BY <1>10 DEF Reboot
  <2>2. Len(<<>>) = 0
    OBVIOUS
  <2> QED
    BY <2>1, <2>2, FilesysAssumption DEF PipeSizes
<1>11. ASSUME NEW u \in Units,
             \/ GetMsg(u) \/ Release(u) \/ ScanReply(u) \/ ScanNext(u)
             \/ ScanEnd(u) \/ TooMany(u) \/ Refuse(u) \/ DoCommand(u)
             \/ Enqueue(u) \/ PutDummy(u)
      PROVE  PipeSizes(v)'
  BY <1>f, <1>11 DEF GetMsg, Release, ScanReply, ScanNext, ScanEnd, TooMany,
     Refuse, DoCommand, Enqueue, PutDummy
<1>12. CASE \/ CountPacket \/ Hsync \/ EnterServer \/ NoneNeeds
          \/ LeaveServer \/ Reset \/ NextDown
          \/ \E p \in Packets : Send(p)
  BY <1>f, <1>12 DEF CountPacket, Hsync, EnterServer, NoneNeeds, LeaveServer,
     Reset, NextDown, Send
<1>13. CASE UNCHANGED vars
  BY <1>f, <1>13 DEF vars
<1> QED
  BY <1>1, <1>2, <1>3, <1>4, <1>5, <1>6, <1>7, <1>8, <1>9, <1>10, <1>11,
     <1>12, <1>13
     DEF Next, TaskStep, ThreadStep, HandlerStep, ServerStep, ResetStep

\* A word read, a word written, a command taken: what becomes of the words in
\* the pipe and with the thread.
LEMMA PipeMoves ==
  ASSUME NEW T, NEW s \in Seq(T), NEW t \in Seq(T)
  PROVE  /\ Len(s \o t) = Len(s) + Len(t) /\ Len(s) \in Nat /\ Len(t) \in Nat
         /\ \A i \in 1 .. Len(s \o t) : (s \o t)[i] \in T
         /\ t # <<>> =>
              /\ Len(Append(s, Head(t)) \o Tail(t)) = Len(s \o t)
              /\ \A i \in 1 .. Len(s \o t) :
                   (Append(s, Head(t)) \o Tail(t))[i] = (s \o t)[i]
         /\ \A e \in T :
              /\ Len(s \o Append(t, e)) = Len(s \o t) + 1
              /\ \A i \in 1 .. Len(s \o t) : (s \o Append(t, e))[i] = (s \o t)[i]
              /\ (s \o Append(t, e))[Len(s \o t) + 1] = e
         /\ Len(<<>> \o t) = Len(t)
         /\ \A i \in 1 .. Len(t) : (<<>> \o t)[i] = (s \o t)[i + Len(s)]
<1>1. /\ s \o t \in Seq(T) /\ Len(s \o t) = Len(s) + Len(t)
      /\ Len(s) \in Nat /\ Len(t) \in Nat
      /\ \A i \in 1 .. Len(s) + Len(t) :
           (s \o t)[i] = IF i <= Len(s) THEN s[i] ELSE t[i - Len(s)]
  BY ConcatProperties, LenProperties
<1>2. \A i \in 1 .. Len(s \o t) : (s \o t)[i] \in T
  BY <1>1, ElementOfSeq
<1>3. ASSUME t # <<>>
      PROVE  /\ Len(Append(s, Head(t)) \o Tail(t)) = Len(s \o t)
             /\ \A i \in 1 .. Len(s \o t) :
                  (Append(s, Head(t)) \o Tail(t))[i] = (s \o t)[i]
  <2>1. PICK h \in T, r \in Seq(T) :
           /\ h = Head(t) /\ r = Tail(t) /\ Len(r) = Len(t) - 1 /\ h = t[1]
           /\ \A i \in 1 .. Len(r) : r[i] = t[i + 1]
    <3>1. /\ Tail(t) \in Seq(T) /\ Len(Tail(t)) = Len(t) - 1
          /\ Head(t) = t[1] /\ Head(t) \in T
          /\ \A i \in 1 .. Len(Tail(t)) : Tail(t)[i] = t[i + 1]
      BY <1>3, TailIs
    <3> QED
      BY <3>1
  <2>2. PICK a \in Seq(T) :
           /\ a = Append(s, h) /\ Len(a) = Len(s) + 1
           /\ \A i \in 1 .. Len(s) : a[i] = s[i]
           /\ a[Len(s) + 1] = h
    BY AppendProperties
  <2>3. /\ Len(a \o r) = Len(a) + Len(r) /\ Len(r) \in Nat
        /\ \A i \in 1 .. Len(a) + Len(r) :
             (a \o r)[i] = IF i <= Len(a) THEN a[i] ELSE r[i - Len(a)]
    BY ConcatProperties, LenProperties
  <2>4. ASSUME NEW i \in 1 .. Len(s) + Len(t)
        PROVE  (a \o r)[i] = (s \o t)[i]
    <3>1. i \in 1 .. Len(a) + Len(r) /\ i \in Nat
      BY <1>1, <2>1, <2>2, <2>3
    <3>2. CASE i <= Len(s)
      BY <1>1, <2>2, <2>3, <3>1, <3>2
    <3>3. CASE i = Len(s) + 1
      BY <1>1, <2>1, <2>2, <2>3, <3>1, <3>3
    <3>4. CASE i > Len(s) + 1
      <4>1. (a \o r)[i] = r[i - (Len(s) + 1)] /\ (s \o t)[i] = t[i - Len(s)]
            /\ i - (Len(s) + 1) \in 1 .. Len(r)
        BY <1>1, <2>1, <2>2, <2>3, <3>1, <3>4
      <4>2. r[i - (Len(s) + 1)] = t[(i - (Len(s) + 1)) + 1]
            /\ (i - (Len(s) + 1)) + 1 = i - Len(s)
        BY <1>1, <2>1, <4>1
      <4> QED
        BY <4>1, <4>2
    <3>5. i <= Len(s) \/ i = Len(s) + 1 \/ i > Len(s) + 1
      <4>1. PICK n \in Nat : n = Len(s)
        BY LenProperties
      <4>2. i \in Nat
        BY <3>1
      <4>3. i <= n \/ i = n + 1 \/ i > n + 1
        BY <4>2
      <4> QED
        BY <4>1, <4>3
    <3> QED
      BY <3>2, <3>3, <3>4, <3>5
  <2>5. Len(a \o r) = Len(s \o t)
    BY <1>1, <2>1, <2>2, <2>3
  <2> QED
    BY <1>1, <2>1, <2>2, <2>4, <2>5
<1>4. ASSUME NEW e \in T
      PROVE  /\ Len(s \o Append(t, e)) = Len(s \o t) + 1
             /\ \A i \in 1 .. Len(s \o t) : (s \o Append(t, e))[i] = (s \o t)[i]
             /\ (s \o Append(t, e))[Len(s \o t) + 1] = e
  <2>1. PICK a \in Seq(T) :
           /\ a = Append(t, e) /\ Len(a) = Len(t) + 1
           /\ \A i \in 1 .. Len(t) : a[i] = t[i]
           /\ a[Len(t) + 1] = e
    BY AppendProperties
  <2>2. /\ Len(s \o a) = Len(s) + Len(a)
        /\ \A i \in 1 .. Len(s) + Len(a) :
             (s \o a)[i] = IF i <= Len(s) THEN s[i] ELSE a[i - Len(s)]
    BY ConcatProperties
  <2>3. ASSUME NEW i \in 1 .. Len(s) + Len(t)
        PROVE  (s \o a)[i] = (s \o t)[i]
    <3>1. CASE i <= Len(s)
      BY <1>1, <2>1, <2>2, <3>1
    <3>2. CASE ~(i <= Len(s))
      <4>1. i - Len(s) \in 1 .. Len(t) /\ i \in 1 .. Len(s) + Len(a)
        BY <1>1, <2>1, <3>2
      <4> QED
        BY <1>1, <2>1, <2>2, <3>2, <4>1
    <3> QED
      BY <3>1, <3>2
  <2>4. (s \o a)[Len(s) + Len(t) + 1] = e
    <3>1. /\ Len(s) + Len(t) + 1 \in 1 .. Len(s) + Len(a)
          /\ ~(Len(s) + Len(t) + 1 <= Len(s))
          /\ (Len(s) + Len(t) + 1) - Len(s) = Len(t) + 1
      BY <1>1, <2>1
    <3> QED
      BY <2>1, <2>2, <3>1
  <2> QED
    BY <1>1, <2>1, <2>2, <2>3, <2>4
<1>5. /\ Len(<<>> \o t) = Len(t)
      /\ \A i \in 1 .. Len(t) : (<<>> \o t)[i] = (s \o t)[i + Len(s)]
  <2>1. <<>> \in Seq(T) /\ Len(<<>>) = 0
    BY EmptySeq
  <2>2. PICK z \in Seq(T) : z = <<>>
    BY <2>1
  <2>3. /\ Len(z \o t) = Len(z) + Len(t)
        /\ \A i \in 1 .. Len(z) + Len(t) :
             (z \o t)[i] = IF i <= Len(z) THEN z[i] ELSE t[i - Len(z)]
    BY ConcatProperties
  <2>4. ASSUME NEW i \in 1 .. Len(t) PROVE (z \o t)[i] = (s \o t)[i + Len(s)]
    <3>1. (z \o t)[i] = t[i]
      BY <1>1, <2>1, <2>2, <2>3
    <3>2. i + Len(s) \in 1 .. Len(s) + Len(t) /\ ~(i + Len(s) <= Len(s))
          /\ (i + Len(s)) - Len(s) = i
      BY <1>1
    <3> QED
      BY <1>1, <3>1, <3>2
  <2> QED
    BY <1>1, <2>1, <2>2, <2>3, <2>4
<1> QED
  BY <1>1, <1>2, <1>3, <1>4, <1>5

\* A unit that goes on keeps whole commands in its pipe when the pipe stays as
\* it is (n = 0) or gives a command to the thread (n = 3).
LEMMA PipeGoesOn ==
  ASSUME IInv, [Next]_vars, ~Reboot, NEW u \in Units, goDown[u] = 0,
         NEW n \in {0, 3}, Len(Pipe(u)) >= n, Len(Pipe(u))' = Len(Pipe(u)) - n,
         \A i \in 1 .. Len(Pipe(u)) - n : Pipe(u)'[i] = Pipe(u)[i + n],
         Partial(u)' = Partial(u), Partial(u) # 0 => msg'[u] = msg[u]
  PROVE  PipeContents(u)'
<1>1. PICK P \in Nat, L \in Nat :
        /\ P = Partial(u) /\ P \in 0 .. 2 /\ L = Len(Pipe(u))
        /\ \A i \in 1 .. L : Pipe(u)[i] \in Of(u) \cup {Death}
  <2>1. /\ words[u] \in Seq(Of(u) \cup {Death})
        /\ unitPipe[u] \in Seq(Of(u) \cup {Death})
    BY DEF IInv, Contents
  <2>2. Partial(u) \in 0 .. 2
    BY PartialIs DEF IInv
  <2>3. Pipe(u) \in Seq(Of(u) \cup {Death})
    BY <2>1, PipeIs
  <2>4. PICK L \in Nat : L = Len(Pipe(u))
    BY <2>3, LenProperties, Zenon
  <2>5. \A i \in 1 .. L : Pipe(u)[i] \in Of(u) \cup {Death}
    BY <2>3, <2>4, ElementOfSeq, Zenon
  <2>6. PICK P \in Nat : P = Partial(u) /\ P \in 0 .. 2
    BY <2>2
  <2> QED
    BY <2>4, <2>5, <2>6, Zenon
<1>2. /\ \E k \in 0 .. UnitCap + 3 : L = 3 * k + P
      /\ \A i \in 1 .. L : IF i <= L - P THEN Started(u, Pipe(u)[i])
                                         ELSE Pipe(u)[i] = msg[u]
  BY <1>1 DEF IInv, PipeWords
<1>3. /\ Len(Pipe(u))' = L - n /\ Partial(u)' = P /\ L >= n
      /\ \A i \in 1 .. L - n : Pipe(u)'[i] = Pipe(u)[i + n]
      /\ P # 0 => msg'[u] = msg[u]
  BY <1>1
<1>4. \E k \in 0 .. UnitCap + 3 : L - n = 3 * k + P
  <2>1. PICK k \in 0 .. UnitCap + 3 : L = 3 * k + P
    BY <1>2
  <2>2. n = 3 => k - 1 \in 0 .. UnitCap + 3 /\ L - n = 3 * (k - 1) + P
    BY <1>1, <1>3, <2>1, FilesysAssumption
  <2>3. n = 0 => L - n = 3 * k + P
    BY <1>1, <2>1
  <2> QED
    BY <2>2, <2>3
<1>5. ASSUME NEW i \in 1 .. L - n
      PROVE  IF i <= (L - n) - P THEN Started(u, Pipe(u)[i])'
                                 ELSE Pipe(u)'[i] = msg'[u]
  <2>1. i + n \in 1 .. L /\ (i + n <= L - P <=> i <= (L - n) - P)
    BY <1>1, <1>3
  <2>2. PICK x \in Of(u) \cup {Death} : x = Pipe(u)[i + n]
    BY <1>1, <2>1
  <2>3. Pipe(u)'[i] = x
    BY <1>3, <2>2
  <2>4. CASE i <= (L - n) - P
    <3>1. Started(u, x)
      BY <1>2, <2>1, <2>2, <2>4
    <3>2. Started(u, x)'
      BY <3>1, StartedKept
    <3>3. Started(u, Pipe(u)[i])'
      BY <2>3, <3>2, Zenon DEF Started
    <3> QED
      BY <2>4, <3>3
  <2>5. CASE ~(i <= (L - n) - P)
    <3>1. i + n \in 1 .. L /\ ~(i + n <= L - P)
      BY <2>1, <2>5
    <3>2. P # 0
      <4>1. i + n \in Nat /\ L \in Nat /\ i + n <= L
        BY <1>1, <3>1
      <4> QED
        BY <1>1, <3>1, <4>1
    <3>3. Pipe(u)[i + n] = msg[u]
      BY <1>2, <3>1, Zenon
    <3> QED
      BY <1>3, <2>2, <2>3, <2>5, <3>2, <3>3, Zenon
  <2> QED
    BY <2>4, <2>5
<1> QED
  BY <1>3, <1>4, <1>5 DEF PipeContents

\* What comes in a pipe, before and after a step.
LEMMA PipeContentsInv ==
  ASSUME IInv, [Next]_vars, NEW u \in Units, goDown'[u] = 0
  PROVE  PipeContents(u)'
<1> USE DEF taskVars, emuVars, intVars, countVars, threadVars, Goto, TGoto
<1>0. /\ TypeOK /\ SeqTypes /\ TaskTypes /\ ThreadTypes /\ EmuTypes
      /\ TrapPlace /\ ResetOrder
  BY AllTypes DEF IInv
<1>1. /\ words[u] \in Seq(Of(u) \cup {Death})
      /\ unitPipe[u] \in Seq(Of(u) \cup {Death})
  BY <1>0 DEF SeqTypes
<1>2. Len(Pipe(u)) \in Nat
  BY <1>1, PipeIs, LenProperties
<1>p. PICK w \in Seq(Of(u) \cup {Death}), q \in Seq(Of(u) \cup {Death}) :
        w = words[u] /\ q = unitPipe[u]
  BY <1>1
<1>q. Pipe(u) = w \o q
  BY <1>p, Zenon DEF Pipe
<1>f. ASSUME ~Reboot, goDown[u] = 0, words'[u] = words[u],
             unitPipe'[u] = unitPipe[u], Partial(u)' = Partial(u),
             Partial(u) # 0 => msg'[u] = msg[u]
      PROVE  PipeContents(u)'
  <2>1. Pipe(u)' = Pipe(u)
    BY <1>f DEF Pipe
  <2>2. /\ 0 \in {0, 3} /\ Len(Pipe(u)) >= 0 /\ Len(Pipe(u)) - 0 = Len(Pipe(u))
        /\ \A i \in 1 .. Len(Pipe(u)) : i + 0 = i
    BY <1>2
  <2>3. /\ Len(Pipe(u))' = Len(Pipe(u)) - 0
        /\ \A i \in 1 .. Len(Pipe(u)) - 0 : Pipe(u)'[i] = Pipe(u)[i + 0]
    BY <2>1, <2>2
  <2> QED
    BY <1>f, <2>2, <2>3, PipeGoesOn
<1>3. CASE Reboot
  <2>1. /\ words'[u] = <<>> /\ unitPipe'[u] = <<>> /\ emu' = "run"
    BY <1>3 DEF Reboot
  <2>2. Len(<<>> \o <<>>) = 0
    <3>1. <<>> \in Seq({}) /\ Len(<<>>) = 0
      BY EmptySeq
    <3> QED
      BY <3>1, PipeMoves
  <2>3. Len(Pipe(u))' = 0
    BY <2>1, <2>2, Zenon DEF Pipe
  <2>4. Partial(u)' = 0
    BY <2>1 DEF Partial
  <2>5. 0 \in 0 .. UnitCap + 3 /\ 0 = 3 * 0 + 0 /\ 1 .. 0 = {}
    BY FilesysAssumption
  <2> QED
    BY <2>3, <2>4, <2>5 DEF PipeContents
<1>4. CASE ~Reboot /\ \E v \in Units : ReadWord(v)
  <2>1. PICK v \in Units : ReadWord(v)
    BY <1>4
  <2>2. /\ unitPipe[v] # <<>>
        /\ words' = [words EXCEPT ![v] = Append(words[v], Head(unitPipe[v]))]
        /\ unitPipe' = [unitPipe EXCEPT ![v] = Tail(unitPipe[v])]
        /\ UNCHANGED <<emu, emuUnit, written, msg, goDown>>
    BY <2>1 DEF ReadWord
  <2>3. Partial(u)' = Partial(u) /\ msg' = msg /\ goDown' = goDown
    BY <2>2 DEF Partial
  <2>4. CASE v # u
    <3>1. words'[u] = words[u] /\ unitPipe'[u] = unitPipe[u]
      BY <1>0, <2>2, <2>4 DEF SeqTypes
    <3> QED
      BY <1>f, <1>4, <2>3, <3>1
  <2>5. CASE v = u
    <3>1. /\ words'[u] = Append(words[u], Head(unitPipe[u]))
          /\ unitPipe'[u] = Tail(unitPipe[u])
      BY <1>0, <2>2, <2>5 DEF SeqTypes
    <3>2. /\ Len(Append(w, Head(q)) \o Tail(q)) = Len(w \o q)
          /\ \A i \in 1 .. Len(w \o q) :
               (Append(w, Head(q)) \o Tail(q))[i] = (w \o q)[i]
      <4>1. q # <<>>
        BY <1>p, <2>2, <2>5
      <4> QED
        BY <4>1, PipeMoves
    <3>3. /\ Len(Pipe(u))' = Len(Pipe(u))
          /\ \A i \in 1 .. Len(Pipe(u)) : Pipe(u)'[i] = Pipe(u)[i]
      <4>1. Pipe(u)' = Append(w, Head(q)) \o Tail(q)
        BY <1>p, <3>1, Zenon DEF Pipe
      <4> QED
        BY <1>q, <3>2, <4>1, Zenon
    <3>4. /\ 0 \in {0, 3} /\ Len(Pipe(u)) >= 0
          /\ Len(Pipe(u)) - 0 = Len(Pipe(u))
          /\ \A i \in 1 .. Len(Pipe(u)) : i + 0 = i
      BY <1>2
    <3>5. /\ Len(Pipe(u))' = Len(Pipe(u)) - 0
          /\ \A i \in 1 .. Len(Pipe(u)) - 0 : Pipe(u)'[i] = Pipe(u)[i + 0]
      BY <3>3, <3>4
    <3> QED
      BY <1>4, <2>3, <3>4, <3>5, PipeGoesOn
  <2> QED
    BY <2>4, <2>5
<1>5. CASE ~Reboot /\ \E v \in Units : Handle(v)
  <2>1. PICK v \in Units : Handle(v)
    BY <1>5
  <2>2. /\ Len(words[v]) = 3 /\ words' = [words EXCEPT ![v] = <<>>]
        /\ UNCHANGED <<unitPipe, emu, emuUnit, written, msg, goDown>>
    BY <2>1 DEF Handle
  <2>3. Partial(u)' = Partial(u) /\ msg' = msg /\ goDown' = goDown
    BY <2>2 DEF Partial
  <2>4. CASE v # u
    <3>1. words'[u] = words[u] /\ unitPipe'[u] = unitPipe[u]
      BY <1>0, <2>2, <2>4 DEF SeqTypes
    <3> QED
      BY <1>f, <1>5, <2>3, <3>1
  <2>5. CASE v = u
    <3>1. words'[u] = <<>> /\ unitPipe'[u] = unitPipe[u]
      BY <1>0, <2>2, <2>5 DEF SeqTypes
    <3>2. /\ Len(w \o q) = 3 + Len(q) /\ Len(q) \in Nat
          /\ Len(<<>> \o q) = Len(q)
          /\ \A i \in 1 .. Len(q) : (<<>> \o q)[i] = (w \o q)[i + 3]
      <4>1. Len(w) = 3
        BY <1>p, <2>2, <2>5
      <4>2. /\ Len(w \o q) = Len(w) + Len(q) /\ Len(q) \in Nat
            /\ Len(<<>> \o q) = Len(q)
            /\ \A i \in 1 .. Len(q) : (<<>> \o q)[i] = (w \o q)[i + Len(w)]
        BY PipeMoves
      <4> QED
        BY <4>1, <4>2
    <3>3. /\ Len(Pipe(u))' = Len(unitPipe[u]) /\ Len(unitPipe[u]) \in Nat
          /\ Len(Pipe(u)) = 3 + Len(unitPipe[u])
          /\ \A i \in 1 .. Len(unitPipe[u]) : Pipe(u)'[i] = Pipe(u)[i + 3]
      <4>1. Pipe(u)' = <<>> \o q
        BY <1>p, <3>1, Zenon DEF Pipe
      <4> QED
        BY <1>p, <1>q, <3>2, <4>1, Zenon
    <3>4. /\ 3 \in {0, 3} /\ Len(Pipe(u)) >= 3
          /\ Len(Pipe(u)) - 3 = Len(unitPipe[u])
      BY <3>2, <3>3
    <3>5. /\ Len(Pipe(u))' = Len(Pipe(u)) - 3
          /\ \A i \in 1 .. Len(Pipe(u)) - 3 : Pipe(u)'[i] = Pipe(u)[i + 3]
      BY <3>3, <3>4
    <3> QED
      BY <1>5, <2>3, <3>4, <3>5, PipeGoesOn
  <2> QED
    BY <2>4, <2>5
<1>6. CASE ~Reboot /\ WritePacket
  <2>1. /\ emu = "write" /\ emuUnit \in Units /\ written \in 0 .. 2
        /\ goDown[u] = 0 /\ Len(unitPipe[emuUnit]) < UnitCap
        /\ unitPipe' = [unitPipe EXCEPT
                          ![emuUnit] = Append(unitPipe[emuUnit], msg[emuUnit])]
        /\ written' = written + 1 /\ UNCHANGED <<emuUnit, words, msg, status>>
        /\ written < 2 => emu' = emu
        /\ ~(written < 2) => emu' = "run" /\ task'[emuUnit] = "enqueue"
    <3>1. /\ emu = "write" /\ emuUnit \in Units /\ written <= 2
          /\ written \in 0 .. 3 /\ emu # "reset"
      BY <1>0, <1>6 DEF WritePacket, TrapPlace, EmuTypes
    <3>2. goDown[u] = 0
      BY <1>0, <3>1 DEF ResetOrder, ThreadTypes
    <3>3. /\ Len(unitPipe[emuUnit]) < UnitCap
          /\ unitPipe' = [unitPipe EXCEPT
                          ![emuUnit] = Append(unitPipe[emuUnit], msg[emuUnit])]
          /\ written' = written + 1 /\ UNCHANGED <<emuUnit, words, msg, status>>
          /\ written < 2 => emu' = emu
          /\ ~(written < 2) =>
               /\ emu' = "run" /\ task' = [task EXCEPT ![emuUnit] = "enqueue"]
      BY <1>6 DEF WritePacket
    <3> QED
      BY <1>0, <3>1, <3>2, <3>3 DEF TaskTypes
  <2>2. CASE emuUnit # u
    <3>1. words'[u] = words[u] /\ unitPipe'[u] = unitPipe[u]
      BY <1>0, <2>1, <2>2 DEF SeqTypes
    <3>2. Partial(u) = 0 /\ Partial(u)' = 0
      BY <2>1, <2>2 DEF Partial
    <3> QED
      BY <1>f, <1>6, <2>1, <3>1, <3>2
  <2>3. CASE emuUnit = u
    <3>1. PICK m \in Of(u) : m = msg[u] /\ status[m] = 0
      BY <1>0, <2>1, <2>3 DEF TrapPlace, TaskTypes, Holds
    <3>2. PICK L \in Nat :
            /\ L = Len(Pipe(u)) /\ Len(Pipe(u))' = L + 1 /\ L <= 3 + UnitCap
            /\ \A i \in 1 .. L : /\ Pipe(u)'[i] = Pipe(u)[i]
                                 /\ Pipe(u)[i] \in Of(u) \cup {Death}
            /\ Pipe(u)'[L + 1] = m
      <4>1. words'[u] = w /\ unitPipe'[u] = Append(q, m)
        BY <1>0, <1>p, <2>1, <2>3, <3>1 DEF SeqTypes
      <4>2. /\ Len(w \o Append(q, m)) = Len(w \o q) + 1
            /\ \A i \in 1 .. Len(w \o q) : (w \o Append(q, m))[i] = (w \o q)[i]
            /\ (w \o Append(q, m))[Len(w \o q) + 1] = m
        <5>1. m \in Of(u) \cup {Death}
          OBVIOUS
        <5> QED
          BY <5>1, PipeMoves
      <4>3. /\ Len(w \o q) = Len(w) + Len(q) /\ Len(w) \in Nat /\ Len(q) \in Nat
            /\ \A i \in 1 .. Len(w \o q) : (w \o q)[i] \in Of(u) \cup {Death}
        BY PipeMoves
      <4>4. Len(w) <= 3 /\ Len(q) < UnitCap
        BY <1>p, <2>1, <2>3 DEF IInv, PipeWords
      <4>5. Len(w \o q) <= 3 + UnitCap
        <5>1. UnitCap \in Nat
          BY FilesysAssumption
        <5> QED
          BY <4>3, <4>4, <5>1
      <4>6. /\ Len(Pipe(u))' = Len(Pipe(u)) + 1 /\ Len(Pipe(u)) <= 3 + UnitCap
            /\ \A i \in 1 .. Len(Pipe(u)) : /\ Pipe(u)'[i] = Pipe(u)[i]
                                            /\ Pipe(u)[i] \in Of(u) \cup {Death}
            /\ Pipe(u)'[Len(Pipe(u)) + 1] = m
        <5>1. Pipe(u)' = w \o Append(q, m)
          BY <4>1, Zenon DEF Pipe
        <5> QED
          BY <1>q, <4>2, <4>3, <4>5, <5>1, Zenon
      <4> QED
        BY <1>2, <4>6
    <3>3. /\ \E k \in 0 .. UnitCap + 3 : L = 3 * k + written
          /\ \A i \in 1 .. L : IF i <= L - written THEN Started(u, Pipe(u)[i])
                                                   ELSE Pipe(u)[i] = m
      <4>1. Partial(u) = written
        BY <2>1, <2>3 DEF Partial
      <4> QED
        BY <2>1, <3>1, <3>2, <4>1 DEF IInv, PipeWords
    <3>4. ASSUME NEW i \in 1 .. L, i <= L - written
          PROVE  Started(u, Pipe(u)[i])'
      <4>1. PICK x \in Of(u) \cup {Death} : x = Pipe(u)[i] /\ x = Pipe(u)'[i]
        BY <3>2
      <4>2. Started(u, x)
        BY <3>3, <3>4, <4>1
      <4>3. Started(u, x)'
        BY <1>6, <4>2, StartedKept
      <4> QED
        BY <4>1, <4>3, Zenon DEF Started
    <3>5. ASSUME NEW i \in 1 .. L + 1, i > L - written
          PROVE  Pipe(u)'[i] = m
      <4>1. CASE i \in 1 .. L
        <5>1. ~(i <= L - written)
          BY <2>1, <3>5, <4>1
        <5>2. Pipe(u)[i] = m
          BY <3>3, <4>1, <5>1
        <5> QED
          BY <3>2, <4>1, <5>2
      <4>2. CASE i = L + 1
        BY <3>2, <4>2
      <4> QED
        BY <4>1, <4>2
    <3>6. CASE written < 2
      <4>1. Partial(u)' = written + 1
        BY <2>1, <2>3, <3>6 DEF Partial
      <4>2. \E k \in 0 .. UnitCap + 3 : L + 1 = 3 * k + (written + 1)
        BY <2>1, <3>3, FilesysAssumption
      <4>3. ASSUME NEW i \in 1 .. L + 1
            PROVE  IF i <= (L + 1) - (written + 1) THEN Started(u, Pipe(u)[i])'
                   ELSE Pipe(u)'[i] = msg'[u]
        <5>1. CASE i <= L - written
          <6>1. i \in 1 .. L /\ i <= (L + 1) - (written + 1)
            BY <2>1, <5>1
          <6> QED
            BY <3>4, <5>1, <6>1
        <5>2. CASE i > L - written
          <6>1. ~(i <= (L + 1) - (written + 1))
            BY <2>1, <5>2
          <6> QED
            BY <2>1, <3>1, <3>5, <5>2, <6>1
        <5>3. i <= L - written \/ i > L - written
          BY <2>1
        <5> QED
          BY <5>1, <5>2, <5>3
      <4> QED
        BY <3>2, <4>1, <4>2, <4>3 DEF PipeContents
    <3>7. CASE ~(written < 2)
      <4>1. written = 2 /\ Partial(u)' = 0
        BY <2>1, <3>7 DEF Partial
      <4>2. \E k \in 0 .. UnitCap + 3 : L + 1 = 3 * k + 0
        <5>1. PICK k \in 0 .. UnitCap + 3 : L = 3 * k + 2
          BY <3>3, <4>1
        <5>2. k + 1 \in 0 .. UnitCap + 3 /\ L + 1 = 3 * (k + 1) + 0
          BY <3>2, <5>1, FilesysAssumption
        <5> QED
          BY <5>2
      <4>3. ASSUME NEW i \in 1 .. L + 1
            PROVE  Started(u, Pipe(u)[i])'
        <5>1. CASE i <= L - written
          <6>1. i \in 1 .. L
            BY <2>1, <5>1
          <6> QED
            BY <3>4, <5>1, <6>1
        <5>2. CASE i > L - written
          <6>1. Pipe(u)'[i] = m
            BY <3>5, <5>2
          <6>2. task'[u] = "enqueue" /\ msg'[u] = m /\ status'[m] # 1
            BY <2>1, <2>3, <3>1, <3>7
          <6> QED
            BY <6>1, <6>2 DEF Started
        <5>3. i <= L - written \/ i > L - written
          BY <2>1
        <5> QED
          BY <5>1, <5>2, <5>3
      <4>4. L + 1 = (L + 1) - 0 /\ \A i \in 1 .. L + 1 : i <= (L + 1) - 0
        OBVIOUS
      <4> QED
        BY <3>2, <4>1, <4>2, <4>3, <4>4 DEF PipeContents
    <3> QED
      BY <3>6, <3>7
  <2> QED
    BY <2>2, <2>3
<1>7. CASE ~Reboot /\ SendDeath
  <2>1. /\ emu = "reset" /\ emuUnit \in Units /\ goDown[emuUnit] = 1
        /\ goDown' = goDown
        /\ unitPipe' = [unitPipe EXCEPT
                          ![emuUnit] = Append(unitPipe[emuUnit], Death)]
        /\ UNCHANGED <<emu, words, msg>>
    <3>1. emuUnit \in Units /\ emuUnit <= emuUnit /\ emu = "reset"
      BY <1>0, <1>7 DEF SendDeath, ResetOrder, Units
    <3> QED
      BY <1>0, <1>7, <3>1 DEF SendDeath, ResetOrder
  <2>2. words'[u] = words[u] /\ unitPipe'[u] = unitPipe[u]
    BY <1>0, <2>1 DEF SeqTypes
  <2>3. Partial(u)' = 0 /\ Partial(u) = 0
    BY <2>1 DEF Partial
  <2> QED
    BY <1>f, <1>7, <2>1, <2>2, <2>3
<1>8. CASE ~Reboot /\ \E v \in Units : Drop(v)
  <2>1. PICK v \in Units : Drop(v)
    BY <1>8
  <2>2. v # u /\ goDown' = goDown /\ words' = [words EXCEPT ![v] = <<>>]
        /\ UNCHANGED <<unitPipe, emu, emuUnit, written, msg>>
    BY <2>1 DEF Drop
  <2>3. words'[u] = words[u] /\ Partial(u)' = Partial(u)
    BY <1>0, <2>2 DEF SeqTypes, Partial
  <2> QED
    BY <1>f, <1>8, <2>2, <2>3
<1>9. CASE ~Reboot /\ \E v \in Units : GetMsg(v) \/ DoCommand(v)
  <2>1. /\ emu = "run" /\ emu' # "write"
        /\ UNCHANGED <<words, unitPipe, goDown>>
    BY <1>9 DEF GetMsg, DoCommand, Runs68k
  <2>2. Partial(u)' = 0 /\ Partial(u) = 0
    BY <2>1 DEF Partial
  <2> QED
    BY <1>f, <1>9, <2>1, <2>2
<1>10. CASE ~Reboot /\ (Reset \/ NextDown)
  <2>1. /\ emu # "write" /\ emu' # "write" /\ UNCHANGED <<words, unitPipe>>
        /\ goDown[u] = 0
    <3>1. CASE Reset
      BY <1>0, <3>1 DEF Reset, ThreadTypes
    <3>2. CASE NextDown
      BY <1>0, <3>2 DEF NextDown, ThreadTypes
    <3> QED
      BY <1>10, <3>1, <3>2
  <2>2. Partial(u)' = 0 /\ Partial(u) = 0
    BY <2>1 DEF Partial
  <2> QED
    BY <1>f, <1>10, <2>1, <2>2
<1>11. CASE ~Reboot /\ CountPacket
  <2>1. /\ emu = "count" /\ written' = 0 /\ UNCHANGED <<words, unitPipe, goDown>>
    BY <1>0, <1>11 DEF CountPacket, TrapPlace
  <2>2. Partial(u)' = 0 /\ Partial(u) = 0
    BY <2>1 DEF Partial
  <2> QED
    BY <1>f, <1>11, <2>1, <2>2
<1>12. CASE ~Reboot /\ \/ \E v \in Units :
                            \/ Release(v) \/ ScanReply(v) \/ ScanNext(v)
                            \/ ScanEnd(v) \/ TooMany(v) \/ Refuse(v)
                            \/ Enqueue(v) \/ CountSent(v) \/ RaiseInt(v)
                            \/ Uncount(v) \/ SendLocks(v) \/ PutDummy(v)
                       \/ \E p \in Packets : Send(p)
                       \/ Hsync \/ EnterServer \/ NoneNeeds \/ LeaveServer
                       \/ UNCHANGED vars
  <2>1. UNCHANGED <<words, unitPipe, goDown, emu, emuUnit, written, msg>>
    BY <1>12 DEF Release, ScanReply, ScanNext, ScanEnd, TooMany, Refuse,
       Enqueue, CountSent, RaiseInt, Uncount, SendLocks, PutDummy, Send, Hsync,
       EnterServer, NoneNeeds, LeaveServer, vars
  <2>2. Partial(u)' = Partial(u)
    BY <2>1 DEF Partial
  <2> QED
    BY <1>f, <1>12, <2>1, <2>2
<1> QED
  BY <1>3, <1>4, <1>5, <1>6, <1>7, <1>8, <1>9, <1>10, <1>11, <1>12
     DEF Next, TaskStep, ThreadStep, HandlerStep, ServerStep, ResetStep

\* So the pipes are as PipeWords says.
LEMMA PipeWordsInv ==
  ASSUME IInv, [Next]_vars
  PROVE  PipeWords'
<1>1. ASSUME NEW u \in Units
      PROVE  PipeSizes(u)' /\ (goDown'[u] = 0 => PipeContents(u)')
  BY PipeSizesInv, PipeContentsInv
<1> QED
  BY <1>1 DEF PipeWords, PipeSizes, PipeContents

\* How many words a unit's pipe and thread hold after a step.
LEMMA PipeLen ==
  ASSUME IInv, [Next]_vars, ~Reboot, NEW u \in Units, goDown'[u] = 0
  PROVE  /\ goDown[u] = 0 /\ Len(Pipe(u)) \in Nat /\ Partial(u) \in 0 .. 2
         /\ Handle(u) => /\ Len(Pipe(u))' = Len(Pipe(u)) - 3
                         /\ Partial(u)' = Partial(u)
         /\ WritePacket /\ emuUnit = u =>
              /\ Len(Pipe(u))' = Len(Pipe(u)) + 1 /\ Partial(u) = written
              /\ Partial(u)' = IF written < 2 THEN written + 1 ELSE 0
         /\ ~Handle(u) /\ ~(WritePacket /\ emuUnit = u) =>
              Len(Pipe(u))' = Len(Pipe(u)) /\ Partial(u)' = Partial(u)
<1> USE DEF taskVars, emuVars, intVars, countVars, threadVars, Goto, TGoto
<1>0. /\ TypeOK /\ SeqTypes /\ TaskTypes /\ ThreadTypes /\ EmuTypes
      /\ TrapPlace /\ ResetOrder /\ SeqTypes'
  BY AllTypes, SeqTypesInv DEF IInv
<1>1. /\ words[u] \in Seq(Of(u) \cup {Death})
      /\ unitPipe[u] \in Seq(Of(u) \cup {Death})
      /\ words'[u] \in Seq(Of(u) \cup {Death})
      /\ unitPipe'[u] \in Seq(Of(u) \cup {Death})
  BY <1>0 DEF SeqTypes, Of
<1>2. /\ Len(words[u]) \in Nat /\ Len(unitPipe[u]) \in Nat
      /\ Len(words'[u]) \in Nat /\ Len(unitPipe'[u]) \in Nat
  BY <1>1, LenProperties
<1>w. PICK a \in Nat, b \in Nat, c \in Nat, d \in Nat :
        /\ a = Len(words[u]) /\ b = Len(unitPipe[u])
        /\ c = Len(words'[u]) /\ d = Len(unitPipe'[u])
  BY <1>2
<1>3. Len(Pipe(u)) = a + b /\ Len(Pipe(u))' = c + d
  <2>1. /\ Len(words[u] \o unitPipe[u]) = Len(words[u]) + Len(unitPipe[u])
        /\ Len(words'[u] \o unitPipe'[u]) = Len(words'[u]) + Len(unitPipe'[u])
    BY <1>1, ConcatProperties
  <2> QED
    BY <1>w, <2>1, Zenon DEF Pipe
<1> DEFINE Same == c + d = a + b /\ Partial(u)' = Partial(u)
<1>4. goDown[u] = 0
  <2>1. CASE Reset \/ NextDown
    BY <1>0, <2>1 DEF Reset, NextDown, ThreadTypes
  <2>2. CASE ~(Reset \/ NextDown)
    <3>1. goDown' = goDown
      BY <2>2 DEF Next, TaskStep, ThreadStep, HandlerStep, ServerStep,
         ResetStep, Send, GetMsg, Release, ScanReply, ScanNext, ScanEnd,
         TooMany, Refuse, DoCommand, CountPacket, WritePacket, Enqueue,
         ReadWord, Drop, Handle, CountSent, RaiseInt, Uncount, SendLocks,
         Hsync, EnterServer, PutDummy, NoneNeeds, LeaveServer, SendDeath, vars
    <3> QED
      BY <3>1
  <2> QED
    BY <2>1, <2>2
<1>5. ASSUME Handle(u)
      PROVE  c + d = (a + b) - 3 /\ Partial(u)' = Partial(u)
  <2>1. /\ Len(words[u]) = 3 /\ words'[u] = <<>> /\ unitPipe' = unitPipe
        /\ UNCHANGED <<emu, emuUnit, written>>
    BY <1>0, <1>5 DEF Handle, SeqTypes
  <2>2. Len(<<>>) = 0
    OBVIOUS
  <2> QED
    BY <1>w, <2>1, <2>2 DEF Partial
<1>6. ASSUME WritePacket, emuUnit = u
      PROVE  /\ c + d = a + b + 1 /\ Partial(u) = written
             /\ Partial(u)' = IF written < 2 THEN written + 1 ELSE 0
  <2>1. /\ emu = "write" /\ words' = words
        /\ unitPipe'[u] = Append(unitPipe[u], msg[u])
        /\ written' = written + 1 /\ emuUnit' = emuUnit
        /\ written < 2 => emu' = emu
        /\ ~(written < 2) => emu' = "run"
    BY <1>0, <1>6 DEF WritePacket, SeqTypes
  <2>2. msg[u] \in Of(u) \cup {Death}
    BY <1>0, <1>6, <2>1 DEF TrapPlace, TaskTypes, Holds
  <2>3. Len(Append(unitPipe[u], msg[u])) = Len(unitPipe[u]) + 1
    BY <1>1, <2>2, AppendProperties
  <2>4. c + d = a + b + 1
    <3>1. /\ Len(words'[u]) = Len(words[u])
          /\ Len(unitPipe'[u]) = Len(unitPipe[u]) + 1
      BY <2>1, <2>3, Zenon
    <3>2. c = a /\ d = b + 1
      BY <1>w, <3>1, Zenon
    <3> QED
      BY <3>2
  <2>5. /\ Partial(u) = written
        /\ Partial(u)' = IF written < 2 THEN written + 1 ELSE 0
    BY <1>6, <2>1 DEF Partial
  <2> QED
    BY <2>4, <2>5
<1>f. ASSUME words'[u] = words[u], unitPipe'[u] = unitPipe[u],
             Partial(u)' = Partial(u)
      PROVE  Same
  BY <1>f, <1>w
<1>7. ASSUME NEW v \in Units, ReadWord(v) PROVE Same
  <2>1. /\ unitPipe[v] # <<>>
        /\ words' = [words EXCEPT ![v] = Append(words[v], Head(unitPipe[v]))]
        /\ unitPipe' = [unitPipe EXCEPT ![v] = Tail(unitPipe[v])]
        /\ UNCHANGED <<emu, emuUnit, written>>
    BY <1>7 DEF ReadWord
  <2>2. Partial(u)' = Partial(u)
    BY <2>1 DEF Partial
  <2>3. CASE v # u
    BY <1>0, <1>f, <2>1, <2>2, <2>3 DEF SeqTypes
  <2>4. CASE v = u
    <3>1. /\ words'[u] = Append(words[u], Head(unitPipe[u]))
          /\ unitPipe'[u] = Tail(unitPipe[u])
      BY <1>0, <2>1, <2>4 DEF SeqTypes
    <3>2. Head(unitPipe[u]) \in Of(u) \cup {Death}
          /\ Len(Tail(unitPipe[u])) = Len(unitPipe[u]) - 1
      BY <1>1, <2>1, <2>4, TailIs
    <3>3. Len(Append(words[u], Head(unitPipe[u]))) = Len(words[u]) + 1
      BY <1>1, <3>2, AppendProperties
    <3>4. c + d = a + b
      <4>1. /\ Len(words'[u]) = Len(words[u]) + 1
            /\ Len(unitPipe'[u]) = Len(unitPipe[u]) - 1
        BY <3>1, <3>2, <3>3, Zenon
      <4>2. c = a + 1 /\ d = b - 1
        BY <1>w, <4>1, Zenon
      <4> QED
        BY <4>2
    <3> QED
      BY <2>2, <3>4
  <2> QED
    BY <2>3, <2>4
<1>8. ASSUME NEW v \in Units, v # u, Handle(v) \/ Drop(v) PROVE Same
  <2>1. words'[u] = words[u] /\ UNCHANGED <<unitPipe, emu, emuUnit, written>>
    BY <1>0, <1>8 DEF Handle, Drop, SeqTypes
  <2> QED
    BY <1>f, <2>1 DEF Partial
<1>9. ASSUME Drop(u) PROVE Same
  BY <1>4, <1>9 DEF Drop
<1>10. ASSUME WritePacket, emuUnit # u PROVE Same
  <2>1. /\ words' = words /\ unitPipe'[u] = unitPipe[u] /\ emuUnit' = emuUnit
    BY <1>0, <1>10 DEF WritePacket, SeqTypes
  <2> QED
    BY <1>f, <1>10, <2>1 DEF Partial
<1>11. ASSUME SendDeath PROVE Same
  <2>1. emu = "reset" /\ emuUnit \in Units /\ emuUnit \in Nat
    BY <1>0, <1>11 DEF SendDeath, ResetOrder, Units
  <2>2. emuUnit # u
    BY <1>0, <1>4, <2>1 DEF ResetOrder
  <2>3. words' = words /\ unitPipe'[u] = unitPipe[u] /\ emu' = emu
    BY <1>0, <1>11, <2>2 DEF SendDeath, SeqTypes
  <2> QED
    BY <1>f, <2>1, <2>3 DEF Partial
<1>12. ASSUME \/ \E v \in Units : GetMsg(v) \/ DoCommand(v)
              \/ CountPacket \/ Reset \/ NextDown
       PROVE  Same
  <2>1. UNCHANGED <<words, unitPipe>>
    BY <1>12 DEF GetMsg, DoCommand, CountPacket, Reset, NextDown
  <2>2. emu # "write" /\ (emu' = "write" => written' = 0)
    BY <1>0, <1>12 DEF GetMsg, DoCommand, CountPacket, Reset, NextDown, Runs68k,
       TrapPlace
  <2>3. Partial(u)' = Partial(u)
    BY <2>2 DEF Partial
  <2> QED
    BY <1>f, <2>1, <2>3
<1>13. ASSUME \/ \E v \in Units :
                   \/ Release(v) \/ ScanReply(v) \/ ScanNext(v) \/ ScanEnd(v)
                   \/ TooMany(v) \/ Refuse(v) \/ Enqueue(v) \/ CountSent(v)
                   \/ RaiseInt(v) \/ Uncount(v) \/ SendLocks(v) \/ PutDummy(v)
              \/ \E p \in Packets : Send(p)
              \/ Hsync \/ EnterServer \/ NoneNeeds \/ LeaveServer
              \/ UNCHANGED vars
       PROVE  Same
  <2>1. UNCHANGED <<words, unitPipe, emu, emuUnit, written>>
    BY <1>13 DEF Release, ScanReply, ScanNext, ScanEnd, TooMany, Refuse,
       Enqueue, CountSent, RaiseInt, Uncount, SendLocks, PutDummy, Send, Hsync,
       EnterServer, NoneNeeds, LeaveServer, vars
  <2>2. Partial(u)' = Partial(u)
    BY <2>1 DEF Partial
  <2> QED
    BY <1>f, <2>1, <2>2
<1> HIDE DEF Same
<1>14. ~Handle(u) /\ ~(WritePacket /\ emuUnit = u) => Same
  BY <1>7, <1>8, <1>9, <1>10, <1>11, <1>12, <1>13
     DEF Next, TaskStep, ThreadStep, HandlerStep, ServerStep, ResetStep
<1>15. Partial(u) \in 0 .. 2 /\ a + b \in Nat
  BY <1>0, PartialIs
<1> QED
  BY <1>3, <1>4, <1>5, <1>6, <1>14, <1>15 DEF Same

-----------------------------------------------------------------------------
(* The locks on their way back.                                            *)

\* The commands not done, after a step.
LEMMA UndoneMoves ==
  ASSUME IInv, [Next]_vars, ~Reboot, NEW v \in Units
  PROVE  /\ Undone(v) \in Nat /\ Undone(v)' \in Nat
         /\ Handle(v) => Undone(v)' >= Undone(v) - 1
         /\ WritePacket /\ emuUnit = v /\ ~(written < 2) =>
              Undone(v)' = Undone(v) + 1
         /\ ~Handle(v) /\ ~(WritePacket /\ emuUnit = v /\ ~(written < 2)) =>
              Undone(v)' = Undone(v)
<1> DEFINE n == InList({0}, v)
<1>0. Undone(v) = n /\ n \in Nat /\ written \in 0 .. 3
  BY InListIs DEF IInv, TypeOK
<1>1. Undone(v)' = n' /\ n' \in Nat
  <2>1. (TypeOK /\ Contents =>
           \A u \in Units : /\ Undone(u) = InList({0}, u)
                            /\ InList({0}, u) \in Nat /\ InList({-1, 0}, u) \in Nat
                            /\ InList({0}, u) <= InList({-1, 0}, u))'
    BY InListIs, PTL
  <2> QED
    BY <2>1, TypesInv
<1>2. 0 \in {0} /\ 1 \notin {0} /\ -1 \notin {0}
  OBVIOUS
<1>3. Handle(v) => n' >= n - 1
  BY ListHandle
<1>4. ASSUME WritePacket, emuUnit = v, ~(written < 2)
      PROVE  n' = n + 1
  <2>1. InList({0}, emuUnit)' = InList({0}, emuUnit) + 1 /\ emuUnit' = emuUnit
    BY <1>2, <1>4, ListWrite DEF WritePacket
  <2> QED
    BY <1>4, <2>1
<1>k. ASSUME \/ \E u \in Units : \/ GetMsg(u) \/ Release(u) \/ ScanEnd(u)
                                 \/ TooMany(u) \/ Refuse(u) \/ DoCommand(u)
                                 \/ Enqueue(u)
                                 \/ u # v /\ (ScanReply(u) \/ Handle(u))
             \/ CountPacket
             \/ WritePacket /\ (written < 2 \/ emuUnit # v)
             \/ UNCHANGED <<task, msg, queue, status>>
      PROVE  n' = n
  BY <1>k, <1>2, ListKept
<1>5. ASSUME ScanReply(v) PROVE n' = n
  <2>1. InList({0}, v)' = InList({0}, v) - (IF -1 \in {0} THEN 1 ELSE 0)
    BY <1>5, ListReply
  <2> QED
    BY <1>0, <1>2, <2>1
<1>6. ASSUME \/ \E u \in Units : \/ ScanNext(u) \/ ReadWord(u) \/ Drop(u)
                                 \/ CountSent(u) \/ RaiseInt(u) \/ Uncount(u)
                                 \/ SendLocks(u) \/ PutDummy(u)
             \/ \E p \in Packets : Send(p)
             \/ Hsync \/ EnterServer \/ NoneNeeds \/ LeaveServer \/ Reset
             \/ SendDeath \/ NextDown \/ UNCHANGED vars
      PROVE  n' = n
  <2>1. UNCHANGED <<task, msg, queue, status>>
    BY <1>6 DEF ScanNext, ReadWord, Drop, CountSent, RaiseInt, Uncount,
       SendLocks, PutDummy, Send, Hsync, EnterServer, NoneNeeds, LeaveServer,
       Reset, SendDeath, NextDown, vars, taskVars, emuVars, intVars, countVars,
       threadVars
  <2> QED
    BY <1>k, <2>1
<1> HIDE DEF n
<1>7. ~Handle(v) /\ ~(WritePacket /\ emuUnit = v /\ ~(written < 2)) => n' = n
  BY <1>5, <1>6, <1>k
     DEF Next, TaskStep, ThreadStep, HandlerStep, ServerStep, ResetStep
<1> QED
  BY <1>0, <1>1, <1>3, <1>4, <1>7

\* Every command in the pipe is one that is not done.
LEMMA PipeUndone ==
  ASSUME IInv, [Next]_vars, NEW u \in Units, goDown'[u] = 0
  PROVE  Len(Pipe(u))' <= 3 * Undone(u)' + Partial(u)'
<1>1. CASE Reboot
  <2>1. /\ words'[u] = <<>> /\ unitPipe'[u] = <<>> /\ emu' = "run"
        /\ queue'[u] = <<>> /\ task'[u] = "wait"
    BY <1>1 DEF Reboot
  <2>2. Len(<<>> \o <<>>) = 0
    OBVIOUS
  <2>3. Len(Pipe(u))' = 0
    BY <2>1, <2>2, Zenon DEF Pipe
  <2>4. \A S : Count(S, <<>>) = 0
    <3>1. <<>> \in Seq({})
      BY EmptySeq
    <3> QED
      BY <3>1, CountSteps
  <2>5. Undone(u)' = 0 /\ Partial(u)' = 0
    BY <2>1, <2>4 DEF Undone, Partial
  <2> QED
    BY <2>3, <2>5
<1>2. CASE ~Reboot
  <2>1. /\ goDown[u] = 0 /\ Len(Pipe(u)) \in Nat /\ Partial(u) \in 0 .. 2
        /\ Undone(u) \in Nat /\ Undone(u)' \in Nat
    BY <1>2, PipeLen, UndoneMoves
  <2>2. Len(Pipe(u)) <= 3 * Undone(u) + Partial(u)
    BY <2>1 DEF IInv, LocksBound
  <2>w. PICK a \in Nat, n \in Nat, n1 \in Nat, p \in 0 .. 2 :
          /\ a = Len(Pipe(u)) /\ n = Undone(u) /\ n1 = Undone(u)'
          /\ p = Partial(u)
    BY <2>1
  <2>3. CASE Handle(u)
    <3>1. /\ Len(Pipe(u))' = a - 3 /\ Partial(u)' = p /\ n1 >= n - 1
      BY <1>2, <2>3, <2>w, PipeLen, UndoneMoves
    <3>2. a - 3 <= 3 * n1 + p
      BY <2>2, <2>w, <3>1
    <3> QED
      BY <2>w, <3>1, <3>2
  <2>4. CASE WritePacket /\ emuUnit = u
    <3>0. ~Handle(u)
      <4>1. ThreadTypes
        BY AllTypes DEF IInv
      <4> QED
        BY <2>4, <4>1 DEF WritePacket, Handle, TGoto, ThreadTypes
    <3>1. /\ Len(Pipe(u))' = a + 1 /\ p = written
          /\ Partial(u)' = IF p < 2 THEN p + 1 ELSE 0
      BY <1>2, <2>4, <2>w, PipeLen
    <3>2. n1 = IF p < 2 THEN n ELSE n + 1
      BY <1>2, <2>4, <2>w, <3>0, <3>1, UndoneMoves
    <3>3. a + 1 <= 3 * n1 + (IF p < 2 THEN p + 1 ELSE 0)
      BY <2>2, <2>w, <3>2
    <3> QED
      BY <2>w, <3>1, <3>3
  <2>5. CASE ~Handle(u) /\ ~(WritePacket /\ emuUnit = u)
    <3>1. Len(Pipe(u))' = a /\ Partial(u)' = p /\ n1 = n
      BY <1>2, <2>5, <2>w, PipeLen, UndoneMoves
    <3> QED
      BY <2>2, <2>w, <3>1
  <2> QED
    BY <2>3, <2>4, <2>5
<1> QED
  BY <1>1, <1>2

\* The two sides of the bound on the locks that come back to unit u.
Back(u) == backPipe[u] + (IF PastHandle(u) THEN 1 ELSE 0)
Load(u) == IF goDown[u] = 0 THEN Len(Pipe(u)) - Partial(u) ELSE 0
Room(u) == Limit + Spare + (IF task[u] = "scan" THEN 0 ELSE d5[u])

\* They are numbers, and the words of a load are those of whole commands.
LEMMA SidesAre ==
  ASSUME IInv, NEW u \in Units
  PROVE  /\ Back(u) \in Nat /\ Room(u) \in Nat /\ Spare \in {0, 1}
         /\ \E k \in Nat : Load(u) = 3 * k
         /\ 3 * Back(u) + Load(u) <= 3 * Room(u)
<1>0. /\ TaskTypes /\ ThreadTypes /\ Limit \in Nat
  BY AllTypes, FilesysAssumption DEF IInv
<1>1. Spare \in {0, 1}
  BY DEF Spare
<1>2. backPipe[u] \in Nat /\ d5[u] \in Nat
  <2>1. backPipe[u] \in 0 .. BackCap /\ d5[u] \in 0 .. Limit
    BY <1>0 DEF TaskTypes, ThreadTypes
  <2> QED
    BY <2>1, FilesysAssumption
<1>3. Back(u) \in Nat /\ Room(u) \in Nat
  BY <1>0, <1>1, <1>2 DEF Back, Room
<1>4. \E k \in Nat : Load(u) = 3 * k
  <2>1. CASE goDown[u] = 0
    <3>1. PICK k \in 0 .. UnitCap + 3 : Len(Pipe(u)) = 3 * k + Partial(u)
      BY <2>1 DEF IInv, PipeWords
    <3>2. Partial(u) \in 0 .. 2
      BY PartialIs DEF IInv
    <3>3. Len(Pipe(u)) - Partial(u) = 3 * k /\ k \in Nat
      BY <3>1, <3>2, FilesysAssumption
    <3> QED
      BY <2>1, <3>3 DEF Load
  <2>2. CASE goDown[u] # 0
    BY <2>2 DEF Load
  <2> QED
    BY <2>1, <2>2
<1>5. 3 * Back(u) + Load(u) <= 3 * Room(u)
  BY DEF IInv, LocksBound, Back, Load, Room
<1> QED
  BY <1>1, <1>3, <1>4, <1>5

\* Locks come back one by one, and are taken all at once.
LEMMA BackMoves ==
  ASSUME IInv, [Next]_vars, ~Reboot, NEW u \in Units
  PROVE  /\ Handle(u) => Back(u)' = Back(u) + 1
         /\ Release(u) => Back(u)' = IF PastHandle(u) THEN 1 ELSE 0
         /\ ~Handle(u) /\ ~Release(u) => Back(u)' = Back(u)
<1> USE DEF taskVars, emuVars, intVars, countVars, threadVars, Goto, TGoto
<1> DEFINE Same == Back(u)' = Back(u)
<1>0. ThreadTypes /\ ThreadTypes'
  BY AllTypes, ThreadTypesInv DEF IInv
<1>1. backPipe[u] \in Nat
  <2>1. backPipe[u] \in 0 .. BackCap
    BY <1>0 DEF ThreadTypes
  <2> QED
    BY <2>1, FilesysAssumption
<1>f. ASSUME backPipe'[u] = backPipe[u], thread'[u] = thread[u]
      PROVE  Same
  BY <1>f DEF Back, PastHandle
<1>2. Handle(u) => Back(u)' = Back(u) + 1
  <2>1. Handle(u) => /\ thread[u] = "read" /\ thread'[u] = "sent"
                     /\ backPipe' = backPipe
    BY <1>0 DEF Handle, ThreadTypes
  <2> QED
    BY <1>1, <2>1 DEF Back, PastHandle
<1>3. Release(u) => Back(u)' = IF PastHandle(u) THEN 1 ELSE 0
  <2>1. Release(u) => thread' = thread /\ backPipe'[u] = 0
    BY <1>0 DEF Release, ThreadTypes
  <2> QED
    BY <2>1 DEF Back, PastHandle
<1>4. ASSUME NEW v \in Units, Handle(v) \/ Release(v), v # u
      PROVE  Same
  <2>1. backPipe'[u] = backPipe[u] /\ thread'[u] = thread[u]
    BY <1>0, <1>4 DEF Handle, Release, ThreadTypes
  <2> QED
    BY <1>f, <2>1
<1>5. ASSUME NEW v \in Units, CountSent(v) \/ RaiseInt(v) \/ Uncount(v) \/ Drop(v)
      PROVE  Same
  <2>1. /\ backPipe' = backPipe
        /\ PastHandle(u)' = PastHandle(u)
    BY <1>0, <1>5 DEF CountSent, RaiseInt, Uncount, Drop, PastHandle, ThreadTypes
  <2> QED
    BY <2>1 DEF Back
<1>6. ASSUME NEW v \in Units, SendLocks(v) PROVE Same
  <2>1. CASE v # u
    <3>1. backPipe'[u] = backPipe[u] /\ thread'[u] = thread[u]
      BY <1>0, <1>6, <2>1 DEF SendLocks, ThreadTypes
    <3> QED
      BY <1>f, <3>1
  <2>2. CASE v = u
    <3>1. /\ thread[u] = "back" /\ thread'[u] = "read"
          /\ backPipe'[u] = backPipe[u] + 1
      BY <1>0, <1>6, <2>2 DEF SendLocks, ThreadTypes
    <3> QED
      BY <1>1, <3>1 DEF Back, PastHandle
  <2> QED
    BY <2>1, <2>2
<1>7. ASSUME \/ \E v \in Units :
                   \/ GetMsg(v) \/ ScanReply(v) \/ ScanNext(v) \/ ScanEnd(v)
                   \/ TooMany(v) \/ Refuse(v) \/ DoCommand(v) \/ Enqueue(v)
                   \/ ReadWord(v) \/ PutDummy(v)
             \/ \E p \in Packets : Send(p)
             \/ CountPacket \/ WritePacket \/ Hsync \/ EnterServer
             \/ NoneNeeds \/ LeaveServer \/ Reset \/ SendDeath \/ NextDown
             \/ UNCHANGED vars
      PROVE  Same
  <2>1. UNCHANGED <<backPipe, thread>>
    BY <1>7 DEF GetMsg, ScanReply, ScanNext, ScanEnd, TooMany, Refuse,
       DoCommand, Enqueue, ReadWord, PutDummy, Send, CountPacket, WritePacket,
       Hsync, EnterServer, NoneNeeds, LeaveServer, Reset, SendDeath, NextDown,
       vars
  <2> QED
    BY <1>f, <2>1
<1> HIDE DEF Same
<1>8. ~Handle(u) /\ ~Release(u) => Same
  BY <1>4, <1>5, <1>6, <1>7
     DEF Next, TaskStep, ThreadStep, HandlerStep, ServerStep, ResetStep
<1> QED
  BY <1>2, <1>3, <1>8 DEF Same

\* A command begun makes room for its lock; a scan begins with the limit.
LEMMA RoomMoves ==
  ASSUME IInv, [Next]_vars, ~Reboot, NEW u \in Units
  PROVE  /\ WritePacket /\ emuUnit = u /\ ~(written < 2) =>
              Room(u)' = Room(u) + 1
         /\ Release(u) => Room(u)' = Limit + Spare
         /\ ~Release(u) => Room(u)' >= Room(u)
<1> USE DEF taskVars, emuVars, intVars, countVars, threadVars, Goto, TGoto
<1> DEFINE Grows == Room(u)' >= Room(u)
<1>0. TaskTypes /\ TrapPlace /\ EmuTypes
  BY AllTypes DEF IInv
<1>1. /\ d5[u] \in Nat /\ Limit \in Nat /\ Spare \in Nat /\ Room(u) \in Nat
  <2>1. d5[u] \in 0 .. Limit /\ Spare \in Nat
    BY <1>0 DEF TaskTypes, Spare
  <2>2. Room(u) \in Nat
    BY SidesAre
  <2> QED
    BY <2>1, <2>2, FilesysAssumption
<1>f. ASSUME d5'[u] = d5[u], task'[u] = "scan" => task[u] = "scan"
      PROVE  Grows
  BY <1>1, <1>f DEF Room
<1>2. ASSUME WritePacket, emuUnit = u, ~(written < 2)
      PROVE  Room(u)' = Room(u) + 1
  <2>1. /\ task[u] = "trap" /\ task'[u] = "enqueue" /\ d5'[u] = d5[u] + 1
    BY <1>0, <1>2 DEF WritePacket, TaskTypes
  <2> QED
    BY <1>1, <2>1 DEF Room
<1>3. ASSUME Release(u) PROVE Room(u)' = Limit + Spare
  <2>1. task'[u] = "scan"
    BY <1>0, <1>3 DEF Release, TaskTypes
  <2> QED
    BY <1>1, <2>1 DEF Room
<1>4. ASSUME NEW v \in Units, v # u, Release(v) PROVE Grows
  <2>1. d5' = d5 /\ task'[u] = task[u]
    BY <1>0, <1>4 DEF Release, TaskTypes
  <2> QED
    BY <1>f, <2>1
<1>5. ASSUME NEW v \in Units, ScanReply(v) PROVE Grows
  <2>1. /\ task[v] = "scan" /\ task' = task /\ (v # u => d5'[u] = d5[u])
    BY <1>0, <1>5 DEF ScanReply, TaskTypes
  <2>2. CASE v # u
    BY <1>f, <2>1, <2>2
  <2>3. CASE v = u
    BY <1>1, <2>1, <2>3 DEF Room
  <2> QED
    BY <2>2, <2>3
<1>6. ASSUME NEW v \in Units,
             \/ GetMsg(v) \/ ScanEnd(v) \/ TooMany(v) \/ Refuse(v)
             \/ DoCommand(v) \/ Enqueue(v)
      PROVE  Grows
  <2>1. d5' = d5 /\ (task'[u] = "scan" => task[u] = "scan")
    BY <1>0, <1>6 DEF GetMsg, ScanEnd, TooMany, Refuse, DoCommand, Enqueue,
       TaskTypes
  <2> QED
    BY <1>f, <2>1
<1>7. ASSUME WritePacket, ~(emuUnit = u /\ ~(written < 2))
      PROVE  Grows
  <2>1. d5'[u] = d5[u] /\ task'[u] = task[u]
    BY <1>0, <1>7 DEF WritePacket, TaskTypes
  <2> QED
    BY <1>f, <2>1
<1>8. ASSUME \/ \E v \in Units :
                   \/ ScanNext(v) \/ ReadWord(v) \/ Drop(v) \/ Handle(v)
                   \/ CountSent(v) \/ RaiseInt(v) \/ Uncount(v)
                   \/ SendLocks(v) \/ PutDummy(v)
             \/ \E p \in Packets : Send(p)
             \/ CountPacket \/ Hsync \/ EnterServer \/ NoneNeeds
             \/ LeaveServer \/ Reset \/ SendDeath \/ NextDown
             \/ UNCHANGED vars
      PROVE  Grows
  <2>1. UNCHANGED <<d5, task>>
    BY <1>8 DEF ScanNext, ReadWord, Drop, Handle, CountSent, RaiseInt, Uncount,
       SendLocks, PutDummy, Send, CountPacket, Hsync, EnterServer, NoneNeeds,
       LeaveServer, Reset, SendDeath, NextDown, vars
  <2> QED
    BY <1>f, <2>1
<1>9. WritePacket => Grows
  BY <1>1, <1>2, <1>7
<1> HIDE DEF Grows
<1>10. ~Release(u) => Grows
  BY <1>4, <1>5, <1>6, <1>8, <1>9
     DEF Next, TaskStep, ThreadStep, HandlerStep, ServerStep, ResetStep
<1> QED
  BY <1>2, <1>3, <1>10 DEF Grows

\* A command leaves unit_pipe as its lock is put on the way back.
LEMMA LoadMoves ==
  ASSUME IInv, [Next]_vars, ~Reboot, NEW u \in Units
  PROVE  /\ Load(u)' \in Int
         /\ Handle(u) => Load(u)' <= Load(u) - 3
         /\ WritePacket /\ emuUnit = u /\ ~(written < 2) =>
              Load(u)' <= Load(u) + 3
         /\ ~Handle(u) /\ ~(WritePacket /\ emuUnit = u /\ ~(written < 2)) =>
              Load(u)' <= Load(u)
<1>1. Load(u) \in Nat /\ written \in 0 .. 3
  <2>1. \E k \in Nat : Load(u) = 3 * k
    BY SidesAre
  <2> QED
    BY <2>1 DEF IInv, TypeOK
<1>2. CASE goDown'[u] = 0
  <2>1. /\ goDown[u] = 0 /\ Len(Pipe(u)) \in Nat /\ Partial(u) \in 0 .. 2
        /\ Handle(u) => /\ Len(Pipe(u))' = Len(Pipe(u)) - 3
                        /\ Partial(u)' = Partial(u)
        /\ WritePacket /\ emuUnit = u =>
             /\ Len(Pipe(u))' = Len(Pipe(u)) + 1 /\ Partial(u) = written
             /\ Partial(u)' = IF written < 2 THEN written + 1 ELSE 0
        /\ ~Handle(u) /\ ~(WritePacket /\ emuUnit = u) =>
             Len(Pipe(u))' = Len(Pipe(u)) /\ Partial(u)' = Partial(u)
    BY <1>2, PipeLen
  <2>2. PICK a \in Nat, p \in 0 .. 2 : a = Len(Pipe(u)) /\ p = Partial(u)
    BY <2>1
  <2>3. Load(u) = a - p
    BY <2>1, <2>2 DEF Load
  <2>4. Load(u)' = Len(Pipe(u))' - Partial(u)'
    BY <1>2 DEF Load
  <2>5. CASE Handle(u)
    <3>1. Load(u)' = (a - 3) - p /\ ~(WritePacket /\ emuUnit = u)
      <4>1. ThreadTypes
        BY AllTypes DEF IInv
      <4>2. ~WritePacket
        BY <2>5, <4>1 DEF WritePacket, Handle, TGoto, ThreadTypes
      <4> QED
        BY <2>1, <2>2, <2>4, <2>5, <4>2
    <3> QED
      BY <2>2, <2>3, <2>5, <3>1
  <2>6. CASE ~Handle(u) /\ WritePacket /\ emuUnit = u
    <3>1. /\ p = written
          /\ Load(u)' = (a + 1) - (IF written < 2 THEN written + 1 ELSE 0)
      BY <2>1, <2>2, <2>4, <2>6
    <3> QED
      BY <1>1, <2>2, <2>3, <2>6, <3>1
  <2>7. CASE ~Handle(u) /\ ~(WritePacket /\ emuUnit = u)
    <3>1. Load(u)' = a - p
      BY <2>1, <2>2, <2>4, <2>7
    <3> QED
      BY <2>2, <2>3, <2>7, <3>1
  <2> QED
    BY <2>5, <2>6, <2>7
<1>3. CASE goDown'[u] # 0
  <2>1. Load(u)' = 0
    BY <1>3 DEF Load
  <2>2. ~Handle(u)
    BY <1>3 DEF Handle
  <2> QED
    BY <1>1, <2>1, <2>2
<1> QED
  BY <1>2, <1>3

\* The locks on their way back stay bounded.  At the start of a scan those in
\* back_pipe have been taken, and the thread has at most one.
LEMMA LocksRoom ==
  ASSUME IInv, [Next]_vars, NEW u \in Units
  PROVE  3 * Back(u)' + Load(u)' <= 3 * Room(u)'
<1>1. CASE Reboot
  <2>1. /\ backPipe'[u] = 0 /\ thread'[u] = "read" /\ goDown'[u] = 0
        /\ words'[u] = <<>> /\ unitPipe'[u] = <<>> /\ emu' = "run"
        /\ task'[u] = "wait" /\ d5'[u] = 0
    BY <1>1 DEF Reboot
  <2>2. Len(<<>> \o <<>>) = 0
    OBVIOUS
  <2>3. Len(Pipe(u))' = 0 /\ Partial(u)' = 0
    <3>1. Len(Pipe(u))' = 0
      BY <2>1, <2>2, Zenon DEF Pipe
    <3> QED
      BY <2>1, <3>1 DEF Partial
  <2>4. Back(u)' = 0 /\ Load(u)' = 0 /\ Room(u)' = Limit + Spare
    <3>1. Back(u)' = 0 /\ Load(u)' = 0
      BY <2>1, <2>3 DEF Back, Load, PastHandle
    <3>2. Limit + Spare \in Nat
      BY FilesysAssumption DEF Spare
    <3>3. Room(u)' = Limit + Spare
      BY <2>1, <3>2 DEF Room
    <3> QED
      BY <3>1, <3>3
  <2>5. Limit + Spare >= 0
    BY FilesysAssumption DEF Spare
  <2>6. Limit + Spare \in Nat
    BY FilesysAssumption DEF Spare
  <2> QED
    BY <2>4, <2>5, <2>6
<1>2. CASE ~Reboot
  <2>1. PICK b \in Nat, r \in Nat, k \in Nat :
          b = Back(u) /\ r = Room(u) /\ Load(u) = 3 * k
    BY SidesAre
  <2>2. 3 * b + 3 * k <= 3 * r
    BY <2>1, SidesAre
  <2>3. PICK x \in Int : x = Load(u)'
    BY <1>2, LoadMoves
  <2>4. CASE Handle(u)
    <3>1. ~Release(u)
      <4>1. ThreadTypes
        BY AllTypes DEF IInv
      <4> QED
        BY <2>4, <4>1 DEF Release, Handle, TGoto, ThreadTypes
    <3>2. Back(u)' = b + 1 /\ x <= 3 * k - 3
      BY <1>2, <2>1, <2>3, <2>4, BackMoves, LoadMoves
    <3>3. Room(u)' >= r
      BY <1>2, <2>1, <3>1, RoomMoves
    <3>4. Room(u)' \in Int
      <4>1. d5'[u] \in Int /\ Limit + Spare \in Nat
        BY TypesInv, FilesysAssumption DEF TypeOK, Spare
      <4> QED
        BY <4>1 DEF Room
    <3> QED
      BY <2>2, <2>3, <3>2, <3>3, <3>4
  <2>5. CASE WritePacket /\ emuUnit = u /\ ~(written < 2)
    <3>1. ~Release(u) /\ ~Handle(u)
      <4>1. ThreadTypes
        BY AllTypes DEF IInv
      <4> QED
        BY <2>5, <4>1 DEF Release, Handle, WritePacket, TGoto, Runs68k,
           ThreadTypes
    <3>2. Back(u)' = b /\ x <= 3 * k + 3 /\ Room(u)' = r + 1
      BY <1>2, <2>1, <2>3, <2>5, <3>1, BackMoves, LoadMoves, RoomMoves
    <3> QED
      BY <2>2, <2>3, <3>2
  <2>6. CASE Release(u)
    <3>1. /\ ~Handle(u) /\ ~(WritePacket /\ emuUnit = u /\ ~(written < 2))
      <4>1. ThreadTypes
        BY AllTypes DEF IInv
      <4> QED
        BY <2>6, <4>1 DEF Release, Handle, WritePacket, TGoto, Runs68k,
           ThreadTypes
    <3>2. /\ Back(u)' = IF PastHandle(u) THEN 1 ELSE 0
          /\ x <= 3 * k /\ Room(u)' = Limit + Spare
      BY <1>2, <2>1, <2>3, <2>6, <3>1, BackMoves, LoadMoves, RoomMoves
    <3>3. goDown[u] = 0 /\ emu = "run" /\ Partial(u) = 0
      <4>1. emu = "run" /\ ThreadTypes
        BY <2>6, AllTypes DEF Release, Runs68k, IInv
      <4> QED
        BY <4>1 DEF IInv, ResetOrder, ThreadTypes, Partial
    <3>4. PICK n \in Nat, a \in Nat : n = Undone(u) /\ a = Len(Pipe(u))
      <4>1. Undone(u) \in Nat
        BY <1>2, UndoneMoves
      <4>2. goDown'[u] = 0
        BY <2>6, <3>3 DEF Release
      <4>3. Len(Pipe(u)) \in Nat
        BY <1>2, <4>2, PipeLen
      <4> QED
        BY <4>1, <4>3
    <3>5. 3 * k = a
      BY <2>1, <3>3, <3>4 DEF Load
    <3>6. a <= 3 * n
      BY <3>3, <3>4 DEF IInv, LocksBound
    <3>7. n <= Limit
      <4>1. d5[u] \in 0 .. Limit /\ d5[u] = InList({-1, 0}, u)
            /\ Undone(u) = InList({0}, u)
            /\ InList({0}, u) <= InList({-1, 0}, u)
        BY InListIs DEF IInv, TypeOK
      <4> QED
        BY <3>4, <4>1, FilesysAssumption
    <3>8. Spare \in {0, 1} /\ Limit \in Nat /\ UnitCap \in Nat
      BY SidesAre, FilesysAssumption
    <3>9. CASE ~PastHandle(u)
      BY <2>3, <3>2, <3>5, <3>6, <3>7, <3>8, <3>9
    <3>10. CASE PastHandle(u)
      <4>1. a <= UnitCap
        <5>1. words[u] = <<>> /\ Len(unitPipe[u]) <= UnitCap
          BY <3>10 DEF IInv, PipeWords
        <5>2. unitPipe[u] \in Seq(Packets \cup {Death})
          BY UnitTypes DEF IInv
        <5>3. <<>> \o unitPipe[u] = unitPipe[u]
          BY <5>2, ConcatEmptySeq
        <5>4. Pipe(u) = unitPipe[u]
          BY <5>1, <5>3, Zenon DEF Pipe
        <5> QED
          BY <3>4, <5>1, <5>4
      <4>2. CASE UnitCap < 3 * Limit
        <5>1. 3 * k < 3 * Limit /\ k + 1 <= Limit
          BY <3>5, <3>8, <4>1, <4>2
        <5> QED
          BY <2>3, <3>2, <3>8, <3>10, <5>1
      <4>3. CASE ~(UnitCap < 3 * Limit)
        <5>1. Spare = 1
          BY <4>3 DEF Spare
        <5> QED
          BY <2>3, <3>2, <3>5, <3>6, <3>7, <3>8, <3>10, <5>1
      <4> QED
        BY <4>2, <4>3
    <3> QED
      BY <3>9, <3>10
  <2>7. CASE /\ ~Handle(u) /\ ~Release(u)
             /\ ~(WritePacket /\ emuUnit = u /\ ~(written < 2))
    <3>1. Back(u)' = b /\ x <= 3 * k /\ Room(u)' >= r
      BY <1>2, <2>1, <2>3, <2>7, BackMoves, LoadMoves, RoomMoves
    <3>2. Room(u)' \in Int
      <4>1. d5'[u] \in Int /\ Limit + Spare \in Nat
        BY TypesInv, FilesysAssumption DEF TypeOK, Spare
      <4> QED
        BY <4>1 DEF Room
    <3> QED
      BY <2>2, <2>3, <3>1, <3>2
  <2> QED
    BY <2>4, <2>5, <2>6, <2>7
<1> QED
  BY <1>1, <1>2

\* The bound on the locks is kept.
LEMMA LocksBoundInv ==
  ASSUME IInv, [Next]_vars
  PROVE  LocksBound'
<1>1. ASSUME NEW u \in Units
      PROVE  /\ goDown'[u] = 0 => Len(Pipe(u))' <= 3 * Undone(u)' + Partial(u)'
             /\ 3 * Back(u)' + Load(u)' <= 3 * Room(u)'
  BY PipeUndone, LocksRoom
<1> QED
  BY <1>1 DEF LocksBound, Back, Load, Room

-----------------------------------------------------------------------------
(* Never not enough interrupts.                                            *)

\* Only the unit's thread makes a completed command that its task has not seen;
\* a scan that begins will see them all.
LEMMA UnseenMoves ==
  ASSUME IInv, [Next]_vars, ~Reboot, NEW u \in Units, ~Handle(u), Unseen(u)'
  PROVE  Unseen(u) /\ ~Release(u)
<1> USE DEF taskVars, emuVars, intVars, countVars, threadVars, Goto, TGoto
<1> DEFINE Kept == Unseen(u) /\ ~Release(u)
<1>0. /\ TypeOK /\ Contents /\ D5Counts /\ TaskTypes /\ SeqTypes /\ TrapPlace
  BY AllTypes DEF IInv
<1>1. /\ queue[u] \in Seq(Of(u)) /\ Len(queue[u]) \in Nat
      /\ \A i \in 1 .. Len(queue[u]) : queue[u][i] \in Of(u)
      /\ task[u] = "enqueue" => msg[u] \in Of(u)
  <2>1. queue[u] \in Seq(Of(u))
    BY <1>0 DEF SeqTypes
  <2>2. task[u] = "enqueue" => msg[u] \in Of(u)
    BY <1>0 DEF TaskTypes, Holds
  <2> QED
    BY <2>1, <2>2, LenProperties, ElementOfSeq
<1>2. \/ task'[u] = "enqueue" /\ status'[msg'[u]] = -1
      \/ \E i \in 1 .. Len(queue'[u]) : /\ status'[queue'[u][i]] = -1
                                        /\ ~(task'[u] = "scan" /\ scan'[u] <= i)
  BY DEF Unseen
<1>f. ASSUME queue'[u] = queue[u], scan'[u] = scan[u],
             task[u] = "scan" => task'[u] = "scan",
             task'[u] = "enqueue" =>
               \/ task[u] = "enqueue" /\ msg'[u] = msg[u]
               \/ status'[msg'[u]] # -1,
             \A p \in Of(u) : status'[p] = -1 => status[p] = -1
      PROVE  Unseen(u)
  BY <1>1, <1>2, <1>f DEF Unseen
<1>3. ASSUME NEW v \in Units, GetMsg(v) \/ Refuse(v) \/ DoCommand(v) PROVE Kept
  <2>1. /\ queue' = queue /\ scan' = scan /\ status' = status
        /\ task[u] = "scan" => task'[u] = "scan"
        /\ task'[u] = "enqueue" => task[u] = "enqueue" /\ msg'[u] = msg[u]
        /\ ~Release(u)
    BY <1>0, <1>3 DEF GetMsg, Refuse, DoCommand, Release, TaskTypes
  <2> QED
    BY <1>f, <2>1
<1>4. ASSUME NEW v \in Units, Release(v) PROVE Kept
  <2>1. /\ queue' = queue /\ status' = status /\ msg' = msg /\ task[v] = "dummy"
        /\ task' = [task EXCEPT ![v] = "scan"] /\ scan' = [scan EXCEPT ![v] = 1]
    BY <1>4 DEF Release
  <2>2. v # u
    <3> SUFFICES ASSUME v = u PROVE FALSE
      OBVIOUS
    <3>1. task'[u] = "scan" /\ scan'[u] = 1
      BY <1>0, <2>1 DEF TaskTypes
    <3> QED
      BY <1>1, <1>2, <2>1, <3>1
  <2>3. task'[u] = task[u] /\ scan'[u] = scan[u]
    BY <1>0, <2>1, <2>2 DEF TaskTypes
  <2>4. ~Release(u)
    <3> SUFFICES ASSUME Release(u) PROVE FALSE
      OBVIOUS
    <3>1. task[u] = "dummy" /\ task'[u] = "scan"
      BY <1>0 DEF Release, TaskTypes
    <3> QED
      BY <2>3, <3>1
  <2> QED
    BY <1>f, <2>1, <2>3, <2>4
<1>5. ASSUME NEW v \in Units, ScanReply(v) PROVE Kept
  <2>1. PICK k \in 1 .. Len(queue[v]) :
          /\ task[v] = "scan" /\ k = scan[v]
          /\ queue' = [queue EXCEPT ![v] = RemoveAt(queue[v], k)]
          /\ UNCHANGED <<task, msg, status, scan>>
    BY <1>0, <1>5, ScanCounted DEF ScanReply
  <2>2. ~Release(u)
    BY <1>0, <2>1 DEF Release, TaskTypes
  <2>3. CASE v # u
    <3>1. queue'[u] = queue[u]
      BY <1>0, <2>1, <2>3 DEF SeqTypes
    <3> QED
      BY <1>f, <2>1, <2>2, <3>1
  <2>4. CASE v = u
    <3>1. /\ queue'[u] = RemoveAt(queue[u], k) /\ k \in 1 .. Len(queue[u])
          /\ Len(RemoveAt(queue[u], k)) = Len(queue[u]) - 1
          /\ \A i \in 1 .. Len(queue[u]) - 1 :
               RemoveAt(queue[u], k)[i]
                 = IF i < k THEN queue[u][i] ELSE queue[u][i + 1]
      BY <1>0, <1>1, <2>1, <2>4, RemoveAtIs DEF SeqTypes
    <3>2. PICK i \in 1 .. Len(queue'[u]) :
            status'[queue'[u][i]] = -1 /\ ~(scan'[u] <= i)
      BY <1>2, <2>1, <2>4
    <3>3. i \in 1 .. Len(queue[u]) - 1 /\ i < k /\ i \in 1 .. Len(queue[u])
      BY <1>1, <2>1, <2>4, <3>1, <3>2
    <3>4. queue'[u][i] = queue[u][i]
      BY <3>1, <3>3
    <3>5. status[queue[u][i]] = -1 /\ ~(scan[u] <= i)
      BY <2>1, <3>2, <3>4
    <3> QED
      BY <2>2, <3>3, <3>5 DEF Unseen
  <2> QED
    BY <2>3, <2>4
<1>6. ASSUME NEW v \in Units, ScanNext(v) PROVE Kept
  <2>1. /\ task[v] = "scan" /\ ~(status[queue[v][scan[v]]] = -1)
        /\ scan' = [scan EXCEPT ![v] = scan[v] + 1]
        /\ UNCHANGED <<task, msg, queue, status>>
    BY <1>6 DEF ScanNext
  <2>2. ~Release(u)
    BY <1>0, <2>1 DEF Release, TaskTypes
  <2>3. CASE v # u
    <3>1. scan'[u] = scan[u]
      BY <1>0, <2>1, <2>3 DEF TaskTypes
    <3> QED
      BY <1>f, <2>1, <2>2, <3>1
  <2>4. CASE v = u
    <3>1. scan'[u] = scan[u] + 1 /\ scan[u] \in Nat
      BY <1>0, <2>1, <2>4 DEF TaskTypes
    <3>2. PICK i \in 1 .. Len(queue[u]) :
            status[queue[u][i]] = -1 /\ ~(scan[u] + 1 <= i)
      BY <1>2, <2>1, <2>4, <3>1
    <3>3. i # scan[u]
      BY <2>1, <2>4, <3>2
    <3>4. ~(scan[u] <= i)
      BY <1>1, <3>1, <3>2, <3>3
    <3> QED
      BY <2>2, <3>2, <3>4 DEF Unseen
  <2> QED
    BY <2>3, <2>4
<1>7. ASSUME NEW v \in Units, ScanEnd(v) PROVE Kept
  <2>1. /\ task[v] = "scan" /\ scan[v] > Len(queue[v])
        /\ task' = [task EXCEPT ![v] = "wait"]
        /\ UNCHANGED <<scan, msg, queue, status>>
    BY <1>7 DEF ScanEnd
  <2>2. ~Release(u)
    BY <1>0, <2>1 DEF Release, TaskTypes
  <2>3. CASE v # u
    <3>1. task'[u] = task[u]
      BY <1>0, <2>1, <2>3 DEF TaskTypes
    <3> QED
      BY <1>f, <2>1, <2>2, <3>1
  <2>4. CASE v = u
    <3>1. task'[u] = "wait" /\ scan[u] \in Nat
      BY <1>0, <2>1, <2>4 DEF TaskTypes
    <3>2. PICK i \in 1 .. Len(queue[u]) : status[queue[u][i]] = -1
      BY <1>2, <2>1, <3>1
    <3>3. ~(scan[u] <= i)
      BY <1>1, <2>1, <2>4, <3>1
    <3> QED
      BY <2>2, <3>2, <3>3 DEF Unseen
  <2> QED
    BY <2>3, <2>4
<1>8. ASSUME NEW v \in Units, TooMany(v) PROVE Kept
  <2>1. /\ task[v] = "dos" /\ task' = [task EXCEPT ![v] = "enqueue"]
        /\ status' = [status EXCEPT ![msg[v]] = 1]
        /\ UNCHANGED <<scan, msg, queue>>
    BY <1>8 DEF TooMany
  <2>2. ~Release(u)
    BY <1>0, <2>1 DEF Release, TaskTypes
  <2>3. msg[v] \in Packets
    BY <1>0, <2>1 DEF TaskTypes, Holds, Of
  <2>4. \A p \in Of(u) : status'[p] = -1 => status[p] = -1
    BY <1>0, <2>1, <2>3 DEF TaskTypes, Of
  <2>5. /\ task[u] = "scan" => task'[u] = "scan"
        /\ task'[u] = "enqueue" =>
             \/ task[u] = "enqueue" /\ msg'[u] = msg[u]
             \/ status'[msg'[u]] # -1
    <3>1. CASE v = u
      BY <1>0, <2>1, <2>3, <3>1 DEF TaskTypes
    <3>2. CASE v # u
      BY <1>0, <2>1, <3>2 DEF TaskTypes
    <3> QED
      BY <3>1, <3>2
  <2> QED
    BY <1>f, <2>1, <2>2, <2>4, <2>5
<1>9. ASSUME NEW v \in Units, Enqueue(v) PROVE Kept
  <2>1. /\ task[v] = "enqueue" /\ task' = [task EXCEPT ![v] = "wait"]
        /\ queue' = [queue EXCEPT ![v] = <<msg[v]>> \o queue[v]]
        /\ UNCHANGED <<scan, msg, status>>
    BY <1>9 DEF Enqueue
  <2>2. ~Release(u)
    BY <1>0, <2>1 DEF Release, TaskTypes
  <2>3. CASE v # u
    <3>1. task'[u] = task[u] /\ queue'[u] = queue[u]
      BY <1>0, <2>1, <2>3 DEF TaskTypes, SeqTypes
    <3> QED
      BY <1>f, <2>1, <2>2, <3>1
  <2>4. CASE v = u
    <3>1. /\ queue'[u] = <<msg[u]>> \o queue[u] /\ task'[u] = "wait"
          /\ Len(<<msg[u]>> \o queue[u]) = Len(queue[u]) + 1
          /\ (<<msg[u]>> \o queue[u])[1] = msg[u]
          /\ \A i \in 1 .. Len(queue[u]) :
               (<<msg[u]>> \o queue[u])[i + 1] = queue[u][i]
      BY <1>0, <1>1, <2>1, <2>4, PrependIs DEF TaskTypes, SeqTypes
    <3>2. PICK i \in 1 .. Len(queue'[u]) : status'[queue'[u][i]] = -1
      BY <1>2, <3>1
    <3>3. CASE i = 1
      <4>1. status[msg[u]] = -1
        BY <2>1, <3>1, <3>2, <3>3
      <4> QED
        BY <2>1, <2>2, <2>4, <4>1 DEF Unseen
    <3>4. CASE i # 1
      <4>1. i - 1 \in 1 .. Len(queue[u]) /\ (i - 1) + 1 = i
        BY <1>1, <3>1, <3>2, <3>4
      <4>2. queue'[u][i] = queue[u][i - 1]
        BY <3>1, <4>1
      <4>3. status[queue[u][i - 1]] = -1 /\ task[u] # "scan"
        BY <2>1, <2>4, <3>2, <4>2
      <4> QED
        BY <2>2, <4>1, <4>3 DEF Unseen
    <3> QED
      BY <3>3, <3>4
  <2> QED
    BY <2>3, <2>4
<1>10. ASSUME NEW v \in Units, Handle(v) PROVE Kept
  <2>0. v # u
    BY <1>10
  <2>1. PICK p \in Of(v) : /\ status' = [status EXCEPT ![p] = -1]
                           /\ UNCHANGED <<task, scan, msg, queue>>
    BY <1>10, HandleIs DEF Handle
  <2>2. ~Release(u)
    BY <1>0, <2>1 DEF Release, TaskTypes
  <2>3. \A q \in Of(u) : status'[q] = -1 => status[q] = -1
    BY <1>0, <2>0, <2>1 DEF TaskTypes, Of
  <2> QED
    BY <1>f, <2>1, <2>2, <2>3
<1>11. ASSUME CountPacket PROVE Kept
  <2>1. /\ emuUnit \in Units /\ task[emuUnit] = "trap"
        /\ status' = [status EXCEPT ![msg[emuUnit]] = 0]
        /\ UNCHANGED <<task, scan, msg, queue>>
    BY <1>0, <1>11 DEF CountPacket, TrapPlace
  <2>2. ~Release(u)
    BY <1>0, <2>1 DEF Release, TaskTypes
  <2>3. \A q \in Of(u) : status'[q] = -1 => status[q] = -1
    BY <1>0, <2>1 DEF TaskTypes, Of
  <2> QED
    BY <1>f, <2>1, <2>2, <2>3
<1>12. ASSUME WritePacket PROVE Kept
  <2>1. /\ emuUnit \in Units /\ task[emuUnit] = "trap" /\ emu = "write"
        /\ \/ task' = task
           \/ task' = [task EXCEPT ![emuUnit] = "enqueue"]
        /\ status[msg[emuUnit]] = 0
        /\ UNCHANGED <<status, scan, msg, queue>>
    BY <1>0, <1>12 DEF WritePacket, TrapPlace
  <2>2. ~Release(u)
    BY <2>1 DEF Release, Runs68k
  <2>3. /\ task[u] = "scan" => task'[u] = "scan"
        /\ task'[u] = "enqueue" =>
             \/ task[u] = "enqueue" /\ msg'[u] = msg[u]
             \/ status'[msg'[u]] # -1
    BY <1>0, <2>1 DEF TaskTypes
  <2> QED
    BY <1>f, <2>1, <2>2, <2>3
<1>13. ASSUME \/ \E v \in Units :
                   \/ ReadWord(v) \/ Drop(v) \/ CountSent(v) \/ RaiseInt(v)
                   \/ Uncount(v) \/ SendLocks(v) \/ PutDummy(v)
              \/ \E p \in Packets : Send(p)
              \/ Hsync \/ EnterServer \/ NoneNeeds \/ LeaveServer
              \/ Reset \/ SendDeath \/ NextDown
              \/ UNCHANGED vars
       PROVE  Kept
  <2>1. UNCHANGED <<task, scan, msg, queue, status>>
    BY <1>13 DEF ReadWord, Drop, CountSent, RaiseInt, Uncount, SendLocks,
       PutDummy, Send, Hsync, EnterServer, NoneNeeds, LeaveServer, Reset,
       SendDeath, NextDown, vars
  <2>2. ~Release(u)
    BY <1>0, <2>1 DEF Release, TaskTypes
  <2> QED
    BY <1>f, <2>1, <2>2
<1> HIDE DEF Kept
<1>14. ASSUME NEW v \in Units, TaskStep(v) PROVE Kept
  BY <1>3, <1>4, <1>5, <1>6, <1>7, <1>8, <1>9, <1>14 DEF TaskStep
<1>15. ASSUME NEW v \in Units, ThreadStep(v) PROVE Kept
  BY <1>10, <1>13, <1>15 DEF ThreadStep
<1>16. Kept
  BY <1>11, <1>12, <1>13, <1>14, <1>15
     DEF Next, HandlerStep, ServerStep, ResetStep
<1> QED
  BY <1>16 DEF Kept

\* What a completed command that was not seen waits for: the count of its unit,
\* and the interrupt.
Due(u) ==
  /\ thread[u] = "sent" \/ acked[u] # sent[u] \/ acked[u] # complete[u]
  /\ \/ thread[u] \in {"sent", "int"} \/ intRequested = 1
     \/ server = "loop" /\ unitNo <= u
     \/ acked[u] # complete[u]

\* What is due stays due until the task takes the signal.
LEMMA DueStays ==
  ASSUME IInv, [Next]_vars, ~Reboot, NEW u \in Units, ~Handle(u), ~Release(u),
         Due(u)
  PROVE  Due(u)'
<1> USE DEF taskVars, emuVars, intVars, countVars, threadVars, Goto, TGoto
<1> DEFINE Stays == Due(u)'
<1>0. TypeOK /\ CountTypes /\ ThreadTypes /\ EmuTypes
  BY AllTypes DEF IInv
<1>1. /\ acked[u] \in Nat /\ sent[u] \in Nat /\ complete[u] \in Nat
      /\ complete[u] <= acked[u] /\ acked[u] <= sent[u]
      /\ u \in 1 .. NUnits /\ NUnits \in Nat /\ unitNo \in 1 .. NUnits + 1
  BY <1>0, FilesysAssumption DEF TypeOK, Units
<1>f. ASSUME UNCHANGED <<acked, sent, complete>>,
             thread[u] = "sent" => thread'[u] = "sent",
             thread[u] = "int" => thread'[u] = "int",
             intRequested = 1 => intRequested' = 1,
             server = "loop" => server' = "loop" /\ unitNo' = unitNo
      PROVE  Stays
  BY <1>f DEF Due
<1>2. ASSUME NEW v \in Units, Release(v) PROVE Stays
  <2>1. /\ acked' = acked /\ sent' = sent /\ complete'[u] = complete[u]
        /\ UNCHANGED <<thread, intRequested, server, unitNo>>
    <3>1. v # u
      BY <1>2
    <3> QED
      BY <1>0, <1>2, <3>1 DEF Release, CountTypes
  <2> QED
    BY <2>1 DEF Due
<1>3. ASSUME NEW v \in Units, Handle(v) PROVE Stays
  <2>1. v # u /\ thread'[u] = thread[u]
        /\ UNCHANGED <<acked, sent, complete, intRequested, server, unitNo>>
    BY <1>0, <1>3 DEF Handle, ThreadTypes
  <2> QED
    BY <1>f, <2>1
<1>4. ASSUME NEW v \in Units, CountSent(v) PROVE Stays
  <2>1. /\ thread[v] = "sent" /\ thread' = [thread EXCEPT ![v] = "int"]
        /\ sent' = [sent EXCEPT ![v] = sent[v] + 1]
        /\ UNCHANGED <<acked, complete, intRequested, server, unitNo>>
    BY <1>4 DEF CountSent
  <2>2. CASE v # u
    <3>1. thread'[u] = thread[u] /\ sent'[u] = sent[u]
      BY <1>0, <2>1, <2>2 DEF ThreadTypes, CountTypes
    <3> QED
      BY <2>1, <3>1 DEF Due
  <2>3. CASE v = u
    <3>1. thread'[u] = "int" /\ sent'[u] = sent[u] + 1
      BY <1>0, <2>1, <2>3 DEF ThreadTypes, CountTypes
    <3>2. acked'[u] # sent'[u]
      BY <1>1, <2>1, <3>1
    <3> QED
      BY <3>1, <3>2 DEF Due
  <2> QED
    BY <2>2, <2>3
<1>5. ASSUME NEW v \in Units, RaiseInt(v) PROVE Stays
  <2>1. /\ thread[v] = "int" /\ thread' = [thread EXCEPT ![v] = "count"]
        /\ intRequested' = 1
        /\ UNCHANGED <<acked, sent, complete>>
    BY <1>5 DEF RaiseInt
  <2>2. thread[u] = "sent" => thread'[u] = "sent"
    BY <1>0, <2>1 DEF ThreadTypes
  <2> QED
    BY <2>1, <2>2 DEF Due
<1>6. ASSUME NEW v \in Units, Uncount(v) \/ SendLocks(v) \/ Drop(v) PROVE Stays
  <2>1. /\ thread[u] = "sent" => thread'[u] = "sent"
        /\ thread[u] = "int" => thread'[u] = "int"
        /\ UNCHANGED <<acked, sent, complete, intRequested, server, unitNo>>
    BY <1>0, <1>6 DEF Uncount, SendLocks, Drop, ThreadTypes
  <2> QED
    BY <1>f, <2>1
<1>7. ASSUME EnterServer PROVE Stays
  <2>1. /\ unitNo' = 1 /\ server' = "loop"
        /\ UNCHANGED <<acked, sent, complete, thread>>
    BY <1>7 DEF EnterServer
  <2>2. unitNo' <= u
    BY <1>1, <2>1
  <2> QED
    BY <2>1, <2>2 DEF Due
<1>8. ASSUME NEW v \in Units, PutDummy(v) PROVE Stays
  <2>1. /\ server = "loop" /\ server' = "loop" /\ v >= unitNo /\ unitNo' = v + 1
        /\ acked[v] = complete[v] /\ acked[v] # sent[v]
        /\ acked' = [acked EXCEPT ![v] = sent[v]]
        /\ \A x \in unitNo .. (v - 1) : ~Needs(x)
        /\ UNCHANGED <<sent, complete, thread, intRequested>>
    BY <1>8 DEF PutDummy, Needs
  <2>2. CASE v = u
    <3>1. acked'[u] = sent[u]
      BY <1>0, <2>1, <2>2 DEF CountTypes
    <3>2. acked'[u] # complete'[u]
      BY <2>1, <2>2, <3>1
    <3> QED
      BY <3>2 DEF Due
  <2>3. CASE v # u
    <3>1. acked'[u] = acked[u]
      BY <1>0, <2>1, <2>3 DEF CountTypes
    <3>2. v \in 1 .. NUnits
      BY <1>8 DEF Units
    <3>3. CASE v < u
      <4>1. unitNo' <= u
        BY <1>1, <2>1, <3>2, <3>3
      <4> QED
        BY <2>1, <3>1, <4>1 DEF Due
    <3>4. CASE u < unitNo
      <4>1. ~(unitNo <= u)
        BY <1>1, <3>4
      <4> QED
        BY <2>1, <3>1, <4>1 DEF Due
    <3>5. CASE unitNo <= u /\ u < v
      <4>1. u \in unitNo .. (v - 1)
        BY <1>1, <3>2, <3>5
      <4>2. ~Needs(u)
        BY <2>1, <4>1
      <4> QED
        BY <2>1, <3>1, <4>2 DEF Due, Needs
    <3>6. v < u \/ u < unitNo \/ (unitNo <= u /\ u < v)
      BY <1>1, <2>3, <3>2
    <3> QED
      BY <3>3, <3>4, <3>5, <3>6
  <2> QED
    BY <2>2, <2>3
<1>9. ASSUME NoneNeeds PROVE Stays
  <2>1. /\ \A x \in Units : x >= unitNo => ~Needs(x)
        /\ UNCHANGED <<acked, sent, complete, thread, intRequested>>
    BY <1>9 DEF NoneNeeds
  <2>2. unitNo <= u => ~Needs(u)
    <3>1. unitNo <= u => u >= unitNo
      BY <1>1
    <3> QED
      BY <2>1, <3>1
  <2> QED
    BY <2>1, <2>2 DEF Due, Needs
<1>10. ASSUME LeaveServer PROVE Stays
  <2>1. /\ server = "done"
        /\ UNCHANGED <<acked, sent, complete, thread, intRequested>>
    BY <1>10 DEF LeaveServer
  <2> QED
    BY <1>f, <2>1
<1>11. ASSUME \/ \E v \in Units :
                   \/ GetMsg(v) \/ ScanReply(v) \/ ScanNext(v) \/ ScanEnd(v)
                   \/ TooMany(v) \/ Refuse(v) \/ DoCommand(v) \/ Enqueue(v)
                   \/ ReadWord(v)
              \/ \E p \in Packets : Send(p)
              \/ CountPacket \/ WritePacket \/ Hsync
              \/ Reset \/ SendDeath \/ NextDown
              \/ UNCHANGED vars
       PROVE  Stays
  <2>1. UNCHANGED <<acked, sent, complete, thread, intRequested, server, unitNo>>
    BY <1>11 DEF GetMsg, ScanReply, ScanNext, ScanEnd, TooMany, Refuse,
       DoCommand, Enqueue, ReadWord, Send, CountPacket, WritePacket, Hsync,
       Reset, SendDeath, NextDown, vars
  <2> QED
    BY <1>f, <2>1
<1> HIDE DEF Stays
<1>12. Stays
  BY <1>2, <1>3, <1>4, <1>5, <1>6, <1>7, <1>8, <1>9, <1>10, <1>11
     DEF Next, TaskStep, ThreadStep, HandlerStep, ServerStep, ResetStep
<1> QED
  BY <1>12 DEF Stays

\* So the interrupts that are still needed are still to come.
LEMMA SignalledInv ==
  ASSUME IInv, [Next]_vars
  PROVE  Signalled'
<1> SUFFICES ASSUME NEW u \in Units, Unseen(u)' PROVE Due(u)'
  BY DEF Signalled, Due
<1>1. CASE Reboot
  <2>1. task'[u] = "wait" /\ queue'[u] = <<>>
    BY <1>1 DEF Reboot
  <2>2. Len(<<>>) = 0 /\ 1 .. 0 = {}
    OBVIOUS
  <2>3. ~Unseen(u)'
    BY <2>1, <2>2 DEF Unseen
  <2> QED
    BY <2>3
<1>2. CASE ~Reboot /\ Handle(u)
  <2>1. thread'[u] = "sent"
    BY <1>2, AllTypes DEF Handle, TGoto, IInv, ThreadTypes
  <2> QED
    BY <2>1 DEF Due
<1>3. CASE ~Reboot /\ ~Handle(u)
  <2>1. Unseen(u) /\ ~Release(u)
    BY <1>3, UnseenMoves
  <2>2. Due(u)
    BY <2>1 DEF IInv, Signalled, Due
  <2> QED
    BY <1>3, <2>1, <2>2, DueStays
<1> QED
  BY <1>1, <1>2, <1>3

-----------------------------------------------------------------------------
(* active_fs_packets.                                                      *)

\* Where a word of a command is, by unit, place and number.
Flying(v, k, i) ==
  \/ k = 1 /\ goDown[v] = 0 /\ i <= Len(words[v])
  \/ k = 2 /\ goDown[v] = 0 /\ i <= Len(unitPipe[v])
  \/ k = 3 /\ thread[v] \in {"sent", "int", "count"} /\ i <= 3
  \/ k = 4 /\ emu = "write" /\ emuUnit = v /\ written < i /\ i <= 3

\* A place has a unit, a stage and a number.
LEMMA PlaceParts ==
  ASSUME NEW x \in Places
  PROVE  /\ x[1] \in Units /\ x[2] \in 1 .. 4 /\ x[3] \in 1 .. UnitCap + 3
         /\ \A e1, e2, e3 : x = <<e1, e2, e3>> <=> x[1] = e1 /\ x[2] = e2 /\ x[3] = e3
BY DEF Places

\* A word that moves is counted as before.
LEMMA MoveOne ==
  ASSUME NEW S \in SUBSET Places, NEW S1 \in SUBSET Places, NEW a \in S,
         NEW b \in Places, b \notin S,
         \A x \in Places : x \in S1 <=> (x \in S /\ x # a) \/ x = b
  PROVE  Cardinality(S1) = Cardinality(S)
<1>1. IsFiniteSet(S) /\ Cardinality(S) \in Nat
  BY PlacesFinite
<1>2. /\ IsFiniteSet(S \ {a}) /\ Cardinality(S \ {a}) = Cardinality(S) - 1
  BY <1>1, FS_RemoveElement
<1>3. b \notin S \ {a}
  OBVIOUS
<1>4. Cardinality((S \ {a}) \cup {b}) = Cardinality(S \ {a}) + 1
  BY <1>2, <1>3, FS_AddElement
<1>5. S1 = (S \ {a}) \cup {b}
  OBVIOUS
<1> QED
  BY <1>1, <1>2, <1>4, <1>5

\* The three words of a command that are new at a stage add three.
LEMMA AddThree ==
  ASSUME NEW S \in SUBSET Places, NEW S1 \in SUBSET Places,
         NEW u \in Units, NEW m \in 1 .. 4,
         \A i \in 1 .. 3 : <<u, m, i>> \notin S,
         \A x \in Places :
           x \in S1 <=> x \in S \/ (x[1] = u /\ x[2] = m /\ x[3] <= 3)
  PROVE  Cardinality(S1) = Cardinality(S) + 3
<1> DEFINE a == <<u, m, 1>>
           b == <<u, m, 2>>
           c == <<u, m, 3>>
<1>1. IsFiniteSet(S) /\ Cardinality(S) \in Nat
  BY PlacesFinite
<1>2. a # b /\ a # c /\ b # c /\ a \notin S /\ b \notin S /\ c \notin S
  OBVIOUS
<1>3. S1 = ((S \cup {a}) \cup {b}) \cup {c}
  <2>1. a \in Places /\ b \in Places /\ c \in Places
    BY FilesysAssumption DEF Places
  <2>2. ASSUME NEW x \in Places
        PROVE  (x[1] = u /\ x[2] = m /\ x[3] <= 3) <=> x = a \/ x = b \/ x = c
    <3>1. x[3] \in Nat /\ x[3] >= 1
      BY PlaceParts, FilesysAssumption
    <3>2. x[3] <= 3 <=> x[3] = 1 \/ x[3] = 2 \/ x[3] = 3
      BY <3>1
    <3>3. /\ x = a <=> x[1] = u /\ x[2] = m /\ x[3] = 1
          /\ x = b <=> x[1] = u /\ x[2] = m /\ x[3] = 2
          /\ x = c <=> x[1] = u /\ x[2] = m /\ x[3] = 3
      BY PlaceParts
    <3> QED
      BY <3>2, <3>3
  <2> HIDE DEF a, b, c
  <2>3. \A x \in Places : x \in S1 <=> x \in S \/ x = a \/ x = b \/ x = c
    BY <2>2
  <2> QED
    BY <2>1, <2>3
<1> HIDE DEF a, b, c
<1>4. /\ IsFiniteSet(S \cup {a}) /\ Cardinality(S \cup {a}) = Cardinality(S) + 1
  BY <1>1, <1>2, FS_AddElement
<1>5. /\ IsFiniteSet((S \cup {a}) \cup {b})
      /\ Cardinality((S \cup {a}) \cup {b}) = Cardinality(S \cup {a}) + 1
  <2>1. b \notin S \cup {a}
    BY <1>2
  <2> QED
    BY <1>4, <2>1, FS_AddElement
<1>6. Cardinality(((S \cup {a}) \cup {b}) \cup {c})
        = Cardinality((S \cup {a}) \cup {b}) + 1
  <2>1. c \notin (S \cup {a}) \cup {b}
    BY <1>2
  <2> QED
    BY <1>5, <2>1, FS_AddElement
<1> QED
  BY <1>1, <1>3, <1>4, <1>5, <1>6

\* The packets the emulator counts are those on their way to a thread and with
\* one; after a reset the count may be too high.
LEMMA BalanceInv ==
  ASSUME IInv, [Next]_vars
  PROVE  Balance'
<1> USE DEF taskVars, emuVars, intVars, countVars, threadVars, Goto, TGoto
<1>0. /\ TypeOK /\ Contents /\ Balance /\ SeqTypes /\ ThreadTypes /\ EmuTypes
      /\ TrapPlace /\ ResetOrder /\ PipeWords
      /\ active \in Nat /\ UnitCap \in Nat
      /\ resets \in Nat
  <2>1. /\ TypeOK /\ Contents /\ Balance /\ TrapPlace /\ ResetOrder /\ PipeWords
        /\ UnitCap \in Nat /\ MaxResets \in Nat
    BY FilesysAssumption DEF IInv
  <2>2. SeqTypes /\ ThreadTypes /\ EmuTypes
    BY <2>1, AllTypes
  <2>3. active \in Nat /\ resets \in Nat
    BY <2>1 DEF TypeOK
  <2> QED
    BY <2>1, <2>2, <2>3
<1>1. PICK S \in SUBSET Places, S1 \in SUBSET Places :
        /\ S = InFlight /\ S1 = InFlight'
        /\ \A x \in Places : /\ x \in S <=> Flying(x[1], x[2], x[3])
                             /\ x \in S1 <=> Flying(x[1], x[2], x[3])'
  <2>1. InFlight \in SUBSET Places /\ InFlight' \in SUBSET Places
    BY DEF InFlight
  <2>2. \A x \in Places : x \in InFlight <=> Flying(x[1], x[2], x[3])
    BY DEF InFlight, Flying
  <2>3. \A x \in Places : x \in InFlight' <=> Flying(x[1], x[2], x[3])'
    BY DEF InFlight, Flying
  <2> QED
    BY <2>1, <2>2, <2>3
<1>2. PICK n \in Nat, n1 \in Nat :
        /\ n = Cardinality(S) /\ n1 = Cardinality(S1)
        /\ n = Cardinality(InFlight) /\ n1 = Cardinality(InFlight)'
  <2>1. Cardinality(S) \in Nat /\ Cardinality(S1) \in Nat
    BY PlacesFinite
  <2>2. Cardinality(InFlight)' = Cardinality(S1)
    BY <1>1
  <2> QED
    BY <1>1, <2>1, <2>2
<1>3. n <= 3 * active /\ (emu # "reset" /\ resets = 0 => n = 3 * active)
  BY <1>0, <1>2 DEF Balance
<1> DEFINE Balanced == /\ n1 <= 3 * active'
                       /\ emu' # "reset" /\ resets' = 0 => n1 = 3 * active'
<1> SUFFICES Balanced
  BY <1>2 DEF Balance
<1>f. ASSUME n1 = n, active' = active, resets' = resets,
             emu' # "reset" => emu # "reset"
      PROVE  Balanced
  BY <1>3, <1>f
<1>s. ASSUME \A x \in Places : Flying(x[1], x[2], x[3])' <=> Flying(x[1], x[2], x[3])
      PROVE  n1 = n
  <2>1. S1 = S
    BY <1>1, <1>s
  <2> QED
    BY <1>2, <2>1
<1>4. ASSUME NEW u \in Units, ReadWord(u) PROVE Balanced
  <2>1. /\ unitPipe[u] # <<>>
        /\ words' = [words EXCEPT ![u] = Append(words[u], Head(unitPipe[u]))]
        /\ unitPipe' = [unitPipe EXCEPT ![u] = Tail(unitPipe[u])]
        /\ UNCHANGED <<goDown, thread, emu, emuUnit, written, active, resets>>
    BY <1>4 DEF ReadWord
  <2>2. PICK L \in Nat, W \in Nat :
          /\ L = Len(unitPipe[u]) /\ W = Len(words[u])
          /\ L >= 1 /\ W < 3 /\ L <= UnitCap
          /\ Len(unitPipe'[u]) = L - 1 /\ Len(words'[u]) = W + 1
    <3>1. /\ unitPipe[u] \in Seq(Of(u) \cup {Death})
          /\ words[u] \in Seq(Of(u) \cup {Death})
      BY <1>0 DEF SeqTypes
    <3>2. /\ Len(Tail(unitPipe[u])) = Len(unitPipe[u]) - 1
          /\ Len(unitPipe[u]) \in Nat \ {0}
          /\ Head(unitPipe[u]) \in Of(u) \cup {Death}
      BY <2>1, <3>1, TailIs
    <3>3. Len(Append(words[u], Head(unitPipe[u]))) = Len(words[u]) + 1
          /\ Len(words[u]) \in Nat
      BY <3>1, <3>2, AppendProperties, LenProperties
    <3>4. /\ words'[u] = Append(words[u], Head(unitPipe[u]))
          /\ unitPipe'[u] = Tail(unitPipe[u])
      BY <1>0, <2>1 DEF SeqTypes
    <3>5. Len(words[u]) < 3 /\ Len(unitPipe[u]) <= UnitCap
      BY <1>0, <1>4 DEF ReadWord, PipeWords
    <3>6. Len(unitPipe'[u]) = Len(Tail(unitPipe[u]))
          /\ Len(words'[u]) = Len(Append(words[u], Head(unitPipe[u])))
      BY <3>4, Zenon
    <3> QED
      BY <3>2, <3>3, <3>5, <3>6
  <2>3. \A v \in Units : v # u => words'[v] = words[v] /\ unitPipe'[v] = unitPipe[v]
    BY <1>0, <2>1 DEF SeqTypes
  <2>4. CASE goDown[u] = 1
    <3>1. \A x \in Places : Flying(x[1], x[2], x[3])' <=> Flying(x[1], x[2], x[3])
      <4> SUFFICES ASSUME NEW x \in Places
                   PROVE  Flying(x[1], x[2], x[3])' <=> Flying(x[1], x[2], x[3])
        OBVIOUS
      <4>1. x[1] \in Units
        BY PlaceParts
      <4> QED
        BY <2>1, <2>3, <2>4, <4>1 DEF Flying
    <3> QED
      BY <1>f, <1>s, <2>1, <3>1
  <2>5. CASE goDown[u] = 0
    <3> DEFINE a == <<u, 2, L>>
               b == <<u, 1, W + 1>>
    <3>1. a \in Places /\ b \in Places
      BY <1>0, <2>2 DEF Places
    <3>2. a \in S /\ b \notin S
      <4>1. /\ a[1] = u /\ a[2] = 2 /\ a[3] = L
            /\ b[1] = u /\ b[2] = 1 /\ b[3] = W + 1
        OBVIOUS
      <4> HIDE DEF a, b
      <4>2. Flying(a[1], a[2], a[3])
        BY <2>2, <2>5, <4>1 DEF Flying
      <4>3. ~Flying(b[1], b[2], b[3])
        BY <2>2, <2>5, <4>1 DEF Flying
      <4> QED
        BY <1>1, <3>1, <4>2, <4>3
    <3>3. ASSUME NEW x \in Places
          PROVE  x \in S1 <=> (x \in S /\ x # a) \/ x = b
      <4>1. PICK v \in Units, k \in 1 .. 4, i \in 1 .. UnitCap + 3 :
              v = x[1] /\ k = x[2] /\ i = x[3]
        BY PlaceParts
      <4>2. /\ x = a <=> v = u /\ k = 2 /\ i = L
            /\ x = b <=> v = u /\ k = 1 /\ i = W + 1
        <5>1. x = <<u, 2, L>> <=> x[1] = u /\ x[2] = 2 /\ x[3] = L
          BY PlaceParts
        <5>2. PICK y \in Nat : y = W + 1
          BY <2>2
        <5>3. x = <<u, 1, y>> <=> x[1] = u /\ x[2] = 1 /\ x[3] = y
          BY PlaceParts
        <5>4. b = <<u, 1, y>>
          BY <5>2
        <5> HIDE DEF a, b
        <5> QED
          BY <4>1, <5>1, <5>2, <5>3, <5>4 DEF a
      <4> HIDE DEF a, b
      <4>3. (x \in S <=> Flying(v, k, i)) /\ (x \in S1 <=> Flying(v, k, i)')
        BY <1>1, <4>1
      <4>4. CASE v # u
        <5>1. Flying(v, k, i)' <=> Flying(v, k, i)
          BY <2>1, <2>3, <4>4 DEF Flying
        <5> QED
          BY <4>2, <4>3, <4>4, <5>1
      <4>5. CASE v = u
        <5>1. k = 1 => (Flying(v, k, i)' <=> i <= W + 1)
                       /\ (Flying(v, k, i) <=> i <= W)
          BY <2>1, <2>2, <2>5, <4>5 DEF Flying
        <5>2. k = 2 => (Flying(v, k, i)' <=> i <= L - 1)
                       /\ (Flying(v, k, i) <=> i <= L)
          BY <2>1, <2>2, <2>5, <4>5 DEF Flying
        <5>3. k = 3 \/ k = 4 => (Flying(v, k, i)' <=> Flying(v, k, i))
          BY <2>1 DEF Flying
        <5>4. CASE k = 1
          <6>1. i <= W + 1 <=> i <= W \/ i = W + 1
            BY <1>0, <2>2
          <6> QED
            BY <4>2, <4>3, <4>5, <5>1, <5>4, <6>1
        <5>5. CASE k = 2
          <6>1. i <= L - 1 <=> i <= L /\ i # L
            BY <1>0, <2>2
          <6> QED
            BY <4>2, <4>3, <4>5, <5>2, <5>5, <6>1
        <5>6. CASE k = 3 \/ k = 4
          BY <4>2, <4>3, <5>3, <5>6
        <5> QED
          BY <5>4, <5>5, <5>6
      <4> QED
        BY <4>4, <4>5
    <3> HIDE DEF a, b
    <3>4. Cardinality(S1) = Cardinality(S)
      BY <3>1, <3>2, <3>3, MoveOne
    <3> QED
      BY <1>2, <1>f, <2>1, <3>4
  <2> QED
    BY <1>0, <2>4, <2>5 DEF ThreadTypes
<1>5. ASSUME WritePacket PROVE Balanced
  <2> DEFINE e == emuUnit
  <2>1. /\ e \in Units /\ emu = "write" /\ goDown[e] = 0
        /\ UNCHANGED <<words, goDown, thread, emuUnit, active, resets>>
        /\ written \in 0 .. 2 /\ written' = written + 1
        /\ written < 2 => emu' = "write"
        /\ ~(written < 2) => emu' = "run"
        /\ unitPipe' = [unitPipe EXCEPT ![e] = Append(unitPipe[e], msg[e])]
    <3>1. /\ emu = "write" /\ emuUnit \in Units /\ goDown[emuUnit] = 0
          /\ UNCHANGED <<words, goDown, thread, emuUnit, active, resets>>
      BY <1>0, <1>5 DEF WritePacket, TrapPlace, ResetOrder, ThreadTypes
    <3>2. written \in 0 .. 2
      BY <1>0, <3>1 DEF TypeOK, TrapPlace
    <3> QED
      BY <1>5, <3>1, <3>2 DEF WritePacket
  <2>2. PICK L \in Nat :
          /\ L = Len(unitPipe[e]) /\ L < UnitCap /\ Len(unitPipe'[e]) = L + 1
    <3>1. unitPipe[e] \in Seq(Of(e) \cup {Death}) /\ msg[e] \in Of(e) \cup {Death}
      <4>1. task[e] = "trap"
        BY <1>0, <2>1 DEF TrapPlace
      <4> QED
        BY <1>0, <2>1, <4>1 DEF SeqTypes, Contents, Holds
    <3>2. /\ Len(Append(unitPipe[e], msg[e])) = Len(unitPipe[e]) + 1
          /\ Len(unitPipe[e]) \in Nat
      BY <3>1, AppendProperties, LenProperties
    <3>3. unitPipe'[e] = Append(unitPipe[e], msg[e])
      BY <1>0, <2>1 DEF SeqTypes
    <3>4. Len(unitPipe'[e]) = Len(Append(unitPipe[e], msg[e]))
      BY <3>3, Zenon
    <3>5. Len(unitPipe[e]) < UnitCap
      BY <1>5 DEF WritePacket
    <3> QED
      BY <3>2, <3>4, <3>5
  <2>3. \A v \in Units : v # e => unitPipe'[v] = unitPipe[v]
    BY <1>0, <2>1 DEF SeqTypes
  <2>4. PICK u \in Units : u = e
    BY <2>1
  <2> DEFINE a == <<u, 4, written + 1>>
             b == <<u, 2, L + 1>>
  <2>5. PICK w \in 0 .. 2 : w = written
    BY <2>1
  <2> HIDE DEF e
  <2>6. a \in Places /\ b \in Places
    BY <1>0, <2>2, <2>5 DEF Places
  <2>7. a[1] = u /\ a[2] = 4 /\ a[3] = w + 1 /\ b[1] = u /\ b[2] = 2 /\ b[3] = L + 1
    BY <2>5
  <2>8. ASSUME NEW x \in Places, NEW v \in Units, NEW k \in 1 .. 4,
               NEW i \in 1 .. UnitCap + 3, v = x[1], k = x[2], i = x[3]
        PROVE  /\ x = a <=> v = u /\ k = 4 /\ i = w + 1
               /\ x = b <=> v = u /\ k = 2 /\ i = L + 1
    <3>0. w + 1 \in Nat /\ L + 1 \in Nat
      BY <2>2, <2>5
    <3>1. PICK y \in Nat, z \in Nat : y = w + 1 /\ z = L + 1
      BY <3>0
    <3>2. /\ x = <<u, 4, y>> <=> x[1] = u /\ x[2] = 4 /\ x[3] = y
          /\ x = <<u, 2, z>> <=> x[1] = u /\ x[2] = 2 /\ x[3] = z
      BY PlaceParts
    <3>3. a = <<u, 4, y>> /\ b = <<u, 2, z>>
      BY <2>5, <3>1
    <3> HIDE DEF a, b
    <3> QED
      BY <2>8, <3>1, <3>2, <3>3
  <2> HIDE DEF a, b
  <2>9. a \in S /\ b \notin S
    <3>1. Flying(a[1], a[2], a[3])
      BY <2>1, <2>4, <2>5, <2>7 DEF Flying, e
    <3>2. ~Flying(b[1], b[2], b[3])
      BY <2>2, <2>4, <2>7 DEF Flying
    <3> QED
      BY <1>1, <2>6, <3>1, <3>2
  <2>10. ASSUME NEW x \in Places
         PROVE  x \in S1 <=> (x \in S /\ x # a) \/ x = b
    <3>1. PICK v \in Units, k \in 1 .. 4, i \in 1 .. UnitCap + 3 :
            v = x[1] /\ k = x[2] /\ i = x[3]
      BY PlaceParts
    <3>2. /\ x = a <=> v = u /\ k = 4 /\ i = w + 1
          /\ x = b <=> v = u /\ k = 2 /\ i = L + 1
      BY <2>8, <3>1
    <3>3. (x \in S <=> Flying(v, k, i)) /\ (x \in S1 <=> Flying(v, k, i)')
      BY <1>1, <3>1
    <3>4. CASE v # u
      <4>1. Flying(v, k, i)' <=> Flying(v, k, i)
        BY <2>1, <2>3, <2>4, <3>4 DEF Flying, e
      <4> QED
        BY <3>2, <3>3, <3>4, <4>1
    <3>5. CASE v = u
      <4>1. k = 2 => (Flying(v, k, i)' <=> i <= L + 1)
                     /\ (Flying(v, k, i) <=> i <= L)
        BY <2>1, <2>2, <2>4, <3>5 DEF Flying, e
      <4>2. k = 4 => (Flying(v, k, i)' <=> w < 2 /\ w + 1 < i /\ i <= 3)
                     /\ (Flying(v, k, i) <=> w < i /\ i <= 3)
        BY <2>1, <2>4, <2>5, <3>5 DEF Flying, e
      <4>3. k = 1 \/ k = 3 => (Flying(v, k, i)' <=> Flying(v, k, i))
        BY <2>1 DEF Flying
      <4>4. CASE k = 2
        <5>1. i <= L + 1 <=> i <= L \/ i = L + 1
          BY <1>0, <2>2
        <5> QED
          BY <3>2, <3>3, <3>5, <4>1, <4>4, <5>1
      <4>5. CASE k = 4
        <5>1. (w < 2 /\ w + 1 < i /\ i <= 3) <=> (w < i /\ i <= 3 /\ i # w + 1)
          BY <1>0, <2>5
        <5> QED
          BY <3>2, <3>3, <3>5, <4>2, <4>5, <5>1
      <4>6. CASE k = 1 \/ k = 3
        BY <3>2, <3>3, <4>3, <4>6
      <4> QED
        BY <4>4, <4>5, <4>6
    <3> QED
      BY <3>4, <3>5
  <2>11. Cardinality(S1) = Cardinality(S)
    BY <2>6, <2>9, <2>10, MoveOne
  <2> QED
    BY <1>2, <1>f, <2>1, <2>11
<1>6. ASSUME CountPacket PROVE Balanced
  <2>1. /\ emuUnit \in Units /\ emu = "count" /\ emu' = "write" /\ written = 0
        /\ active' = active + 1
        /\ UNCHANGED <<words, unitPipe, goDown, thread, emuUnit, written, resets>>
    BY <1>0, <1>6 DEF CountPacket, TrapPlace
  <2>2. PICK u \in Units : u = emuUnit
    BY <2>1
  <2>3. \A i \in 1 .. 3 : <<u, 4, i>> \notin S
    <3> SUFFICES ASSUME NEW x \in S, x[2] = 4 PROVE FALSE
      OBVIOUS
    <3>1. Flying(x[1], x[2], x[3]) /\ x \in Places
      BY <1>1
    <3> QED
      BY <2>1, <3>1 DEF Flying
  <2>4. ASSUME NEW x \in Places
        PROVE  x \in S1 <=> x \in S \/ (x[1] = u /\ x[2] = 4 /\ x[3] <= 3)
    <3>1. PICK v \in Units, k \in 1 .. 4, i \in 1 .. UnitCap + 3 :
            v = x[1] /\ k = x[2] /\ i = x[3]
      BY PlaceParts
    <3>2. (x \in S <=> Flying(v, k, i)) /\ (x \in S1 <=> Flying(v, k, i)')
      BY <1>1, <3>1
    <3>3. i > 0
      BY <1>0
    <3>4. Flying(v, k, i)' <=> Flying(v, k, i) \/ (v = u /\ k = 4 /\ i <= 3)
      BY <2>1, <2>2, <3>3 DEF Flying
    <3> QED
      BY <3>1, <3>2, <3>4
  <2>5. Cardinality(S1) = Cardinality(S) + 3
    <3>1. 4 \in 1 .. 4
      OBVIOUS
    <3> QED
      BY <2>3, <2>4, <3>1, AddThree
  <2>6. n1 = n + 3
    BY <1>2, <2>5
  <2> QED
    BY <1>0, <1>3, <2>1, <2>6
<1>7. ASSUME NEW u \in Units, Handle(u) PROVE Balanced
  <2>1. /\ Len(words[u]) = 3 /\ goDown[u] = 0 /\ thread[u] = "read"
        /\ thread' = [thread EXCEPT ![u] = "sent"]
        /\ words' = [words EXCEPT ![u] = <<>>]
        /\ UNCHANGED <<unitPipe, goDown, emu, emuUnit, written, active, resets>>
    BY <1>7 DEF Handle
  <2>2. /\ thread'[u] = "sent" /\ Len(words'[u]) = 0
        /\ \A v \in Units : v # u => words'[v] = words[v] /\ thread'[v] = thread[v]
    <3>1. words'[u] = <<>> /\ Len(<<>>) = 0
      BY <1>0, <2>1 DEF SeqTypes
    <3>2. Len(words'[u]) = 0
      BY <3>1
    <3> QED
      BY <1>0, <2>1, <3>2 DEF SeqTypes, ThreadTypes
  <2> DEFINE T == {x \in S : ~(x[1] = u /\ x[2] = 1 /\ x[3] <= 3)}
  <2>3. T \in SUBSET Places /\ \A i \in 1 .. 3 : <<u, 1, i>> \notin T
    OBVIOUS
  <2>4. \A i \in 1 .. 3 : <<u, 3, i>> \notin T
    <3> SUFFICES ASSUME NEW x \in S, x[1] = u, x[2] = 3 PROVE FALSE
      OBVIOUS
    <3>1. Flying(x[1], x[2], x[3]) /\ x \in Places
      BY <1>1
    <3> QED
      BY <2>1, <3>1 DEF Flying
  <2>5. ASSUME NEW x \in Places
        PROVE  /\ x \in S <=> x \in T \/ (x[1] = u /\ x[2] = 1 /\ x[3] <= 3)
               /\ x \in S1 <=> x \in T \/ (x[1] = u /\ x[2] = 3 /\ x[3] <= 3)
    <3>1. PICK v \in Units, k \in 1 .. 4, i \in 1 .. UnitCap + 3 :
            v = x[1] /\ k = x[2] /\ i = x[3]
      BY PlaceParts
    <3>2. (x \in S <=> Flying(v, k, i)) /\ (x \in S1 <=> Flying(v, k, i)')
          /\ (x \in T <=> x \in S /\ ~(v = u /\ k = 1 /\ i <= 3))
      BY <1>1, <3>1
    <3> HIDE DEF T
    <3>3. v = u /\ k = 1 => (Flying(v, k, i) <=> i <= 3)
                            /\ (Flying(v, k, i)' <=> i <= 0)
      <4>1. ASSUME v = u, k = 1 PROVE Flying(v, k, i) <=> i <= 3
        <5>1. Len(words[v]) = 3 /\ goDown[v] = 0
          BY <2>1, <4>1
        <5>2. Flying(v, k, i) <=> i <= Len(words[v])
          BY <4>1, <5>1 DEF Flying
        <5> QED
          BY <5>1, <5>2
      <4>2. v = u /\ k = 1 => (Flying(v, k, i)' <=> i <= 0)
        <5>1. v = u => Len(words'[v]) = 0 /\ goDown'[v] = 0
          BY <2>1, <2>2
        <5> QED
          BY <5>1 DEF Flying
      <4> QED
        BY <4>1, <4>2
    <3>4. v = u /\ k = 3 => ~Flying(v, k, i) /\ (Flying(v, k, i)' <=> i <= 3)
      BY <2>1, <2>2 DEF Flying
    <3>5. v # u \/ k = 2 \/ k = 4 => (Flying(v, k, i)' <=> Flying(v, k, i))
      BY <2>1, <2>2 DEF Flying
    <3>6. ~(i <= 0)
      BY <1>0
    <3>7. CASE v = u /\ k = 1
      BY <3>1, <3>2, <3>3, <3>6, <3>7
    <3>8. CASE v = u /\ k = 3
      BY <3>1, <3>2, <3>4, <3>8
    <3>9. CASE v # u \/ k = 2 \/ k = 4
      BY <3>1, <3>2, <3>5, <3>9
    <3> QED
      BY <3>7, <3>8, <3>9
  <2> HIDE DEF T
  <2>6. 1 \in 1 .. 4 /\ 3 \in 1 .. 4
    OBVIOUS
  <2>7. Cardinality(S) = Cardinality(T) + 3
    BY <2>3, <2>5, <2>6, AddThree
  <2>8. Cardinality(S1) = Cardinality(T) + 3
    BY <2>3, <2>4, <2>5, <2>6, AddThree
  <2> QED
    BY <1>2, <1>f, <2>1, <2>7, <2>8
<1>8. ASSUME NEW u \in Units, Uncount(u) PROVE Balanced
  <2>1. /\ thread[u] = "count" /\ thread' = [thread EXCEPT ![u] = "back"]
        /\ active' = active - 1
        /\ UNCHANGED <<words, unitPipe, goDown, emu, emuUnit, written, resets>>
    BY <1>8 DEF Uncount
  <2>2. /\ thread'[u] = "back"
        /\ \A v \in Units : v # u => thread'[v] = thread[v]
    BY <1>0, <2>1 DEF ThreadTypes
  <2>3. \A i \in 1 .. 3 : <<u, 3, i>> \notin S1
    <3> SUFFICES ASSUME NEW x \in S1, x[1] = u, x[2] = 3 PROVE FALSE
      OBVIOUS
    <3>1. Flying(x[1], x[2], x[3])' /\ x \in Places
      BY <1>1
    <3> QED
      BY <2>2, <3>1 DEF Flying
  <2>4. ASSUME NEW x \in Places
        PROVE  x \in S <=> x \in S1 \/ (x[1] = u /\ x[2] = 3 /\ x[3] <= 3)
    <3>1. PICK v \in Units, k \in 1 .. 4, i \in 1 .. UnitCap + 3 :
            v = x[1] /\ k = x[2] /\ i = x[3]
      BY PlaceParts
    <3>2. (x \in S <=> Flying(v, k, i)) /\ (x \in S1 <=> Flying(v, k, i)')
      BY <1>1, <3>1
    <3>3. v = u /\ k = 3 => ~Flying(v, k, i)' /\ (Flying(v, k, i) <=> i <= 3)
      BY <2>1, <2>2 DEF Flying
    <3>4. v # u \/ k # 3 => (Flying(v, k, i)' <=> Flying(v, k, i))
      BY <2>1, <2>2 DEF Flying
    <3> QED
      BY <3>1, <3>2, <3>3, <3>4
  <2>5. Cardinality(S) = Cardinality(S1) + 3
    <3>1. 3 \in 1 .. 4
      OBVIOUS
    <3> QED
      BY <2>3, <2>4, <3>1, AddThree
  <2>6. n = n1 + 3
    BY <1>2, <2>5
  <2> QED
    BY <1>0, <1>3, <2>1, <2>6
<1>9. ASSUME NEW u \in Units, CountSent(u) \/ RaiseInt(u) \/ SendLocks(u) PROVE Balanced
  <2>1. /\ UNCHANGED <<words, unitPipe, goDown, emu, emuUnit, written, active,
                       resets>>
        /\ \A v \in Units : thread'[v] \in {"sent", "int", "count"}
                              <=> thread[v] \in {"sent", "int", "count"}
    BY <1>0, <1>9 DEF CountSent, RaiseInt, SendLocks, ThreadTypes
  <2>2. \A x \in Places : Flying(x[1], x[2], x[3])' <=> Flying(x[1], x[2], x[3])
    <3> SUFFICES ASSUME NEW x \in Places
                 PROVE  Flying(x[1], x[2], x[3])' <=> Flying(x[1], x[2], x[3])
      OBVIOUS
    <3>1. x[1] \in Units
      BY PlaceParts
    <3> QED
      BY <2>1, <3>1 DEF Flying
  <2> QED
    BY <1>f, <1>s, <2>1, <2>2
<1>10. ASSUME NEW u \in Units, Drop(u) PROVE Balanced
  <2>1. /\ UNCHANGED <<unitPipe, goDown, emu, emuUnit, written, active, resets>>
        /\ thread[u] = "read" /\ goDown[u] = 1
        /\ thread' = thread \/ thread' = [thread EXCEPT ![u] = "gone"]
        /\ words' = [words EXCEPT ![u] = <<>>]
    BY <1>10 DEF Drop
  <2>2. /\ \A v \in Units : thread'[v] \in {"sent", "int", "count"}
                              <=> thread[v] \in {"sent", "int", "count"}
        /\ \A v \in Units : v # u => words'[v] = words[v]
    BY <1>0, <2>1 DEF SeqTypes, ThreadTypes
  <2>3. \A x \in Places : Flying(x[1], x[2], x[3])' <=> Flying(x[1], x[2], x[3])
    <3> SUFFICES ASSUME NEW x \in Places
                 PROVE  Flying(x[1], x[2], x[3])' <=> Flying(x[1], x[2], x[3])
      OBVIOUS
    <3>1. x[1] \in Units
      BY PlaceParts
    <3> QED
      BY <2>1, <2>2, <3>1 DEF Flying
  <2> QED
    BY <1>f, <1>s, <2>1, <2>3
<1>11. ASSUME SendDeath PROVE Balanced
  <2>1. /\ UNCHANGED <<words, thread, goDown, emu, emuUnit, active, resets>>
        /\ emu = "reset" /\ emuUnit \in Units /\ goDown[emuUnit] = 1
        /\ unitPipe' = [unitPipe EXCEPT
                          ![emuUnit] = Append(unitPipe[emuUnit], Death)]
    <3>1. emuUnit \in Units /\ emuUnit <= emuUnit /\ emu = "reset"
      BY <1>0, <1>11 DEF SendDeath, ResetOrder, Units
    <3>2. goDown[emuUnit] = 1
      BY <1>0, <3>1 DEF ResetOrder
    <3> QED
      BY <1>11, <3>1, <3>2 DEF SendDeath
  <2>2. \A v \in Units : v # emuUnit => unitPipe'[v] = unitPipe[v]
    BY <1>0, <2>1 DEF SeqTypes
  <2>3. \A x \in Places : Flying(x[1], x[2], x[3])' <=> Flying(x[1], x[2], x[3])
    <3> SUFFICES ASSUME NEW x \in Places
                 PROVE  Flying(x[1], x[2], x[3])' <=> Flying(x[1], x[2], x[3])
      OBVIOUS
    <3>1. x[1] \in Units
      BY PlaceParts
    <3> QED
      BY <2>1, <2>2, <3>1 DEF Flying
  <2> QED
    BY <1>f, <1>s, <2>1, <2>3
<1>12. ASSUME Reset \/ NextDown PROVE Balanced
  <2>1. /\ UNCHANGED <<words, unitPipe, thread, active>>
        /\ emu # "write" /\ emu' = "reset"
        /\ \A v \in Units : goDown'[v] = 0 => goDown[v] = 0
    BY <1>0, <1>12 DEF Reset, NextDown, ThreadTypes
  <2>2. ASSUME NEW x \in S1 PROVE x \in S
    <3>1. Flying(x[1], x[2], x[3])' /\ x \in Places /\ x[1] \in Units
      BY <1>1, PlaceParts
    <3>2. Flying(x[1], x[2], x[3])
      BY <2>1, <3>1 DEF Flying
    <3> QED
      BY <1>1, <3>1, <3>2
  <2>3. Cardinality(S1) <= Cardinality(S)
    <3>1. S1 \in SUBSET S
      BY <2>2
    <3>2. IsFiniteSet(S)
      BY PlacesFinite
    <3> QED
      BY <3>1, <3>2, FS_Subset
  <2>4. n1 <= n
    BY <1>2, <2>3
  <2> QED
    BY <1>0, <1>3, <2>1, <2>4
<1>13. ASSUME Reboot PROVE Balanced
  <2>1. /\ \A v \in Units : /\ words'[v] = <<>> /\ unitPipe'[v] = <<>>
                            /\ thread'[v] = "read"
        /\ emu' = "run" /\ active' = active /\ resets' = resets + 1
    BY <1>13 DEF Reboot
  <2>2. ASSUME NEW x \in S1 PROVE FALSE
    <3>1. Flying(x[1], x[2], x[3])' /\ x \in Places
      BY <1>1
    <3>2. x[1] \in Units /\ x[3] \in 1 .. UnitCap + 3
      BY <3>1, PlaceParts
    <3>3. Len(<<>>) = 0 /\ ~(x[3] <= 0)
      BY <1>0, <3>2
    <3>4. Len(words'[x[1]]) = 0 /\ Len(unitPipe'[x[1]]) = 0
      BY <2>1, <3>2, <3>3
    <3> QED
      BY <2>1, <3>1, <3>2, <3>3, <3>4 DEF Flying
  <2>3. n1 = 0
    <3>1. S1 = {}
      BY <2>2
    <3> QED
      BY <1>2, <3>1, FS_EmptySet
  <2> QED
    BY <1>0, <2>1, <2>3
<1>14. ASSUME \/ \E v \in Units :
                   \/ GetMsg(v) \/ Release(v) \/ ScanReply(v) \/ ScanNext(v)
                   \/ ScanEnd(v) \/ TooMany(v) \/ Refuse(v) \/ DoCommand(v)
                   \/ Enqueue(v) \/ PutDummy(v)
              \/ \E p \in Packets : Send(p)
              \/ Hsync \/ EnterServer \/ NoneNeeds \/ LeaveServer
              \/ UNCHANGED vars
       PROVE  Balanced
  <2>1. UNCHANGED <<words, unitPipe, thread, goDown, active, resets>>
    BY <1>14 DEF GetMsg, Release, ScanReply, ScanNext, ScanEnd, TooMany, Refuse,
       DoCommand, Enqueue, PutDummy, Send, Hsync, EnterServer, NoneNeeds,
       LeaveServer, vars
  <2>2. \/ UNCHANGED <<emu, emuUnit, written>>
        \/ emu # "write" /\ emu # "reset" /\ emu' # "write"
    <3>1. ASSUME NEW v \in Units, DoCommand(v)
          PROVE  emu # "write" /\ emu # "reset" /\ emu' # "write"
      BY <3>1 DEF DoCommand, Runs68k
    <3>2. ASSUME \/ \E v \in Units :
                      \/ GetMsg(v) \/ Release(v) \/ ScanReply(v) \/ ScanNext(v)
                      \/ ScanEnd(v) \/ TooMany(v) \/ Refuse(v)
                      \/ Enqueue(v) \/ PutDummy(v)
                 \/ \E p \in Packets : Send(p)
                 \/ Hsync \/ EnterServer \/ NoneNeeds \/ LeaveServer
                 \/ UNCHANGED vars
          PROVE  UNCHANGED <<emu, emuUnit, written>>
      BY <3>2 DEF GetMsg, Release, ScanReply, ScanNext, ScanEnd, TooMany, Refuse,
         Enqueue, PutDummy, Send, Hsync, EnterServer, NoneNeeds, LeaveServer, vars
    <3> QED
      BY <1>14, <3>1, <3>2
  <2>3. \A x \in Places : Flying(x[1], x[2], x[3])' <=> Flying(x[1], x[2], x[3])
    BY <2>1, <2>2 DEF Flying
  <2> QED
    BY <1>f, <1>s, <2>1, <2>2, <2>3
<1> HIDE DEF Balanced
<1> QED
  BY <1>4, <1>5, <1>6, <1>7, <1>8, <1>9, <1>10, <1>11, <1>12, <1>13, <1>14
     DEF Next, TaskStep, ThreadStep, HandlerStep, ServerStep, ResetStep

-----------------------------------------------------------------------------
(* The theorems.                                                           *)

\* Every unit starts with nothing to do.
LEMMA InitInv == Init => IInv
<1> SUFFICES ASSUME Init PROVE IInv
  OBVIOUS
<1>1. /\ \A u \in Units : /\ port[u] = <<>> /\ queue[u] = <<>> /\ words[u] = <<>>
                          /\ unitPipe[u] = <<>> /\ task[u] = "wait"
                          /\ thread[u] = "read" /\ d5[u] = 0 /\ goDown[u] = 0
                          /\ syncSem[u] = 0 /\ backPipe[u] = 0
                          /\ acked[u] = 0 /\ complete[u] = 0 /\ sent[u] = 0
      /\ \A p \in Packets : status[p] = 0
      /\ unsent = Packets /\ replied = {} /\ emu = "run" /\ emuUnit = 0
      /\ server = "idle" /\ active = 0 /\ resets = 0
  BY DEF Init
<1>2. /\ Len(<<>>) = 0 /\ 1 .. 0 = {} /\ <<>> \o <<>> = <<>>
      /\ \A T : <<>> \in Seq(T)
  OBVIOUS
<1>3. /\ Cardinality({}) = 0
      /\ \A x : Times(x, <<>>) = 0
      /\ \A T : Count(T, <<>>) = 0
  <2>1. Cardinality({}) = 0
    BY FS_EmptySet
  <2>2. ASSUME NEW x PROVE Times(x, <<>>) = 0
    <3>1. {i \in 1 .. Len(<<>>) : <<>>[i] = x} = {}
      BY <1>2
    <3> QED
      BY <2>1, <3>1, Zenon DEF Times
  <2>3. ASSUME NEW T PROVE Count(T, <<>>) = 0
    <3>1. {i \in 1 .. Len(<<>>) : <<>>[i] \in T} = {}
      BY <1>2
    <3> QED
      BY <2>1, <3>1, Zenon DEF Count
  <2> QED
    BY <2>1, <2>2, <2>3
<1>4. TypeOK /\ Contents
  <2>1. TaskTypes
    BY FilesysAssumption DEF Init, TaskTypes, Holds
  <2>2. EmuTypes
    BY FilesysAssumption DEF Init, EmuTypes
  <2>3. CountTypes
    BY DEF Init, CountTypes
  <2>4. ThreadTypes
    BY FilesysAssumption DEF Init, ThreadTypes
  <2>5. SeqTypes
    BY <1>2 DEF Init, SeqTypes
  <2> QED
    BY <2>1, <2>2, <2>3, <2>4, <2>5, AllTypes
<1>5. TrapPlace /\ ResetOrder /\ AnsweredWhenDone
  BY <1>1 DEF TrapPlace, ResetOrder, AnsweredWhenDone
<1>6. ASSUME NEW u \in Units
      PROVE  /\ Pipe(u) = <<>> /\ Len(Pipe(u)) = 0 /\ Partial(u) = 0
             /\ ~PastHandle(u)
  <2>1. Pipe(u) = <<>>
    BY <1>1, <1>2, Zenon DEF Pipe
  <2> QED
    BY <1>1, <1>2, <2>1 DEF Partial, PastHandle
<1>7. PipeWords
  <2> SUFFICES ASSUME NEW u \in Units
               PROVE  /\ Len(words[u]) <= 3 /\ Len(unitPipe[u]) <= UnitCap
                      /\ PastHandle(u) => words[u] = <<>>
                      /\ goDown[u] = 0 => PipeContents(u)
    BY DEF PipeWords, PipeContents
  <2>1. Len(words[u]) = 0 /\ Len(unitPipe[u]) = 0
    BY <1>1, <1>2
  <2>2. PipeContents(u)
    <3>1. 0 \in 0 .. UnitCap + 3 /\ 0 = 3 * 0 + 0
      BY FilesysAssumption
    <3> QED
      BY <1>2, <1>6, <3>1 DEF PipeContents
  <2> QED
    BY <1>1, <2>1, <2>2, FilesysAssumption
<1>8. PacketInOnePlace
  <2> SUFFICES ASSUME NEW p \in Packets
               PROVE  (IF p \in unsent THEN 1 ELSE 0) + Times(p, port[UnitOf[p]])
                        + (IF Holds(UnitOf[p]) /\ msg[UnitOf[p]] = p THEN 1 ELSE 0)
                        + Times(p, queue[UnitOf[p]])
                        + (IF p \in replied THEN 1 ELSE 0) = 1
    BY DEF PacketInOnePlace
  <2>1. UnitOf[p] \in Units
    BY FilesysAssumption
  <2>2. Times(p, port[UnitOf[p]]) = 0 /\ Times(p, queue[UnitOf[p]]) = 0
    BY <1>1, <1>3, <2>1
  <2>3. p \in unsent /\ ~Holds(UnitOf[p]) /\ p \notin replied
    BY <1>1, <2>1 DEF Holds
  <2> QED
    BY <2>2, <2>3
<1>9. OneDummy
  <2>1. \A u \in Units : Times(Dummy, port[u]) = 0
    BY <1>1, <1>3
  <2> QED
    BY <1>1, <2>1 DEF OneDummy
<1>10. ASSUME NEW u \in Units
       PROVE  InList({-1, 0}, u) = 0 /\ InList({0}, u) = 0
  <2>1. Count(Tagged({-1, 0}), queue[u]) = 0 /\ Count(Tagged({0}), queue[u]) = 0
    BY <1>1, <1>3
  <2> QED
    BY <1>1, <2>1 DEF InList
<1>11. D5Counts /\ \A u \in Units : Undone(u) = 0
  BY <1>1, <1>4, <1>10, InListIs
<1>12. LocksBound
  <2>1. Limit + Spare \in Nat
    BY FilesysAssumption DEF Spare
  <2> QED
    BY <1>1, <1>6, <1>11, <2>1 DEF LocksBound
<1>13. Signalled
  <2>1. \A u \in Units : ~Unseen(u)
    BY <1>1, <1>2 DEF Unseen
  <2> QED
    BY <2>1 DEF Signalled
<1>14. Balance
  <2>1. ASSUME NEW x \in InFlight PROVE FALSE
    <3>1. Flying(x[1], x[2], x[3]) /\ x \in Places
      BY DEF InFlight, Flying
    <3>2. x[1] \in Units /\ x[3] \in Nat /\ x[3] >= 1
      BY <3>1, PlaceParts, FilesysAssumption
    <3>3. Len(words[x[1]]) = 0 /\ Len(unitPipe[x[1]]) = 0
      BY <1>1, <1>2, <3>2
    <3> QED
      BY <1>1, <3>1, <3>2, <3>3 DEF Flying
  <2>2. InFlight = {}
    BY <2>1
  <2>3. Cardinality(InFlight) = 0
    BY <1>3, <2>2, Zenon
  <2> QED
    BY <1>1, <2>3 DEF Balance
<1> QED
  BY <1>4, <1>5, <1>7, <1>8, <1>9, <1>11, <1>12, <1>13, <1>14 DEF IInv

\* The inductive invariant holds throughout.
THEOREM Invariance == Spec => []IInv
<1>1. IInv /\ [Next]_vars => IInv'
  <2> SUFFICES ASSUME IInv, [Next]_vars PROVE IInv'
    OBVIOUS
  <2>1. TypeOK' /\ Contents' /\ TrapPlace' /\ ResetOrder' /\ PipeWords'
    BY TypesInv, TrapPlaceInv, ResetOrderInv, PipeWordsInv
  <2>2. PacketInOnePlace' /\ OneDummy' /\ AnsweredWhenDone' /\ D5Counts'
    BY PlaceInv, AnsweredInv, D5Inv
  <2>3. LocksBound' /\ Signalled' /\ Balance'
    BY LocksBoundInv, SignalledInv, BalanceInv
  <2> QED
    BY <2>1, <2>2, <2>3 DEF IInv
<1> QED
  BY InitInv, <1>1, PTL DEF Spec

\* The pipe of locks never holds more than twice the limit (one more if a
\* unit_pipe has room for as many commands), so the thread does not wait there.
LEMMA LocksHaveRoom == IInv => BackPipeRoom
<1> SUFFICES ASSUME IInv, NEW u \in Units
             PROVE  backPipe[u] <= 2 * Limit + Spare
  BY DEF BackPipeRoom
<1>1. /\ 3 * Back(u) + Load(u) <= 3 * Room(u) /\ Spare \in {0, 1}
      /\ Back(u) \in Nat /\ Room(u) \in Nat
      /\ \E k \in Nat : Load(u) = 3 * k
  BY SidesAre
<1>2. Back(u) <= Room(u)
  BY <1>1
<1>3. backPipe[u] \in 0 .. BackCap /\ d5[u] \in 0 .. Limit
  BY DEF IInv, TypeOK
<1>4. Room(u) <= 2 * Limit + Spare
  BY <1>1, <1>3, FilesysAssumption DEF Room
<1>5. backPipe[u] <= Back(u)
  BY <1>3, FilesysAssumption DEF Back
<1> QED
  BY <1>1, <1>2, <1>3, <1>4, <1>5, FilesysAssumption

\* With nothing on the way to a thread or with one, nothing is counted.
LEMMA NothingCounted == IInv => ActiveCounts
<1> SUFFICES ASSUME IInv, emu = "run", resets = 0,
                    \A u \in Units : /\ thread[u] \in {"read", "back"}
                                     /\ words[u] = <<>> /\ unitPipe[u] = <<>>
             PROVE  active = 0
  BY DEF ActiveCounts
<1>1. ASSUME NEW x \in InFlight PROVE FALSE
  <2>1. Flying(x[1], x[2], x[3]) /\ x \in Places
    BY DEF InFlight, Flying
  <2>2. x[1] \in Units /\ x[3] \in Nat /\ x[3] >= 1
    BY <2>1, PlaceParts, FilesysAssumption
  <2>3. Len(<<>>) = 0
    OBVIOUS
  <2>4. Len(words[x[1]]) = 0 /\ Len(unitPipe[x[1]]) = 0
    BY <2>2, <2>3
  <2> QED
    BY <2>1, <2>2, <2>4 DEF Flying
<1>2. InFlight = {}
  BY <1>1
<1>3. Cardinality({}) = 0
  BY FS_EmptySet
<1>4. Cardinality(InFlight) = 0
  BY <1>2, <1>3, Zenon
<1> QED
  BY <1>4 DEF IInv, TypeOK, Balance

\* The counts that task, server and thread keep without a lock agree with what
\* they count, and the pipes have room.
THEOREM CountsAgree == Spec => []Inv
<1>1. IInv => Inv
  BY LocksHaveRoom, NothingCounted DEF IInv, Inv
<1> QED
  BY Invariance, <1>1, PTL

\* The dummy message is in one place, and never put into a port twice.
THEOREM OnlyOneDummy == Spec => []OneDummy
<1>1. IInv => OneDummy
  BY DEF IInv
<1> QED
  BY Invariance, <1>1, PTL

\* No packet is lost or answered twice.
THEOREM EveryPacketInOnePlace == Spec => []PacketInOnePlace
<1>1. IInv => PacketInOnePlace
  BY DEF IInv
<1> QED
  BY Invariance, <1>1, PTL

\* A completed command that is still to be answered has something to come that
\* makes its task look at the list.
THEOREM InterruptsSuffice == Spec => []NeverNotEnough
<1>1. IInv => NeverNotEnough
  <2> SUFFICES ASSUME IInv, NEW u \in Units, NEW i \in 1 .. Len(queue[u]),
                      status[queue[u][i]] = -1,
                      ~(task[u] = "scan" /\ scan[u] <= i)
               PROVE  \/ thread[u] \in {"sent", "int"}
                      \/ intRequested = 1
                      \/ server = "loop" /\ unitNo <= u /\ acked[u] # sent[u]
                      \/ acked[u] # complete[u]
    BY DEF NeverNotEnough
  <2>1. Unseen(u)
    BY DEF Unseen
  <2>2. /\ thread[u] = "sent" \/ acked[u] # sent[u] \/ acked[u] # complete[u]
        /\ \/ thread[u] \in {"sent", "int"} \/ intRequested = 1
           \/ server = "loop" /\ unitNo <= u
           \/ acked[u] # complete[u]
    BY <2>1 DEF IInv, Signalled
  <2> QED
    BY <2>2
<1> QED
  BY Invariance, <1>1, PTL

\* A machine that boots again has no thread of the last session.
THEOREM NoThreadSurvives == Spec => ThreadsGoneAtReboot
<1>1. ASSUME IInv, [Next]_vars
      PROVE  resets' # resets => \A u \in Units : thread[u] = "gone"
  <2>1. CASE Reboot
    <3>1. /\ emu = "reset" /\ emuUnit = NUnits /\ syncSem[emuUnit] > 0
          /\ NUnits \in Nat /\ emuUnit \in Units
      BY <2>1, FilesysAssumption DEF Reboot, Units
    <3>2. \A u \in Units : u < emuUnit => thread[u] = "gone"
      BY <1>1, <3>1 DEF IInv, ResetOrder
    <3>3. thread[emuUnit] = "gone"
      BY <1>1, <3>1 DEF IInv, ResetOrder
    <3>4. \A u \in Units : u < emuUnit \/ u = emuUnit
      BY <3>1 DEF Units
    <3> QED
      BY <3>2, <3>3, <3>4
  <2>2. CASE ~Reboot
    <3>1. resets' = resets
      BY <1>1, <2>2 DEF Next, TaskStep, ThreadStep, HandlerStep, ServerStep,
         ResetStep, Send, GetMsg, Release, ScanReply, ScanNext, ScanEnd,
         TooMany, Refuse, DoCommand, CountPacket, WritePacket, Enqueue,
         ReadWord, Drop, Handle, CountSent, RaiseInt, Uncount, SendLocks,
         Hsync, EnterServer, PutDummy, NoneNeeds, LeaveServer, Reset,
         SendDeath, NextDown, vars
    <3> QED
      BY <3>1
  <2> QED
    BY <2>1, <2>2
<1>2. IInv /\ [Next]_vars =>
        [resets' # resets => \A u \in Units : thread[u] = "gone"]_vars
  BY <1>1
<1> QED
  BY Invariance, <1>2, PTL DEF Spec, ThreadsGoneAtReboot

=============================================================================
