----------------------- MODULE FilesysObjects_proofs ------------------------
(***************************************************************************)
(* Theorems about the a_inodes of FilesysObjects, for every set of names,  *)
(* every limit of the cache and every number of scans: the tree and its    *)
(* counts are right, what programs use stays in memory, scans are complete *)
(* and the reaper ends.                                                    *)
(*                                                                         *)
(* The inductive invariant IInv is Good, of the Unit alone, and Uses, of   *)
(* the locks and files. Each operation of the code has a lemma that says   *)
(* what it does to a Good unit; each packet has one that puts together     *)
(* those of the operations it calls.                                       *)
(***************************************************************************)
EXTENDS FilesysObjects, SequenceTheorems, FiniteSetTheorems, TLAPS

\* Where an a_inode is: the names on the way from the root.
Path == Seq(Names)

-----------------------------------------------------------------------------
(* Sequences and finite sets.                                              *)

\* A set of naturals has a least element.
LEMMA WellOrdered ==
  ASSUME NEW S, S \subseteq Nat, S # {}
  PROVE  \E m \in S : \A x \in S : m <= x
<1> DEFINE T == {0 .. k : k \in S}
<1>1. T \subseteq FiniteSubsetsOf(Nat)
  <2> SUFFICES ASSUME NEW k \in S PROVE 0 .. k \in FiniteSubsetsOf(Nat)
    OBVIOUS
  <2>1. IsFiniteSet(0 .. k)
    BY FS_Interval
  <2> QED
    BY <2>1 DEF FiniteSubsetsOf
<1>2. T # {}
  OBVIOUS
<1>3. PICK U \in T : \A V \in T : <<V, U>> \notin StrictSubsetOrdering(Nat)
  BY <1>1, <1>2, FS_StrictSubsetOrderingWellFounded, WFMin
<1>4. PICK m \in S : U = 0 .. m
  OBVIOUS
<1>5. ASSUME NEW x \in S, x < m PROVE FALSE
  <2>1. 0 .. x \in T /\ 0 .. x \subseteq 0 .. m /\ 0 .. x # 0 .. m
    BY <1>5
  <2>2. <<0 .. x, 0 .. m>> \in (SUBSET Nat) \X (SUBSET Nat)
    OBVIOUS
  <2>3. <<0 .. x, 0 .. m>> \in StrictSubsetOrdering(Nat)
    BY <2>1, <2>2 DEF StrictSubsetOrdering
  <2> QED
    BY <1>3, <1>4, <2>1, <2>3
<1> QED
  BY <1>5

\* A list without one of its members, wherever that is.
LEMMA RemoveAtIs ==
  ASSUME NEW S, NEW s \in Seq(S), NEW k \in 1..Len(s)
  PROVE  /\ RemoveAt(s, k) \in Seq(S)
         /\ Len(RemoveAt(s, k)) = Len(s) - 1
         /\ \A j \in 1..(Len(s) - 1) :
               RemoveAt(s, k)[j] = IF j < k THEN s[j] ELSE s[j + 1]
<1> DEFINE x == SubSeq(s, 1, k - 1)
           y == SubSeq(s, k + 1, Len(s))
<1>0. Len(s) \in Nat /\ k \in Nat /\ \A j \in 1..Len(s) : s[j] \in S
  OBVIOUS
<1>1. x \in Seq(S) /\ Len(x) = k - 1 /\ \A j \in 1..(k - 1) : x[j] = s[j]
  <2>1. \A j \in 1..(k - 1) : s[j] \in S
    BY <1>0
  <2> QED
    BY <1>0, <2>1, SubSeqProperties
<1>2. y \in Seq(S) /\ Len(y) = Len(s) - k /\ \A j \in 1..(Len(s) - k) : y[j] = s[k + j]
  <2>1. \A j \in (k + 1)..Len(s) : s[j] \in S
    BY <1>0
  <2> QED
    BY <1>0, <2>1, SubSeqProperties
<1> HIDE DEF x, y
<1>3. /\ x \o y \in Seq(S) /\ Len(x \o y) = Len(x) + Len(y)
      /\ \A j \in 1..(Len(x) + Len(y)) :
            (x \o y)[j] = IF j <= Len(x) THEN x[j] ELSE y[j - Len(x)]
  BY <1>1, <1>2, ConcatProperties
<1>4. RemoveAt(s, k) = x \o y
  BY DEF RemoveAt, x, y
<1>5. ASSUME NEW j \in 1..(Len(s) - 1)
      PROVE  (x \o y)[j] = IF j < k THEN s[j] ELSE s[j + 1]
  <2>1. CASE j < k
    BY <1>0, <1>1, <1>2, <1>3, <2>1
  <2>2. CASE ~(j < k)
    <3>1. j - (k - 1) \in 1..(Len(s) - k) /\ k + (j - (k - 1)) = j + 1
      BY <1>0, <2>2
    <3>2. (x \o y)[j] = y[j - (k - 1)]
      BY <1>0, <1>1, <1>2, <1>3, <2>2
    <3> QED
      BY <1>2, <2>2, <3>1, <3>2
  <2> QED
    BY <2>1, <2>2
<1> QED
  BY <1>0, <1>1, <1>2, <1>3, <1>4, <1>5

\* A member of a list of different objects is in one place.
LEMMA PlaceIs ==
  ASSUME NEW S, NEW s \in Seq(S), IsInjective(s), NEW k \in 1..Len(s)
  PROVE  Place(s, s[k]) = k
BY DEF Place, IsInjective

\* A list without one of its members.
LEMMA UnlinkedIs ==
  ASSUME NEW S, NEW s \in Seq(S), IsInjective(s), NEW a \in ToSet(s)
  PROVE  /\ Unlinked(s, a) \in Seq(S)
         /\ IsInjective(Unlinked(s, a))
         /\ ToSet(Unlinked(s, a)) = ToSet(s) \ {a}
         /\ Len(Unlinked(s, a)) = Len(s) - 1
<1>1. PICK k \in 1..Len(s) : a = s[k]
  BY DEF ToSet
<1>2. PICK t : t = Unlinked(s, a)
  OBVIOUS
<1>3. /\ t \in Seq(S) /\ Len(t) = Len(s) - 1
      /\ \A j \in 1..(Len(s) - 1) : t[j] = IF j < k THEN s[j] ELSE s[j + 1]
  <2>1. t = RemoveAt(s, k)
    BY <1>1, <1>2, PlaceIs DEF Unlinked
  <2> QED
    BY <2>1, RemoveAtIs
<1>4. Len(s) \in Nat /\ DOMAIN s = 1..Len(s) /\ DOMAIN t = 1..(Len(s) - 1)
  BY <1>3
<1>5. IsInjective(t)
  BY <1>3, <1>4 DEF IsInjective
<1>6. ToSet(t) \subseteq ToSet(s) \ {a}
  BY <1>1, <1>3, <1>4 DEF ToSet, IsInjective
<1>7. ASSUME NEW b \in ToSet(s) \ {a} PROVE b \in ToSet(t)
  <2>1. PICK j \in 1..Len(s) : b = s[j]
    BY DEF ToSet
  <2>2. CASE j < k
    BY <1>3, <1>4, <2>1, <2>2 DEF ToSet
  <2>3. CASE j > k
    <3>1. j - 1 \in 1..(Len(s) - 1) /\ ~(j - 1 < k) /\ (j - 1) + 1 = j
      BY <1>4, <2>3
    <3> QED
      BY <1>3, <1>4, <2>1, <3>1 DEF ToSet
  <2> QED
    BY <1>1, <1>7, <2>1, <2>2, <2>3
<1> QED
  BY <1>2, <1>3, <1>5, <1>6, <1>7

\* A list with one more in front.
LEMMA ConsIs ==
  ASSUME NEW S, NEW s \in Seq(S), NEW a \in S
  PROVE  /\ <<a>> \o s \in Seq(S)
         /\ Len(<<a>> \o s) = Len(s) + 1
         /\ (<<a>> \o s)[1] = a
         /\ \A j \in 1..Len(s) : (<<a>> \o s)[j + 1] = s[j]
         /\ ToSet(<<a>> \o s) = ToSet(s) \cup {a}
         /\ (IsInjective(s) /\ a \notin ToSet(s)) => IsInjective(<<a>> \o s)
<1>1. PICK x : x = <<a>>
  OBVIOUS
<1>2. x \in Seq(S) /\ Len(x) = 1 /\ x[1] = a
  BY <1>1
<1>3. PICK t : t = x \o s
  OBVIOUS
<1>4. /\ t \in Seq(S) /\ Len(t) = 1 + Len(s)
      /\ \A i \in 1..(1 + Len(s)) : t[i] = IF i <= 1 THEN x[i] ELSE s[i - 1]
  BY <1>2, <1>3, ConcatProperties
<1>5. Len(s) \in Nat /\ DOMAIN s = 1..Len(s) /\ DOMAIN t = 1..(1 + Len(s))
  BY <1>4
<1>6. t[1] = a /\ \A j \in 1..Len(s) : t[j + 1] = s[j]
  BY <1>2, <1>4, <1>5
<1>7. ToSet(t) = ToSet(s) \cup {a}
  <2>1. ToSet(t) \subseteq ToSet(s) \cup {a}
    <3>1. ASSUME NEW i \in DOMAIN t PROVE t[i] \in ToSet(s) \cup {a}
      <4>1. CASE i = 1
        BY <1>2, <1>4, <1>5, <4>1
      <4>2. CASE i # 1
        <5>1. t[i] = s[i - 1] /\ i - 1 \in DOMAIN s
          BY <1>4, <1>5, <4>2
        <5> QED
          BY <5>1 DEF ToSet
      <4> QED
        BY <4>1, <4>2
    <3> QED
      BY <3>1 DEF ToSet
  <2>2. ASSUME NEW b \in ToSet(s) PROVE b \in ToSet(t)
    <3>1. PICK j \in 1..Len(s) : b = s[j]
      BY <1>5 DEF ToSet
    <3>2. j + 1 \in DOMAIN t /\ t[j + 1] = b
      BY <1>5, <1>6, <3>1
    <3> QED
      BY <3>2 DEF ToSet
  <2>3. a \in ToSet(t)
    BY <1>5, <1>6 DEF ToSet
  <2> QED
    BY <2>1, <2>2, <2>3
<1>8. ASSUME IsInjective(s), a \notin ToSet(s) PROVE IsInjective(t)
  <2> SUFFICES ASSUME NEW i \in 1..(1 + Len(s)), NEW j \in 1..(1 + Len(s)), t[i] = t[j]
               PROVE  i = j
    BY <1>5 DEF IsInjective
  <2>1. CASE i = 1 /\ j # 1
    BY <1>4, <1>5, <1>6, <1>8, <2>1 DEF ToSet
  <2>2. CASE j = 1 /\ i # 1
    BY <1>4, <1>5, <1>6, <1>8, <2>2 DEF ToSet
  <2>3. CASE i # 1 /\ j # 1
    <3>1. i - 1 \in DOMAIN s /\ j - 1 \in DOMAIN s /\ s[i - 1] = s[j - 1]
      BY <1>4, <1>5, <2>3
    <3> QED
      BY <1>5, <1>8, <3>1 DEF IsInjective
  <2> QED
    BY <2>1, <2>2, <2>3
<1> QED
  BY <1>1, <1>3, <1>4, <1>5, <1>6, <1>7, <1>8

\* A list with one of its members brought to the front: the same members.
LEMMA ToFrontIs ==
  ASSUME NEW S, NEW s \in Seq(S), IsInjective(s), NEW a \in ToSet(s)
  PROVE  /\ ToFront(s, a) \in Seq(S)
         /\ IsInjective(ToFront(s, a))
         /\ ToSet(ToFront(s, a)) = ToSet(s)
         /\ Len(ToFront(s, a)) = Len(s)
<1>1. PICK t : t = Unlinked(s, a)
  OBVIOUS
<1>2. t \in Seq(S) /\ IsInjective(t) /\ ToSet(t) = ToSet(s) \ {a} /\ Len(t) = Len(s) - 1
  BY <1>1, UnlinkedIs
<1>3. a \in S
  BY DEF ToSet
<1>4. Len(s) \in Nat
  OBVIOUS
<1>5. PICK f : f = <<a>> \o t
  OBVIOUS
<1>6. f \in Seq(S) /\ Len(f) = Len(t) + 1 /\ ToSet(f) = ToSet(t) \cup {a} /\ IsInjective(f)
  BY <1>2, <1>3, <1>5, ConsIs
<1>7. f = ToFront(s, a)
  BY <1>1, <1>5 DEF ToFront
<1>8. ToSet(f) = ToSet(s)
  BY <1>2, <1>6
<1> QED
  BY <1>2, <1>4, <1>6, <1>7, <1>8

\* The steps of the walk of a list in Without.
WithoutSteps(f, S, s, T) ==
  /\ f \in [0..Len(s) -> Seq(S)]
  /\ f[Len(s)] = Without(s, T)
  /\ f[0] = <<>>
  /\ \A i \in 1..Len(s) :
        f[i] = IF s[i] \in T THEN f[i - 1] ELSE Append(f[i - 1], s[i])

\* The recursive function in Without exists and is that walk.
LEMMA WithoutWalks ==
  ASSUME NEW S, NEW s \in Seq(S), NEW T
  PROVE  \E f : WithoutSteps(f, S, s, T)
<1> DEFINE R(f, i) == IF i = 0 THEN <<>>
                      ELSE IF s[i] \in T THEN f[i - 1] ELSE Append(f[i - 1], s[i])
           G(f, m) == f = [i \in 0..m |-> R(f, i)]
<1>n. PICK n \in Nat : n = Len(s)
  OBVIOUS
<1>0. \A i \in 1..n : s[i] \in S
  BY <1>n
<1> DEFINE B == {m \in 0..n : ~\E f \in [0..m -> Seq(S)] : G(f, m)}
<1>1. B = {}
  <2> SUFFICES ASSUME B # {} PROVE FALSE
    OBVIOUS
  <2>1. B \subseteq Nat
    BY <1>0
  <2>2. PICK m \in B : \A x \in B : m <= x
    BY <2>1, WellOrdered
  <2>3. m \in 0..n /\ m \in Nat
    BY <1>0
  <2>4. m # 0
    <3> DEFINE z == [i \in 0..0 |-> <<>>]
    <3>1. z \in [0..0 -> Seq(S)] /\ G(z, 0)
      OBVIOUS
    <3>2. 0 \notin B
      BY <3>1
    <3> QED
      BY <3>2
  <2>5. m - 1 \in 0..n /\ m - 1 \notin B
    <3>1. m - 1 \in 0..n /\ ~(m <= m - 1)
      BY <2>3, <2>4
    <3> HIDE DEF B
    <3> QED
      BY <2>2, <3>1
  <2>6. PICK f \in [0..(m - 1) -> Seq(S)] : G(f, m - 1)
    BY <2>5
  <2> DEFINE g == [i \in 0..m |-> IF i = m THEN R(f, m) ELSE f[i]]
  <2>7. R(f, m) \in Seq(S)
    <3>1. f[m - 1] \in Seq(S) /\ s[m] \in S
      BY <1>0, <2>3, <2>4, <2>6
    <3> QED
      BY <2>4, <3>1, AppendProperties
  <2>8. g \in [0..m -> Seq(S)]
    BY <2>3, <2>7, <2>6
  <2>9. ASSUME NEW i \in 0..m PROVE g[i] = R(g, i)
    <3>1. CASE i = m
      <4>1. g[m - 1] = f[m - 1]
        BY <2>3, <2>4
      <4> QED
        BY <2>3, <2>4, <3>1, <4>1
    <3>2. CASE i = 0
      <4>1. f[0] = <<>>
        BY <2>3, <2>4, <2>6
      <4> QED
        BY <2>3, <2>4, <3>2, <4>1
    <3>3. CASE i # m /\ i # 0
      <4>1. i \in 0..(m - 1) /\ i - 1 \in 0..(m - 1) /\ i - 1 # m /\ i - 1 \in 0..m
        BY <2>3, <3>3
      <4>2. f[i] = R(f, i)
        BY <4>1, <2>6
      <4>3. g[i] = f[i] /\ g[i - 1] = f[i - 1]
        BY <4>1, <3>3
      <4> QED
        BY <4>2, <4>3
    <3> QED
      BY <3>1, <3>2, <3>3
  <2>10. G(g, m)
    <3> HIDE DEF R
    <3>1. g = [i \in 0..m |-> g[i]]
      OBVIOUS
    <3> HIDE DEF g
    <3> QED
      BY <2>9, <3>1
  <2> QED
    BY <2>2, <2>8, <2>10
<1>2. PICK h \in [0..n -> Seq(S)] : G(h, n)
  <2>1. n \in 0..n /\ n \notin B
    <3> HIDE DEF B
    <3> QED
      BY <1>1
  <2> QED
    BY <2>1
<1> DEFINE f == CHOOSE x : G(x, n)
<1>3. G(f, n)
  BY <1>2
<1>4. Without(s, T) = f[n]
  BY <1>n DEF Without
<1> HIDE DEF f
<1>5. f = h
  <2> SUFFICES ASSUME f # h PROVE FALSE
    OBVIOUS
  <2> DEFINE D == {i \in 0..n : f[i] # h[i]}
  <2>1. D # {}
    BY <1>2, <1>3
  <2>0. D \subseteq Nat
    OBVIOUS
  <2>2. PICK m \in D : \A x \in D : m <= x
    BY <2>0, <2>1, WellOrdered
  <2>3. m \in 0..n /\ f[m] = R(f, m) /\ h[m] = R(h, m)
    BY <1>2, <1>3
  <2>4. m # 0
    BY <2>2, <2>3
  <2>5. m - 1 \in 0..n /\ m - 1 \notin D
    BY <1>0, <2>2, <2>3, <2>4
  <2> QED
    BY <2>2, <2>3, <2>4, <2>5
<1>6. h[0] = <<>>
  BY <1>0, <1>2
<1>7. ASSUME NEW i \in 1..n
      PROVE  h[i] = IF s[i] \in T THEN h[i - 1] ELSE Append(h[i - 1], s[i])
  <2>1. h[i] = R(h, i) /\ i # 0
    <3>1. i \in 0..n
      OBVIOUS
    <3>2. h = [j \in 0..n |-> R(h, j)]
      BY <1>2
    <3>3. i # 0
      OBVIOUS
    <3> HIDE DEF R
    <3> QED
      BY <3>1, <3>2, <3>3
  <2> QED
    BY <2>1
<1> QED
  BY <1>n, <1>2, <1>4, <1>5, <1>6, <1>7 DEF WithoutSteps

\* Without keeps what is not in T, once each.
LEMMA WithoutIs ==
  ASSUME NEW S, NEW s \in Seq(S), NEW T, IsInjective(s)
  PROVE  /\ Without(s, T) \in Seq(S)
         /\ IsInjective(Without(s, T))
         /\ ToSet(Without(s, T)) = ToSet(s) \ T
<1>n. PICK n \in Nat : n = Len(s)
  OBVIOUS
<1>0. DOMAIN s = 1..n /\ \A i \in 1..n : s[i] \in S
  BY <1>n
<1>1. PICK f \in [0..n -> Seq(S)] :
           /\ f[n] = Without(s, T)
           /\ f[0] = <<>>
           /\ \A i \in 1..n :
                 f[i] = IF s[i] \in T THEN f[i - 1] ELSE Append(f[i - 1], s[i])
  <2>1. PICK f : WithoutSteps(f, S, s, T)
    BY WithoutWalks
  <2> QED
    BY <1>n, <2>1 DEF WithoutSteps
<1> DEFINE Pre(m) == {s[i] : i \in 1..m}
           P(m) == IsInjective(f[m]) /\ ToSet(f[m]) = Pre(m) \ T
           B == {m \in 0..n : ~P(m)}
<1>2. B = {}
  <2> SUFFICES ASSUME B # {} PROVE FALSE
    OBVIOUS
  <2>0. B \subseteq Nat
    OBVIOUS
  <2>1. PICK m \in B : \A x \in B : m <= x
    BY <2>0, WellOrdered
  <2>2. m \in 0..n /\ m \in Nat
    BY <1>0
  <2>3. P(0)
    BY <1>1 DEF IsInjective, ToSet
  <2>4. m # 0
    BY <2>1, <2>3
  <2>5. m - 1 \in 0..n /\ P(m - 1) /\ m \in 1..n
    BY <1>0, <2>1, <2>2, <2>4
  <2>6. PICK t : t = f[m - 1]
    OBVIOUS
  <2>7. t \in Seq(S) /\ IsInjective(t) /\ ToSet(t) = Pre(m - 1) \ T
    BY <1>1, <2>5, <2>6
  <2>8. Pre(m) = Pre(m - 1) \cup {s[m]} /\ s[m] \notin Pre(m - 1)
    <3>1. 1..m = 1..(m - 1) \cup {m} /\ m \notin 1..(m - 1)
      BY <2>2, <2>4
    <3>2. 1..m \subseteq 1..n
      BY <2>2
    <3>3. Pre(m) = Pre(m - 1) \cup {s[m]}
      BY <3>1
    <3>4. ASSUME NEW i \in 1..(m - 1) PROVE s[i] # s[m]
      <4>1. i \in 1..n /\ m \in 1..n /\ i # m
        BY <2>2, <2>5, <3>1, <3>2
      <4> QED
        BY <1>0, <4>1 DEF IsInjective
    <3> QED
      BY <3>3, <3>4
  <2>9. CASE s[m] \in T
    <3>1. f[m] = t
      BY <1>1, <2>5, <2>6, <2>9
    <3>2. Pre(m) \ T = Pre(m - 1) \ T
      BY <2>8, <2>9
    <3>3. P(m)
      BY <2>7, <3>1, <3>2
    <3> QED
      BY <3>3
  <2>10. CASE s[m] \notin T
    <3>1. PICK w : w = f[m]
      OBVIOUS
    <3>2. w = Append(t, s[m])
      BY <1>1, <2>5, <2>6, <2>10, <3>1
    <3>3. /\ w \in Seq(S) /\ Len(w) = Len(t) + 1
          /\ \A i \in 1..Len(t) : w[i] = t[i]
          /\ w[Len(t) + 1] = s[m]
      BY <1>0, <2>5, <2>7, <3>2, AppendProperties
    <3>l. PICK l \in Nat : l = Len(t)
      BY <2>7
    <3>4. /\ DOMAIN t = 1..l /\ DOMAIN w = 1..(l + 1) /\ 1..(l + 1) = 1..l \cup {l + 1}
          /\ \A i \in 1..l : w[i] = t[i]
          /\ w[l + 1] = s[m]
      <4>1. DOMAIN t = 1..l /\ DOMAIN w = 1..(l + 1)
        BY <2>7, <3>3, <3>l
      <4>2. 1..(l + 1) = 1..l \cup {l + 1}
        OBVIOUS
      <4> QED
        BY <3>3, <3>l, <4>1, <4>2
    <3>5. s[m] \notin ToSet(t)
      BY <2>7, <2>8
    <3>6. ToSet(w) = ToSet(t) \cup {s[m]}
      <4>1. ToSet(t) = {t[i] : i \in 1..l}
        BY <3>4 DEF ToSet
      <4>2. ToSet(w) = {w[i] : i \in 1..l} \cup {w[l + 1]}
        BY <3>4 DEF ToSet
      <4>3. {w[i] : i \in 1..l} = {t[i] : i \in 1..l}
        BY <3>4
      <4> QED
        BY <3>4, <4>1, <4>2, <4>3
    <3>7. IsInjective(w)
      <4>1. \A i \in 1..l, j \in 1..l : t[i] = t[j] => i = j
        BY <2>7, <3>4 DEF IsInjective
      <4>2. \A i \in 1..l : t[i] # s[m]
        BY <3>4, <3>5 DEF ToSet
      <4> SUFFICES ASSUME NEW i \in 1..(l + 1), NEW j \in 1..(l + 1), w[i] = w[j] PROVE i = j
        BY <3>4 DEF IsInjective
      <4>3. CASE i \in 1..l /\ j \in 1..l
        BY <3>4, <4>1, <4>3
      <4>4. CASE i \in 1..l /\ j = l + 1
        BY <3>4, <4>2, <4>4
      <4>5. CASE i = l + 1 /\ j \in 1..l
        BY <3>4, <4>2, <4>5
      <4> QED
        BY <3>4, <4>3, <4>4, <4>5
    <3>8. ToSet(w) = Pre(m) \ T
      BY <2>7, <2>8, <2>10, <3>6
    <3>9. P(m)
      BY <3>1, <3>7, <3>8
    <3> QED
      BY <3>9
  <2> QED
    BY <2>9, <2>10
<1>3. P(n)
  <2>1. n \in 0..n /\ n \notin B
    <3> HIDE DEF B
    <3> QED
      BY <1>2
  <2> QED
    BY <2>1
<1>4. Pre(n) = ToSet(s)
  BY <1>0 DEF ToSet
<1> QED
  BY <1>n, <1>1, <1>3, <1>4

-----------------------------------------------------------------------------
(* Paths.                                                                  *)

\* A path other than the root's is its parent's with one more name.
LEMMA PathUp ==
  ASSUME NEW a \in Path, a # Root
  PROVE  /\ parent(a) \in Path /\ aname(a) \in Names
         /\ Append(parent(a), aname(a)) = a
         /\ Len(a) \in Nat \ {0} /\ Len(parent(a)) = Len(a) - 1
         /\ \A i \in 1..(Len(a) - 1) : parent(a)[i] = a[i]
<1>1. PICK s \in Path, e \in Names : a = Append(s, e)
  BY SequenceEmptyOrAppend DEF Path, Root
<1>2. /\ Len(a) = Len(s) + 1 /\ \A i \in 1..Len(s) : a[i] = s[i]
      /\ a[Len(s) + 1] = e
  BY <1>1, AppendProperties DEF Path
<1>3. PICK n \in Nat : n = Len(s)
  BY DEF Path
<1>4. PICK t : t = parent(a)
  OBVIOUS
<1>5. t = SubSeq(a, 1, n)
  BY <1>2, <1>3, <1>4 DEF parent, Front
<1>6. t \in Seq(Names) /\ Len(t) = n /\ \A i \in 1..n : t[i] = a[i]
  <2>1. \A i \in 1..n : a[i] \in Names
    BY <1>2, <1>3 DEF Path
  <2> QED
    BY <1>5, <2>1, SubSeqProperties
<1>7. t = s
  <2>1. s \in Seq(Names) /\ \A i \in 1..Len(t) : t[i] = s[i]
    BY <1>2, <1>3, <1>6 DEF Path
  <2> QED
    BY <1>3, <1>6, <2>1, SeqEqual
<1>8. aname(a) = e
  BY <1>2, <1>3 DEF aname, Last
<1> QED
  BY <1>1, <1>2, <1>3, <1>4, <1>6, <1>7, <1>8

\* A name in a directory gives a path whose parent is the directory.
LEMMA PathDown ==
  ASSUME NEW b \in Path, NEW n \in Names
  PROVE  /\ Append(b, n) \in Path /\ Append(b, n) # Root
         /\ parent(Append(b, n)) = b /\ aname(Append(b, n)) = n
<1>1. Append(b, n) \in Path /\ Append(b, n) # Root
  BY AppendProperties DEF Path, Root
<1>2. PICK a \in Path : a = Append(b, n)
  BY <1>1
<1>3. Append(parent(a), aname(a)) = Append(b, n) /\ parent(a) \in Path /\ aname(a) \in Names
  BY <1>1, <1>2, PathUp
<1>4. parent(a) = b /\ aname(a) = n
  BY <1>3, AppendInjective DEF Path
<1> QED
  BY <1>1, <1>2, <1>4

\* The root's path is the empty one.
LEMMA RootIsPath == Root \in Path /\ Len(Root) = 0
BY EmptySeq DEF Root, Path

\* The null pointer is no path: "" is no name.
LEMMA NilIsNoPath == Nil \notin Path
<1>0. SUFFICES ASSUME Nil \in Path PROVE FALSE
  OBVIOUS
<1>1. PICK x : x = Nil
  OBVIOUS
<1>2. Len(x) = 1 /\ x[1] = ""
  BY <1>1 DEF Nil
<1>3. x[1] \in Names
  <2>0. x \in Path
    BY <1>0, <1>1
  <2>1. x \in Seq(Names)
    BY <2>0 DEF Path
  <2>2. Len(x) = 1
    BY <1>2
  <2>3. \A i \in 1..Len(x) : x[i] \in Names
    BY <2>1, ElementOfSeq
  <2> QED
    BY <2>2, <2>3
<1> QED
  BY <1>2, <1>3, NamesAssumption

-----------------------------------------------------------------------------
(* The invariant, of one Unit.                                             *)

\* What an a_inode, an ExKey and a Unit are made of.
AinoSet ==
  [dir : BOOLEAN, child : Seq(Path), shlock : Nat, elock : BOOLEAN,
   locked_children : Nat, exnext_count : Nat, real : BOOLEAN,
   unseen : SUBSET (Names \X BOOLEAN)]
ExKeySet == [aino : Path, curr_file : Path \cup {Nil}, owed : SUBSET Path]
Messages ==
  {"panic: freeing locked a_inode!", "Bug in ExNext bookkeeping", "Serious error",
   "use of a freed a_inode"}
InoSet == UNION {[S -> AinoSet] : S \in SUBSET Path}
UnitSet ==
  [ino : InoSet, chained : SUBSET Path,
   aino_cache_size : Int, total_locked_ainos : Int, exkeys : Seq(ExKeySet),
   logged : SUBSET Messages]

\* The types of a Unit, of which finitely many a_inodes are in memory.
Typed(u) == u \in UnitSet /\ IsFiniteSet(Live(u))

\* Every a_inode but the root has a parent, and is a child of it, once.
Tree(u) ==
  /\ Root \in Dirs(u)
  /\ \A a \in Live(u) \ {Root} : parent(a) \in Live(u)
  /\ \A p \in Live(u) :
        /\ IsInjective(u.ino[p].child)
        /\ ToSet(u.ino[p].child) = {a \in Live(u) \ {Root} : parent(a) = p}
        /\ u.ino[p].child # <<>> => u.ino[p].dir

\* The list to be reaped holds files nobody uses.
Chain(u) ==
  /\ u.chained \subseteq Live(u) \ Dirs(u)
  /\ \A a \in u.chained : ~InUse(u, a)
  /\ u.aino_cache_size = Cardinality(u.chained)

\* A scan is at a child of its directory and owes what comes from there on,
\* or is at the end.
OnScan(s, k) ==
  \/ k.curr_file = Nil /\ k.owed = {}
  \/ \E n \in DOMAIN s : k.curr_file = s[n] /\ k.owed = {s[j] : j \in n..Len(s)}

\* The scans of a directory.
CountOf(s, p) == Cardinality({i \in DOMAIN s : s[i].aino = p})

\* Every ExKey is of a directory in memory, at one of its children or at the
\* end; exnext_count is how many there are; and while there are some, every
\* child in memory is counted.
Scans(u) ==
  /\ \A i \in DOMAIN u.exkeys :
        /\ u.exkeys[i].aino \in Dirs(u)
        /\ OnScan(u.ino[u.exkeys[i].aino].child, u.exkeys[i])
  /\ \A p \in Live(u) :
        /\ u.ino[p].exnext_count = CountOf(u.exkeys, p)
        /\ u.ino[p].exnext_count = 0 => u.ino[p].locked_children = 0
        /\ u.ino[p].exnext_count > 0 =>
              u.ino[p].locked_children >= Len(u.ino[p].child)

\* The total is what the directories have counted.
Totals(u) == u.total_locked_ainos = Cardinality(Counted(u))

\* Of the code's messages only that of action_delete_object has come.
Silent(u) == u.logged \subseteq {"Serious error"}

\* The invariant of a Unit.
Good(u) == Typed(u) /\ Tree(u) /\ Chain(u) /\ Scans(u) /\ Totals(u) /\ Silent(u)

\* What each a_inode has of users, in memory or not.
Shared(u, a) == IF a \in Live(u) THEN u.ino[a].shlock ELSE 0
Exclusive(u, a) == a \in Live(u) /\ u.ino[a].elock

\* An exclusive use is the only one, and shared uses are counted.
Uses(u, L, K, X) ==
  /\ IsABag(L) /\ IsABag(K) /\ IsABag(X)
  /\ DOMAIN L \subseteq Path /\ DOMAIN K \subseteq Path /\ DOMAIN X \subseteq Path
  /\ \A a \in Path :
        LET refs == Copies(a, L) + Copies(a, K) + Copies(a, X)
        IN IF Exclusive(u, a) THEN refs = 1 /\ Shared(u, a) = 0
           ELSE Shared(u, a) = refs

\* Two Units with the same users.
SameUses(u, v) ==
  \A a \in Path : Shared(v, a) = Shared(u, a) /\ Exclusive(v, a) = Exclusive(u, a)

\* The inductive invariant.
IInv == Good(unit) /\ Uses(unit, locks, keys, spares)

-----------------------------------------------------------------------------
(* Units.                                                                  *)

\* The types of what is in a Unit.
LEMMA UnitType ==
  ASSUME NEW u \in UnitSet
  PROVE  /\ Live(u) \subseteq Path /\ u.ino \in [Live(u) -> AinoSet]
         /\ \A p \in Live(u) : u.ino[p] \in AinoSet
         /\ \A p \in Live(u) : /\ u.ino[p].child \in Seq(Path)
                               /\ Len(u.ino[p].child) \in Nat
                               /\ u.ino[p].shlock \in Nat
                               /\ u.ino[p].locked_children \in Nat
                               /\ u.ino[p].exnext_count \in Nat
                               /\ u.ino[p].dir \in BOOLEAN
                               /\ u.ino[p].elock \in BOOLEAN
                               /\ u.ino[p].real \in BOOLEAN
                               /\ u.ino[p].unseen \in SUBSET (Names \X BOOLEAN)
         /\ u.exkeys \in Seq(ExKeySet) /\ DOMAIN u.exkeys = 1..Len(u.exkeys)
         /\ Len(u.exkeys) \in Nat
         /\ \A i \in DOMAIN u.exkeys :
               u.exkeys[i].aino \in Path /\ u.exkeys[i].curr_file \in Path \cup {Nil}
                 /\ u.exkeys[i].owed \in SUBSET Path
<1>1. PICK S \in SUBSET Path : u.ino \in [S -> AinoSet]
  BY DEF UnitSet, InoSet
<1>2. Live(u) = S
  BY <1>1 DEF Live
<1>3. \A p \in Live(u) : u.ino[p] \in AinoSet
  BY <1>1, <1>2
<1>4. ASSUME NEW p \in Live(u)
      PROVE  /\ u.ino[p].child \in Seq(Path)
             /\ Len(u.ino[p].child) \in Nat
             /\ u.ino[p].shlock \in Nat
             /\ u.ino[p].locked_children \in Nat
             /\ u.ino[p].exnext_count \in Nat
             /\ u.ino[p].dir \in BOOLEAN
             /\ u.ino[p].elock \in BOOLEAN
             /\ u.ino[p].real \in BOOLEAN
             /\ u.ino[p].unseen \in SUBSET (Names \X BOOLEAN)
  <2>1. PICK n : n = u.ino[p]
    OBVIOUS
  <2>2. n \in AinoSet
    BY <1>3, <2>1
  <2>3. n.child \in Seq(Path) /\ Len(n.child) \in Nat
    BY <2>2 DEF AinoSet
  <2> QED
    BY <2>1, <2>2, <2>3 DEF AinoSet
<1>5. /\ u.exkeys \in Seq(ExKeySet) /\ DOMAIN u.exkeys = 1..Len(u.exkeys)
      /\ Len(u.exkeys) \in Nat
  BY DEF UnitSet
<1>6. ASSUME NEW i \in DOMAIN u.exkeys
      PROVE  u.exkeys[i].aino \in Path /\ u.exkeys[i].curr_file \in Path \cup {Nil}
               /\ u.exkeys[i].owed \in SUBSET Path
  <2>1. u.exkeys[i] \in ExKeySet
    BY <1>5
  <2> QED
    BY <2>1 DEF ExKeySet
<1> QED
  BY <1>1, <1>2, <1>3, <1>4, <1>5, <1>6

\* A Unit with other a_inodes of the right type.
LEMMA UnitOf ==
  ASSUME NEW u, NEW v \in UnitSet, NEW f, NEW S \in SUBSET Path, f \in [S -> AinoSet],
         u = [v EXCEPT !.ino = f]
  PROVE  u \in UnitSet /\ Live(u) = S /\ u.ino = f
<1>1. f \in InoSet
  BY DEF InoSet
<1> QED
  BY <1>1 DEF UnitSet, Live

-----------------------------------------------------------------------------
(* Counting: the scans of a directory, and total_locked_ainos.             *)

\* The scans of a directory are finitely many, and none when none is of it.
LEMMA CountType ==
  ASSUME NEW s, s \in Seq(ExKeySet), NEW p
  PROVE  /\ IsFiniteSet({i \in DOMAIN s : s[i].aino = p}) /\ CountOf(s, p) \in Nat
         /\ CountOf(s, p) = 0 <=> \A i \in DOMAIN s : s[i].aino # p
<1>1. PICK n \in Nat : n = Len(s)
  OBVIOUS
<1>2. DOMAIN s = 1..n
  BY <1>1
<1>3. IsFiniteSet(1..n)
  BY FS_Interval
<1> DEFINE I == {i \in DOMAIN s : s[i].aino = p}
<1>4. I \in SUBSET (1..n)
  BY <1>2
<1> HIDE DEF I
<1>5. IsFiniteSet(I)
  BY <1>3, <1>4, FS_Subset
<1>6. Cardinality(I) \in Nat /\ (Cardinality(I) = 0 <=> I = {})
  BY <1>5, FS_CardinalityType, FS_EmptySet
<1>7. I = {} <=> \A i \in DOMAIN s : s[i].aino # p
  BY DEF I
<1>8. CountOf(s, p) = Cardinality(I)
  BY DEF CountOf, I
<1>9. IsFiniteSet({i \in DOMAIN s : s[i].aino = p})
  BY <1>5 DEF I
<1> QED
  BY <1>6, <1>7, <1>8, <1>9

\* Only the ExKeys' directories are counted.
LEMMA CountSame ==
  ASSUME NEW s, NEW t, s \in Seq(ExKeySet), t \in Seq(ExKeySet), Len(s) = Len(t),
         \A i \in DOMAIN s : s[i].aino = t[i].aino, NEW p
  PROVE  CountOf(t, p) = CountOf(s, p)
<1>1. DOMAIN s = DOMAIN t
  OBVIOUS
<1>2. {i \in DOMAIN s : s[i].aino = p} = {i \in DOMAIN t : t[i].aino = p}
  BY <1>1
<1> QED
  BY <1>2 DEF CountOf

\* One ExKey more.
LEMMA CountAppend ==
  ASSUME NEW s, s \in Seq(ExKeySet), NEW k \in ExKeySet, NEW p
  PROVE  CountOf(Append(s, k), p) = CountOf(s, p) + (IF k.aino = p THEN 1 ELSE 0)
<1>1. PICK t : t = Append(s, k)
  OBVIOUS
<1>2. PICK n \in Nat : n = Len(s)
  OBVIOUS
<1>3. /\ t \in Seq(ExKeySet) /\ Len(t) = n + 1 /\ t[n + 1] = k
      /\ \A i \in 1..n : t[i] = s[i]
  BY <1>1, <1>2, AppendProperties
<1>4. DOMAIN s = 1..n /\ DOMAIN t = 1..(n + 1) /\ 1..(n + 1) = 1..n \cup {n + 1} /\ n + 1 \notin 1..n
  BY <1>2, <1>3
<1> DEFINE I == {i \in DOMAIN s : s[i].aino = p}
           J == {i \in DOMAIN t : t[i].aino = p}
<1>5. J = I \cup (IF k.aino = p THEN {n + 1} ELSE {}) /\ n + 1 \notin I
  BY <1>3, <1>4
<1>6. IsFiniteSet(I)
  BY CountType
<1>7. Cardinality(I) = CountOf(s, p) /\ Cardinality(J) = CountOf(t, p) /\ CountOf(s, p) \in Nat
  BY CountType DEF CountOf
<1> HIDE DEF I, J
<1>8. Cardinality(I \cup {n + 1}) = Cardinality(I) + 1
  BY <1>5, <1>6, FS_AddElement
<1>9. CASE k.aino = p
  BY <1>1, <1>5, <1>7, <1>8, <1>9
<1>10. CASE k.aino # p
  <2>1. J = I
    BY <1>5, <1>10
  <2> QED
    BY <1>1, <1>7, <1>10, <2>1
<1> QED
  BY <1>9, <1>10

\* One ExKey less.
LEMMA CountRemove ==
  ASSUME NEW s, s \in Seq(ExKeySet), NEW d \in 1..Len(s), NEW p
  PROVE  CountOf(RemoveAt(s, d), p) = CountOf(s, p) - (IF s[d].aino = p THEN 1 ELSE 0)
<1>1. PICK t : t = RemoveAt(s, d)
  OBVIOUS
<1>2. PICK n \in Nat : n = Len(s)
  OBVIOUS
<1>3. /\ t \in Seq(ExKeySet) /\ Len(t) = n - 1
      /\ \A i \in 1..(n - 1) : t[i] = IF i < d THEN s[i] ELSE s[i + 1]
  BY <1>1, <1>2, RemoveAtIs
<1>4. DOMAIN s = 1..n /\ DOMAIN t = 1..(n - 1) /\ d \in 1..n /\ n - 1 \in Nat
  BY <1>2, <1>3
<1> DEFINE I == {i \in DOMAIN s : s[i].aino = p}
           J == {i \in DOMAIN t : t[i].aino = p}
           f == [i \in J |-> IF i < d THEN i ELSE i + 1]
<1>5. \A i \in J : f[i] \in I \ {d}
  <2> SUFFICES ASSUME NEW i \in J PROVE f[i] \in I \ {d}
    OBVIOUS
  <2>1. i \in 1..(n - 1) /\ t[i].aino = p
    BY <1>4
  <2>2. CASE i < d
    BY <1>3, <1>4, <2>1, <2>2
  <2>3. CASE ~(i < d)
    BY <1>3, <1>4, <2>1, <2>3
  <2> QED
    BY <2>2, <2>3
<1>6. f \in Injection(J, I \ {d})
  <2>1. f \in [J -> I \ {d}]
    BY <1>5
  <2>2. IsInjective(f)
    <3> SUFFICES ASSUME NEW i \in J, NEW j \in J, f[i] = f[j] PROVE i = j
      BY DEF IsInjective
    <3>1. i \in 1..(n - 1) /\ j \in 1..(n - 1)
      BY <1>4
    <3> QED
      BY <3>1, <1>4
  <2> QED
    BY <2>1, <2>2 DEF Injection
<1>7. f \in Surjection(J, I \ {d})
  <2>1. ASSUME NEW y \in I \ {d} PROVE \E i \in J : f[i] = y
    <3>1. y \in 1..n /\ s[y].aino = p /\ y # d
      BY <1>4
    <3>2. CASE y < d
      <4>1. y \in 1..(n - 1) /\ t[y] = s[y]
        BY <1>3, <1>4, <3>1, <3>2
      <4>2. y \in J /\ f[y] = y
        BY <1>4, <3>1, <3>2, <4>1
      <4> QED
        BY <4>2
    <3>3. CASE y > d
      <4>0. PICK z : z = y - 1
        OBVIOUS
      <4>1. z \in 1..(n - 1) /\ ~(z < d) /\ z + 1 = y
        BY <1>4, <3>1, <3>3, <4>0
      <4>2. t[z] = s[y]
        BY <1>3, <4>1
      <4>3. z \in J /\ f[z] = y
        BY <1>4, <3>1, <4>1, <4>2
      <4> QED
        BY <4>3
    <3> QED
      BY <1>4, <3>1, <3>2, <3>3
  <2> QED
    BY <1>5, <2>1 DEF Surjection
<1>8. t \in Seq(ExKeySet)
  BY <1>3
<1>9. /\ IsFiniteSet(J) /\ Cardinality(J) = CountOf(t, p)
      /\ IsFiniteSet(I) /\ Cardinality(I) = CountOf(s, p)
  BY <1>8, CountType DEF CountOf
<1>10. d \in I <=> s[d].aino = p
  BY <1>4
<1> HIDE DEF I, J, f
<1>11. Cardinality(J) = Cardinality(I \ {d})
  <2>1. ExistsBijection(J, I \ {d})
    BY <1>6, <1>7 DEF ExistsBijection, Bijection
  <2> QED
    BY <1>9, <2>1, FS_Bijection
<1>12. Cardinality(I \ {d}) = IF d \in I THEN Cardinality(I) - 1 ELSE Cardinality(I)
  BY <1>9, FS_RemoveElement
<1>13. CountOf(s, p) \in Nat
  BY CountType
<1> QED
  BY <1>1, <1>9, <1>10, <1>11, <1>12, <1>13

\* What is locked of p's children.
Locked(u, p) == IF p \in Dirs(u) THEN u.ino[p].locked_children ELSE 0

\* What total_locked_ainos counts is a finite set.
LEMMA CountedIs ==
  ASSUME NEW u, Typed(u)
  PROVE  /\ IsFiniteSet(Counted(u)) /\ Cardinality(Counted(u)) \in Nat
         /\ \A x : x \in Counted(u) <=> \E p \in Path : \E n \in 1..Locked(u, p) : x = <<p, n>>
         /\ \A p \in Path : Locked(u, p) \in Nat
         /\ \A x : x \in Counted(u) <=> \E p \in Live(u) : \E n \in 1..Locked(u, p) : x = <<p, n>>
<1>0. u \in UnitSet /\ IsFiniteSet(Live(u)) /\ Live(u) \subseteq Path
  BY UnitType DEF Typed
<1> DEFINE F == [p \in Dirs(u) |-> {p} \X (1..u.ino[p].locked_children)]
           S == {F[p] : p \in Dirs(u)}
<1>1. \A p \in Dirs(u) : u.ino[p].locked_children \in Nat
  BY <1>0, UnitType DEF Dirs
<1>2. IsFiniteSet(Dirs(u))
  BY <1>0, FS_Subset DEF Dirs
<1>3. F \in Surjection(Dirs(u), S)
  BY DEF Surjection
<1>4. IsFiniteSet(S)
  <2> HIDE DEF F, S
  <2> QED
    BY <1>2, <1>3, FS_Surjection
<1>5. \A T \in S : IsFiniteSet(T)
  <2> SUFFICES ASSUME NEW p \in Dirs(u) PROVE IsFiniteSet({p} \X (1..u.ino[p].locked_children))
    OBVIOUS
  <2>1. PICK n \in Nat : n = u.ino[p].locked_children
    BY <1>1
  <2>2. IsFiniteSet({p})
    BY FS_Singleton
  <2>2a. IsFiniteSet(1..n)
    BY FS_Interval
  <2>3. IsFiniteSet({p} \X (1..n))
    BY <2>2, <2>2a, FS_Product
  <2> QED
    BY <2>1, <2>3
<1>6. Counted(u) = UNION S
  BY DEF Counted
<1>7. IsFiniteSet(Counted(u))
  <2> HIDE DEF S
  <2> QED
    BY <1>4, <1>5, <1>6, FS_UNION
<1>8. Cardinality(Counted(u)) \in Nat
  BY <1>7, FS_CardinalityType
<1>9. \A p \in Path : Locked(u, p) \in Nat
  BY <1>1 DEF Locked
<1>10. ASSUME NEW x PROVE x \in Counted(u) <=> \E p \in Dirs(u) : \E n \in 1..u.ino[p].locked_children : x = <<p, n>>
  BY DEF Counted
<1>11. Dirs(u) \subseteq Path /\ Dirs(u) \subseteq Live(u)
  BY <1>0 DEF Dirs
<1>12. ASSUME NEW p, p \notin Dirs(u) PROVE 1..Locked(u, p) = {}
  BY <1>12 DEF Locked
<1>13. ASSUME NEW p \in Dirs(u) PROVE Locked(u, p) = u.ino[p].locked_children
  BY DEF Locked
<1>14. ASSUME NEW x PROVE x \in Counted(u) <=> \E p \in Path : \E n \in 1..Locked(u, p) : x = <<p, n>>
  BY <1>10, <1>11, <1>12, <1>13
<1>15. ASSUME NEW x PROVE x \in Counted(u) <=> \E p \in Live(u) : \E n \in 1..Locked(u, p) : x = <<p, n>>
  BY <1>10, <1>11, <1>12, <1>13
<1> QED
  BY <1>7, <1>8, <1>9, <1>14, <1>15

\* total_locked_ainos changes by what the count of one directory does.
LEMMA TotalChange ==
  ASSUME NEW u, NEW v, Typed(u), Typed(v), NEW d \in Path,
         \A p \in Path : p # d => Locked(v, p) = Locked(u, p)
  PROVE  Cardinality(Counted(v)) = Cardinality(Counted(u)) - Locked(u, d) + Locked(v, d)
<1> DEFINE P(n) == {d} \X (1..n)
           R == {x \in Counted(u) : x[1] # d}
<1>1. PICK m \in Nat, n \in Nat : m = Locked(u, d) /\ n = Locked(v, d)
  BY CountedIs
<1>2. IsFiniteSet(Counted(u)) /\ IsFiniteSet(Counted(v))
  BY CountedIs
<1>3. Counted(u) = R \cup P(m) /\ R \cap P(m) = {}
  BY <1>1, CountedIs
<1>4. Counted(v) = R \cup P(n) /\ R \cap P(n) = {}
  BY <1>1, CountedIs
<1>5. ASSUME NEW k \in Nat PROVE IsFiniteSet(P(k)) /\ Cardinality(P(k)) = k
  <2>1. IsFiniteSet({d}) /\ Cardinality({d}) = 1
    BY FS_Singleton
  <2>2. IsFiniteSet(1..k) /\ Cardinality(1..k) = k
    <3>1. IsFiniteSet(1..k) /\ Cardinality(1..k) = IF 1 > k THEN 0 ELSE k - 1 + 1
      BY FS_Interval
    <3> QED
      BY <3>1
  <2>3. IsFiniteSet({d} \X (1..k)) /\ Cardinality({d} \X (1..k)) = Cardinality({d}) * Cardinality(1..k)
    BY <2>1, <2>2, FS_Product
  <2> QED
    BY <2>1, <2>2, <2>3
<1>6. IsFiniteSet(R)
  BY <1>2, FS_Subset
<1> HIDE DEF R, P
<1>7. ASSUME NEW k \in Nat, R \cap P(k) = {} PROVE Cardinality(R \cup P(k)) = Cardinality(R) + k
  <2>1. Cardinality(R \cap P(k)) = 0
    BY <1>7, FS_EmptySet
  <2>2. Cardinality(R \cup P(k)) = Cardinality(R) + Cardinality(P(k)) - Cardinality(R \cap P(k))
    BY <1>5, <1>6, FS_Union
  <2>3. Cardinality(R) \in Nat
    BY <1>6, FS_CardinalityType
  <2> QED
    BY <1>5, <2>1, <2>2, <2>3
<1>8. Cardinality(Counted(u)) = Cardinality(R) + m /\ Cardinality(Counted(v)) = Cardinality(R) + n
  BY <1>3, <1>4, <1>7
<1>9. Cardinality(R) \in Nat
  BY <1>6, FS_CardinalityType
<1> QED
  BY <1>1, <1>8, <1>9

\* What is counted depends on locked_children alone.
LEMMA TotalSame ==
  ASSUME NEW u, NEW v, Typed(u), Typed(v), \A p \in Path : Locked(v, p) = Locked(u, p)
  PROVE  Counted(v) = Counted(u)
<1>1. ASSUME NEW x PROVE x \in Counted(u) <=> x \in Counted(v)
  BY CountedIs
<1> QED
  BY <1>1 DEF Counted

-----------------------------------------------------------------------------
(* What an operation must keep for the scans to go on.                     *)

\* Scans go on when no ExKey changes, no directory goes, and the directories
\* that are being scanned keep their counts and what their scans are at.
LEMMA ScansFrame ==
  ASSUME NEW u, Typed(u), Scans(u), NEW v, Typed(v), v.exkeys = u.exkeys,
         Dirs(u) \subseteq Dirs(v),
         \A p \in Live(v) \ Live(u) :
             v.ino[p].exnext_count = 0 /\ v.ino[p].locked_children = 0,
         \A p \in Live(v) \cap Live(u) :
             /\ v.ino[p].exnext_count = u.ino[p].exnext_count
             /\ u.ino[p].exnext_count = 0 => v.ino[p].locked_children = 0
             /\ u.ino[p].exnext_count > 0 =>
                  /\ v.ino[p].locked_children >= Len(v.ino[p].child)
                  /\ \A k \in ExKeySet : OnScan(u.ino[p].child, k) => OnScan(v.ino[p].child, k)
  PROVE  Scans(v)
<1>0. u \in UnitSet /\ v \in UnitSet
  BY DEF Typed
<1>1. u.exkeys \in Seq(ExKeySet) /\ \A i \in DOMAIN u.exkeys : u.exkeys[i] \in ExKeySet
  BY <1>0, UnitType
<1>2. ASSUME NEW i \in DOMAIN v.exkeys
      PROVE  /\ v.exkeys[i].aino \in Dirs(v)
             /\ OnScan(v.ino[v.exkeys[i].aino].child, v.exkeys[i])
  <2>1. PICK k \in ExKeySet : k = v.exkeys[i] /\ k = u.exkeys[i]
    BY <1>1
  <2>2. k.aino \in Dirs(u) /\ k.aino \in Dirs(v) /\ OnScan(u.ino[k.aino].child, k)
    BY <2>1 DEF Scans
  <2>3. k.aino \in Live(u) /\ k.aino \in Live(v)
    BY <2>2 DEF Dirs
  <2>4. CountOf(u.exkeys, k.aino) \in Nat /\ CountOf(u.exkeys, k.aino) # 0
    BY <1>1, <2>1, CountType
  <2>5. u.ino[k.aino].exnext_count > 0
    BY <2>3, <2>4 DEF Scans
  <2> QED
    BY <2>1, <2>2, <2>3, <2>5
<1>3. ASSUME NEW p \in Live(v)
      PROVE  /\ v.ino[p].exnext_count = CountOf(v.exkeys, p)
             /\ v.ino[p].exnext_count = 0 => v.ino[p].locked_children = 0
             /\ v.ino[p].exnext_count > 0 =>
                  v.ino[p].locked_children >= Len(v.ino[p].child)
  <2>1. CASE p \in Live(u)
    BY <2>1 DEF Scans
  <2>2. CASE p \notin Live(u)
    <3>1. \A i \in DOMAIN u.exkeys : u.exkeys[i].aino # p
      BY <2>2 DEF Scans, Dirs
    <3>2. CountOf(u.exkeys, p) = 0
      BY <1>1, <3>1, CountType
    <3> QED
      BY <2>2, <3>2
  <2> QED
    BY <2>1, <2>2
<1> QED
  BY <1>2, <1>3 DEF Scans

\* A Unit in which only users, host objects and the list of recyclable
\* a_inodes change, the latter as it must.
LEMMA GoodFrame ==
  ASSUME NEW u, Good(u), NEW v, v \in UnitSet, Live(v) = Live(u),
         \A p \in Live(u) : /\ v.ino[p].dir = u.ino[p].dir
                            /\ v.ino[p].child = u.ino[p].child
                            /\ v.ino[p].locked_children = u.ino[p].locked_children
                            /\ v.ino[p].exnext_count = u.ino[p].exnext_count,
         v.exkeys = u.exkeys, v.total_locked_ainos = u.total_locked_ainos,
         v.logged = u.logged, Chain(v)
  PROVE  Good(v)
<1>1. Typed(u) /\ Tree(u) /\ Scans(u) /\ Totals(u) /\ Silent(u)
  BY DEF Good
<1>2. Typed(v)
  BY <1>1 DEF Typed
<1>3. Dirs(v) = Dirs(u)
  BY DEF Dirs
<1>4. Tree(v)
  BY <1>1, <1>3 DEF Tree
<1>5. Scans(v)
  <2>1. \A p \in Live(v) \cap Live(u) :
             u.ino[p].exnext_count = 0 => v.ino[p].locked_children = 0
    BY <1>1 DEF Scans
  <2>2. \A p \in Live(v) \cap Live(u) :
             u.ino[p].exnext_count > 0 => v.ino[p].locked_children >= Len(v.ino[p].child)
    BY <1>1 DEF Scans
  <2> QED
    BY <1>1, <1>2, <1>3, <2>1, <2>2, ScansFrame
<1>6. Totals(v)
  <2>1. \A p \in Path : Locked(v, p) = Locked(u, p)
    BY <1>3 DEF Locked, Dirs
  <2> QED
    BY <1>1, <1>2, <2>1, TotalSame DEF Totals
<1> QED
  BY <1>1, <1>2, <1>4, <1>5, <1>6 DEF Good, Silent

\* A use of a begins, changes or is found: a is not in the list any more.
Changed(u, a, n) == [u EXCEPT !.ino[a] = n]

\* de_recycle_aino after the users of an a_inode have changed.
LEMMA Untie ==
  ASSUME NEW u, Good(u), NEW a \in Live(u), NEW n \in AinoSet,
         n.dir = u.ino[a].dir, n.child = u.ino[a].child,
         n.locked_children = u.ino[a].locked_children,
         n.exnext_count = u.ino[a].exnext_count,
         NEW v, v = de_recycle_aino(Changed(u, a, n), a)
  PROVE  /\ Good(v) /\ v.chained = u.chained \ {a}
         /\ Live(v) = Live(u) /\ v.ino[a] = n /\ \A b \in Live(u) : b # a => v.ino[b] = u.ino[b]
         /\ v.exkeys = u.exkeys /\ v.total_locked_ainos = u.total_locked_ainos
         /\ Shared(v, a) = n.shlock /\ Exclusive(v, a) = n.elock
         /\ \A b \in Path : b # a =>
              Shared(v, b) = Shared(u, b) /\ Exclusive(v, b) = Exclusive(u, b)
         /\ v.aino_cache_size <= u.aino_cache_size
<1>1. Typed(u) /\ Chain(u)
  BY DEF Good
<1>2. u \in UnitSet /\ IsFiniteSet(Live(u)) /\ u.ino \in [Live(u) -> AinoSet] /\ Live(u) \in SUBSET Path
  BY <1>1, UnitType DEF Typed
<1> DEFINE f == [u.ino EXCEPT ![a] = n]
           w == [u EXCEPT !.ino = f]
<1>3. f \in [Live(u) -> AinoSet] /\ f[a] = n /\ \A b \in Live(u) : b # a => f[b] = u.ino[b]
  BY <1>2
<1>4. w = [u EXCEPT !.ino[a] = n]
  BY <1>2 DEF UnitSet
<1> HIDE DEF f
<1>5. w \in UnitSet /\ Live(w) = Live(u) /\ w.ino = f
  BY <1>2, <1>3, UnitOf
<1>6. /\ w.chained = u.chained /\ w.aino_cache_size = u.aino_cache_size
      /\ w.exkeys = u.exkeys /\ w.logged = u.logged
      /\ w.total_locked_ainos = u.total_locked_ainos
  BY <1>2 DEF UnitSet
<1>7. v = de_recycle_aino(w, a)
  BY <1>4 DEF Changed
<1> HIDE DEF w
<1>8. IsFiniteSet(u.chained) /\ u.chained \in SUBSET Path /\ u.aino_cache_size \in Int
  <2>1. u.chained \in SUBSET Live(u)
    BY <1>1 DEF Chain
  <2> QED
    BY <1>2, <2>1, FS_Subset DEF UnitSet
<1>9. /\ v \in UnitSet /\ v.ino = f /\ Live(v) = Live(u) /\ v.chained = u.chained \ {a}
      /\ v.aino_cache_size = IF a \in u.chained THEN u.aino_cache_size - 1 ELSE u.aino_cache_size
      /\ v.exkeys = u.exkeys /\ v.logged = u.logged
      /\ v.total_locked_ainos = u.total_locked_ainos
  <2>1. CASE a \in u.chained
    <3>1. v = [w EXCEPT !.chained = @ \ {a}, !.aino_cache_size = @ - 1]
      BY <1>6, <1>7, <2>1 DEF de_recycle_aino
    <3>2. v \in UnitSet
      <4>1. PICK c \in SUBSET Path : c = w.chained \ {a}
        <5>1. w.chained \in SUBSET Path
          BY <1>6, <1>8
        <5> QED
          BY <5>1
      <4>3. PICK m \in Int : m = w.aino_cache_size - 1
        BY <1>6, <1>8
      <4>2. v = [w EXCEPT !.chained = c, !.aino_cache_size = m]
        BY <3>1, <4>1, <4>3
      <4> QED
        BY <1>5, <4>2 DEF UnitSet
    <3>3. v.ino = w.ino /\ v.chained = w.chained \ {a} /\ v.aino_cache_size = w.aino_cache_size - 1
      BY <1>5, <3>1 DEF UnitSet
    <3>4. v.exkeys = w.exkeys /\ v.logged = w.logged /\ v.total_locked_ainos = w.total_locked_ainos
      BY <1>5, <3>1 DEF UnitSet
    <3>5. Live(v) = Live(w)
      BY <3>3 DEF Live
    <3> QED
      BY <1>5, <1>6, <2>1, <3>2, <3>3, <3>4, <3>5
  <2>2. CASE a \notin u.chained
    <3>1. v = w /\ u.chained \ {a} = u.chained
      BY <1>6, <1>7, <2>2 DEF de_recycle_aino
    <3> QED
      BY <1>5, <1>6, <2>2, <3>1
  <2> QED
    BY <2>1, <2>2
<1>10. Chain(v)
  <2>1. v.aino_cache_size = Cardinality(v.chained)
    <3>1. Cardinality(u.chained \ {a}) = IF a \in u.chained THEN Cardinality(u.chained) - 1 ELSE Cardinality(u.chained)
      BY <1>8, FS_RemoveElement
    <3> QED
      BY <1>1, <1>9, <3>1 DEF Chain
  <2>2. v.chained \subseteq Live(v) \ Dirs(v)
    BY <1>1, <1>3, <1>9 DEF Chain, Dirs
  <2>3. ASSUME NEW b \in v.chained PROVE ~InUse(v, b)
    <3>1. b \in u.chained /\ b # a /\ b \in Live(u)
      BY <1>1, <1>9 DEF Chain
    <3>2. ~InUse(u, b) /\ v.ino[b] = u.ino[b]
      BY <1>1, <1>3, <1>9, <3>1 DEF Chain
    <3> QED
      BY <3>2 DEF InUse
  <2> QED
    BY <2>1, <2>2, <2>3 DEF Chain
<1>11. Good(v)
  <2>1. \A p \in Live(u) : /\ v.ino[p].dir = u.ino[p].dir
                           /\ v.ino[p].child = u.ino[p].child
                           /\ v.ino[p].locked_children = u.ino[p].locked_children
                           /\ v.ino[p].exnext_count = u.ino[p].exnext_count
    BY <1>3, <1>9
  <2> QED
    BY <1>9, <1>10, <2>1, GoodFrame
<1>12. Shared(v, a) = n.shlock /\ Exclusive(v, a) = n.elock
  <2>1. n.elock \in BOOLEAN
    BY DEF AinoSet
  <2> QED
    BY <1>3, <1>9, <2>1 DEF Shared, Exclusive
<1>13. ASSUME NEW b \in Path, b # a
       PROVE  Shared(v, b) = Shared(u, b) /\ Exclusive(v, b) = Exclusive(u, b)
  BY <1>3, <1>9, <1>13 DEF Shared, Exclusive
<1> QED
  BY <1>3, <1>8, <1>9, <1>11, <1>12, <1>13

-----------------------------------------------------------------------------
(* The reaper.                                                             *)

\* A list without what it does not have.
LEMMA WithoutNone ==
  ASSUME NEW S, NEW s \in Seq(S), NEW T, \A i \in 1..Len(s) : s[i] \notin T
  PROVE  Without(s, T) = s
<1>n. PICK n \in Nat : n = Len(s)
  OBVIOUS
<1>0. DOMAIN s = 1..n /\ \A i \in 1..n : s[i] \in S
  BY <1>n
<1>1. PICK f \in [0..n -> Seq(S)] :
           /\ f[n] = Without(s, T)
           /\ f[0] = <<>>
           /\ \A i \in 1..n : f[i] = Append(f[i - 1], s[i])
  <2>1. PICK f : WithoutSteps(f, S, s, T)
    BY WithoutWalks
  <2> QED
    BY <1>n, <2>1 DEF WithoutSteps
<1> DEFINE P(m) == Len(f[m]) = m /\ \A j \in 1..m : f[m][j] = s[j]
           B == {m \in 0..n : ~P(m)}
<1>2. B = {}
  <2> SUFFICES ASSUME B # {} PROVE FALSE
    OBVIOUS
  <2>0. B \subseteq Nat
    OBVIOUS
  <2>1. PICK m \in B : \A x \in B : m <= x
    BY <2>0, WellOrdered
  <2>2. m \in 0..n /\ m \in Nat
    OBVIOUS
  <2>3. P(0)
    BY <1>1
  <2>4. m # 0
    BY <2>1, <2>3
  <2>5. m - 1 \in 0..n /\ ~(m <= m - 1) /\ m \in 1..n
    BY <2>2, <2>4
  <2>6. m - 1 \notin B
    <3> HIDE DEF B
    <3> QED
      BY <2>1, <2>5
  <2>7. P(m - 1)
    BY <2>5, <2>6
  <2>8. PICK t \in Seq(S) : t = f[m - 1]
    BY <1>1, <2>5
  <2>9. PICK w : w = f[m]
    OBVIOUS
  <2>10. w = Append(t, s[m])
    BY <1>1, <2>5, <2>8, <2>9
  <2>11. /\ w \in Seq(S) /\ Len(w) = Len(t) + 1
         /\ \A i \in 1..Len(t) : w[i] = t[i]
         /\ w[Len(t) + 1] = s[m]
    BY <1>0, <2>5, <2>8, <2>10, AppendProperties
  <2>12. Len(t) = m - 1 /\ \A j \in 1..(m - 1) : t[j] = s[j]
    BY <2>7, <2>8
  <2>13. 1..m = 1..(m - 1) \cup {m}
    BY <2>2, <2>4
  <2>14. Len(w) = m /\ w[m] = s[m] /\ \A j \in 1..(m - 1) : w[j] = s[j]
    BY <2>2, <2>11, <2>12
  <2>15. P(m)
    BY <2>9, <2>13, <2>14
  <2> QED
    BY <2>15
<1>3. P(n)
  <2>1. n \in 0..n /\ n \notin B
    <3> HIDE DEF B
    <3> QED
      BY <1>2
  <2> QED
    BY <2>1
<1>4. f[n] \in Seq(S)
  BY <1>1
<1> QED
  BY <1>n, <1>0, <1>1, <1>3, <1>4, SeqEqual

\* What the reaper may do to a_inodes that it does not dispose of.
Thinned(u, v) ==
  /\ Live(v) \subseteq Live(u) /\ Live(u) \ Live(v) \subseteq u.chained
  /\ \A p \in Live(v) :
        /\ v.ino[p].dir = u.ino[p].dir /\ v.ino[p].real = u.ino[p].real
        /\ v.ino[p].shlock = u.ino[p].shlock /\ v.ino[p].elock = u.ino[p].elock
        /\ v.ino[p].locked_children = u.ino[p].locked_children
        /\ v.ino[p].exnext_count = u.ino[p].exnext_count
        /\ u.ino[p].child = <<>> => v.ino[p].child = <<>>
  /\ v.exkeys = u.exkeys /\ v.total_locked_ainos = u.total_locked_ainos

\* Reaping recyclable files of directories that are not being scanned.
LEMMA ReapKeeps ==
  ASSUME NEW u, Good(u), NEW S, S \subseteq u.chained,
         \A a \in S : u.ino[parent(a)].locked_children = 0,
         NEW v, v = reap_aino(u, S)
  PROVE  Good(v) /\ Thinned(u, v) /\ SameUses(u, v) /\ Dirs(v) = Dirs(u)
           /\ v.chained = u.chained \ S
<1>1. Typed(u) /\ Tree(u) /\ Chain(u) /\ Scans(u) /\ Totals(u) /\ Silent(u)
  BY DEF Good
<1>2. /\ u \in UnitSet /\ IsFiniteSet(Live(u)) /\ u.ino \in [Live(u) -> AinoSet]
      /\ Live(u) \in SUBSET Path
  BY <1>1, UnitType DEF Typed
<1>3. /\ S \subseteq Live(u) /\ Root \notin S
      /\ \A a \in S : u.ino[a].dir = FALSE /\ a \in Path
  <2>1. \A a \in S : a \in Live(u) /\ a \notin Dirs(u)
    BY <1>1 DEF Chain
  <2>2. \A a \in S : u.ino[a].dir \in BOOLEAN
    BY <1>2, <2>1, UnitType
  <2> QED
    BY <1>1, <1>2, <2>1, <2>2 DEF Dirs, Tree
<1> DEFINE Seen(p) == {<<aname(a), u.ino[a].dir>> : a \in {b \in S : parent(b) = p /\ u.ino[b].real}}
           n(p) == [u.ino[p] EXCEPT !.child = Without(@, S), !.unseen = @ \cup Seen(p)]
           f == [p \in Live(u) \ S |-> n(p)]
<1>4. ASSUME NEW p
      PROVE  Seen(p) \in SUBSET (Names \X BOOLEAN)
  <2>1. \A a \in S : aname(a) \in Names /\ u.ino[a].dir \in BOOLEAN
    BY <1>3, PathUp
  <2> QED
    BY <2>1
<1> HIDE DEF Seen
<1>5. ASSUME NEW p \in Live(u)
      PROVE  /\ n(p) \in AinoSet
             /\ n(p).dir = u.ino[p].dir /\ n(p).real = u.ino[p].real
             /\ n(p).shlock = u.ino[p].shlock /\ n(p).elock = u.ino[p].elock
             /\ n(p).locked_children = u.ino[p].locked_children
             /\ n(p).exnext_count = u.ino[p].exnext_count
             /\ n(p).child = Without(u.ino[p].child, S)
             /\ IsInjective(n(p).child)
             /\ ToSet(n(p).child) = ToSet(u.ino[p].child) \ S
  <2>1. PICK m \in AinoSet : m = u.ino[p]
    BY <1>2
  <2>2. m.child \in Seq(Path) /\ IsInjective(m.child)
    BY <1>1, <1>2, <2>1, UnitType DEF Tree
  <2>3. /\ Without(m.child, S) \in Seq(Path)
        /\ IsInjective(Without(m.child, S))
        /\ ToSet(Without(m.child, S)) = ToSet(m.child) \ S
    BY <2>2, WithoutIs
  <2>4. PICK c \in Seq(Path) : c = Without(m.child, S)
    BY <2>3
  <2>5. PICK e \in SUBSET (Names \X BOOLEAN) : e = m.unseen \cup Seen(p)
    <3>1. m.unseen \in SUBSET (Names \X BOOLEAN)
      BY DEF AinoSet
    <3>2. m.unseen \cup Seen(p) \in SUBSET (Names \X BOOLEAN)
      BY <1>4, <3>1
    <3> QED
      BY <3>2
  <2>6. n(p) = [m EXCEPT !.child = c, !.unseen = e]
    BY <2>1, <2>4, <2>5
  <2>7. [m EXCEPT !.child = c, !.unseen = e] \in AinoSet
    BY DEF AinoSet
  <2> HIDE DEF n
  <2>8. /\ n(p).dir = m.dir /\ n(p).real = m.real
        /\ n(p).shlock = m.shlock /\ n(p).elock = m.elock
        /\ n(p).locked_children = m.locked_children
        /\ n(p).exnext_count = m.exnext_count
        /\ n(p).child = c
    BY <2>6 DEF AinoSet
  <2> QED
    BY <2>1, <2>3, <2>4, <2>6, <2>7, <2>8
<1> HIDE DEF n
<1>6. f \in [Live(u) \ S -> AinoSet] /\ Live(u) \ S \in SUBSET Path
  BY <1>2, <1>5
<1>7. ~\E a \in S : InUse(u, a)
  BY <1>1 DEF Chain
<1>8. PICK c \in SUBSET Path : c = u.chained \ S
  <2>1. u.chained \ S \in SUBSET Path
    BY <1>2 DEF UnitSet
  <2> QED
    BY <2>1
<1>9. IsFiniteSet(u.chained) /\ IsFiniteSet(S) /\ Cardinality(S) \in Nat
      /\ Cardinality(c) = Cardinality(u.chained) - Cardinality(S)
  <2>1. u.chained \in SUBSET Live(u)
    BY <1>1 DEF Chain
  <2>2. IsFiniteSet(u.chained)
    BY <1>2, <2>1, FS_Subset
  <2>3. IsFiniteSet(S)
    BY <2>2, FS_Subset
  <2>4. Cardinality(u.chained \ S) = Cardinality(u.chained) - Cardinality(u.chained \cap S)
    BY <2>2, FS_Difference
  <2>5. u.chained \cap S = S
    OBVIOUS
  <2> QED
    BY <1>8, <2>2, <2>3, <2>4, <2>5, FS_CardinalityType
<1>10. PICK z \in Int : z = u.aino_cache_size - Cardinality(S)
  BY <1>2, <1>9 DEF UnitSet
<1>11. v = [u EXCEPT !.ino = f, !.chained = c, !.aino_cache_size = z]
  <2>1. v = [u EXCEPT !.ino = f, !.chained = u.chained \ S,
                      !.aino_cache_size = u.aino_cache_size - Cardinality(S),
                      !.logged = u.logged \cup {}]
    BY <1>7 DEF reap_aino, n, Seen
  <2>2. u.logged \cup {} = u.logged
    OBVIOUS
  <2> HIDE DEF f
  <2> QED
    BY <1>2, <1>8, <1>10, <2>1, <2>2 DEF UnitSet
<1>12. /\ v \in UnitSet /\ v.ino = f /\ v.chained = c /\ v.aino_cache_size = z
       /\ v.exkeys = u.exkeys /\ v.total_locked_ainos = u.total_locked_ainos
       /\ v.logged = u.logged
  <2>1. f \in InoSet
    <3> HIDE DEF f
    <3> QED
      BY <1>6 DEF InoSet
  <2> HIDE DEF f
  <2> QED
    BY <1>2, <1>11, <2>1 DEF UnitSet
<1>13. Live(v) = Live(u) \ S
  BY <1>6, <1>12 DEF Live
<1>14. \A p \in Live(v) : p \in Live(u) /\ v.ino[p] = n(p)
  BY <1>12, <1>13
<1> HIDE DEF f
<1>15. Dirs(v) = Dirs(u)
  <2>1. \A p \in Live(v) : v.ino[p].dir = u.ino[p].dir
    BY <1>5, <1>14
  <2> QED
    BY <1>3, <1>13, <2>1 DEF Dirs
<1>16. Typed(v)
  <2>1. Live(v) \in SUBSET Live(u)
    BY <1>13
  <2>2. IsFiniteSet(Live(v))
    BY <1>2, <2>1, FS_Subset
  <2> QED
    BY <1>12, <2>2 DEF Typed
<1>17. Chain(v)
  <2>1. v.chained \subseteq Live(v) \ Dirs(v)
    BY <1>1, <1>8, <1>12, <1>13, <1>15 DEF Chain
  <2>2. ASSUME NEW a \in v.chained PROVE ~InUse(v, a)
    <3>1. a \in u.chained /\ a \in Live(v)
      BY <1>8, <1>12, <2>1
    <3>2. v.ino[a].shlock = u.ino[a].shlock /\ v.ino[a].elock = u.ino[a].elock /\ ~InUse(u, a)
      BY <1>1, <1>5, <1>14, <3>1 DEF Chain
    <3> QED
      BY <3>2 DEF InUse
  <2>3. v.aino_cache_size = Cardinality(v.chained)
    BY <1>1, <1>9, <1>10, <1>12 DEF Chain
  <2> QED
    BY <2>1, <2>2, <2>3 DEF Chain
<1>18. Tree(v)
  <2>1. Root \in Dirs(v)
    BY <1>1, <1>15 DEF Tree
  <2>2. ASSUME NEW a \in Live(v) \ {Root} PROVE parent(a) \in Live(v)
    <3>1. a \in Live(u) /\ parent(a) \in Live(u) /\ a \in ToSet(u.ino[parent(a)].child)
      BY <1>1, <1>13 DEF Tree
    <3>2. u.ino[parent(a)].child # <<>>
      BY <3>1 DEF ToSet
    <3>3. u.ino[parent(a)].dir
      BY <1>1, <3>1, <3>2 DEF Tree
    <3> QED
      BY <1>3, <1>13, <3>1, <3>3
  <2>3. ASSUME NEW p \in Live(v)
        PROVE  /\ IsInjective(v.ino[p].child)
               /\ ToSet(v.ino[p].child) = {a \in Live(v) \ {Root} : parent(a) = p}
               /\ v.ino[p].child # <<>> => v.ino[p].dir
    <3>1. p \in Live(u) /\ v.ino[p] = n(p)
      BY <1>14
    <3>2. ToSet(v.ino[p].child) = {a \in Live(u) \ {Root} : parent(a) = p} \ S
      BY <1>1, <1>5, <3>1 DEF Tree
    <3>3. ToSet(v.ino[p].child) = {a \in Live(v) \ {Root} : parent(a) = p}
      BY <1>13, <3>2
    <3>4. ASSUME v.ino[p].child # <<>> PROVE v.ino[p].dir
      <4>1. v.ino[p].child \in Seq(Path)
        BY <1>12, UnitType
      <4>2. v.ino[p].child[1] \in ToSet(v.ino[p].child)
        BY <3>4, <4>1, EmptySeq DEF ToSet
      <4>3. u.ino[p].child # <<>>
        <5>1. ToSet(v.ino[p].child) = ToSet(u.ino[p].child) \ S
          BY <1>5, <3>1
        <5>2. \E x : x \in ToSet(u.ino[p].child)
          BY <4>2, <5>1
        <5> QED
          BY <5>2 DEF ToSet
      <4> QED
        BY <1>1, <1>5, <3>1, <4>3 DEF Tree
    <3> QED
      BY <1>5, <3>1, <3>3, <3>4
  <2> QED
    BY <2>1, <2>2, <2>3 DEF Tree
<1>19. ASSUME NEW p \in Live(u), u.ino[p].locked_children # 0
       PROVE  n(p).child = u.ino[p].child
  <2>1. PICK s \in Seq(Path) : s = u.ino[p].child
    BY <1>2, UnitType
  <2>2. ASSUME NEW i \in 1..Len(s) PROVE s[i] \notin S
    <3>1. s[i] \in ToSet(s)
      BY DEF ToSet
    <3>2. parent(s[i]) = p
      BY <1>1, <2>1, <3>1 DEF Tree
    <3> QED
      BY <1>19, <3>2
  <2> QED
    BY <1>5, <2>1, <2>2, WithoutNone
<1>20. ASSUME NEW p \in Live(u), u.ino[p].child = <<>>
       PROVE  n(p).child = <<>>
  <2>1. PICK s \in Seq(Path) : s = u.ino[p].child
    BY <1>2, UnitType
  <2>2. \A i \in 1..Len(s) : s[i] \notin S
    BY <1>20, <2>1
  <2> QED
    BY <1>5, <1>20, <2>1, <2>2, WithoutNone
<1>21. Scans(v)
  <2>1. \A p \in Live(v) \ Live(u) :
             v.ino[p].exnext_count = 0 /\ v.ino[p].locked_children = 0
    BY <1>13
  <2>2. ASSUME NEW p \in Live(v) \cap Live(u)
        PROVE  /\ v.ino[p].exnext_count = u.ino[p].exnext_count
               /\ u.ino[p].exnext_count = 0 => v.ino[p].locked_children = 0
               /\ u.ino[p].exnext_count > 0 => v.ino[p].child = u.ino[p].child
               /\ u.ino[p].exnext_count > 0 => v.ino[p].locked_children >= Len(v.ino[p].child)
    <3>1. /\ v.ino[p] = n(p) /\ v.ino[p].exnext_count = u.ino[p].exnext_count
          /\ v.ino[p].locked_children = u.ino[p].locked_children
      BY <1>5, <1>14
    <3>2. /\ u.ino[p].exnext_count = 0 => u.ino[p].locked_children = 0
          /\ u.ino[p].exnext_count > 0 => u.ino[p].locked_children >= Len(u.ino[p].child)
      BY <1>1 DEF Scans
    <3>3. ASSUME u.ino[p].exnext_count > 0 PROVE v.ino[p].child = u.ino[p].child
      <4>1. CASE u.ino[p].locked_children # 0
        BY <1>19, <3>1, <4>1
      <4>2. CASE u.ino[p].locked_children = 0
        <5>1. Len(u.ino[p].child) = 0 /\ u.ino[p].child \in Seq(Path)
          BY <1>2, <3>2, <3>3, <4>2, UnitType
        <5>2. u.ino[p].child = <<>>
          BY <5>1
        <5> QED
          BY <1>20, <3>1, <5>2
      <4> QED
        BY <4>1, <4>2
    <3> QED
      BY <3>1, <3>2, <3>3
  <2> QED
    BY <1>1, <1>12, <1>15, <1>16, <2>1, <2>2, ScansFrame
<1>22. Totals(v)
  <2>1. ASSUME NEW p \in Path PROVE Locked(v, p) = Locked(u, p)
    <3>1. CASE p \in Dirs(v)
      <4>1. p \in Live(v) /\ p \in Dirs(u)
        BY <1>15, <3>1 DEF Dirs
      <4> QED
        BY <1>5, <1>14, <1>15, <4>1 DEF Locked
    <3>2. CASE p \notin Dirs(v)
      BY <1>15, <3>2 DEF Locked
    <3> QED
      BY <3>1, <3>2
  <2> QED
    BY <1>1, <1>12, <1>16, <2>1, TotalSame DEF Totals
<1>23. SameUses(u, v)
  <2> SUFFICES ASSUME NEW a \in Path
               PROVE  Shared(v, a) = Shared(u, a) /\ Exclusive(v, a) = Exclusive(u, a)
    BY DEF SameUses
  <2>1. CASE a \in S
    <3>1. ~InUse(u, a) /\ a \in Live(u) /\ a \notin Live(v)
      BY <1>3, <1>7, <1>13, <2>1
    <3>2. u.ino[a].shlock = 0 /\ u.ino[a].elock = FALSE
      <4>1. u.ino[a].shlock \in Nat /\ u.ino[a].elock \in BOOLEAN
        BY <1>2, <3>1, UnitType
      <4> QED
        BY <3>1, <4>1 DEF InUse
    <3> QED
      BY <3>1, <3>2 DEF Shared, Exclusive
  <2>2. CASE a \notin S
    <3>1. a \in Live(u) <=> a \in Live(v)
      BY <1>13, <2>2
    <3> QED
      BY <1>5, <1>14, <3>1 DEF Shared, Exclusive
  <2> QED
    BY <2>1, <2>2
<1>24. Thinned(u, v)
  <2>1. Live(v) \subseteq Live(u) /\ Live(u) \ Live(v) \subseteq u.chained
    BY <1>13
  <2> QED
    BY <1>5, <1>12, <1>14, <1>20, <2>1 DEF Thinned
<1>25. Good(v)
  BY <1>1, <1>12, <1>16, <1>17, <1>18, <1>21, <1>22 DEF Good, Silent
<1> QED
  BY <1>8, <1>12, <1>15, <1>23, <1>24, <1>25

\* recycle_aino, with the reaping it may start.
LEMMA RecycleKeeps ==
  ASSUME NEW u, Good(u), NEW a \in Live(u), a \notin u.chained,
         NEW v \in recycle_aino(u, a)
  PROVE  /\ Good(v) /\ Thinned(u, v) /\ SameUses(u, v) /\ Dirs(v) = Dirs(u)
         /\ ~CacheFull(u) => Live(v) = Live(u)
<1> DEFINE Same(w) == Good(w) /\ Thinned(u, w) /\ SameUses(u, w) /\ Dirs(w) = Dirs(u)
                        /\ w.chained \subseteq u.chained
                        /\ (~CacheFull(u) => Live(w) = Live(u))
<1>1. Same(u)
  BY DEF Thinned, SameUses
<1>2. CASE u.ino[a].dir \/ InUse(u, a) \/ a = Root
  <2>1. v = u
    BY <1>2 DEF recycle_aino
  <2> QED
    BY <1>1, <2>1
<1>3. CASE ~(u.ino[a].dir \/ InUse(u, a) \/ a = Root)
  <2>1. PICK w \in IF CacheFull(u) THEN Reaped(u) ELSE {u} :
             v = [w EXCEPT !.chained = @ \cup {a}, !.aino_cache_size = @ + 1]
    BY <1>3 DEF recycle_aino
  <2>2. Same(w)
    <3>1. CASE ~CacheFull(u)
      BY <1>1, <2>1, <3>1
    <3>2. CASE CacheFull(u)
      <4>1. w \in Reaped(u)
        BY <2>1, <3>2
      <4> DEFINE open == {p \in Dirs(u) : u.ino[p].locked_children = 0}
                 Of(F) == UNION {Family(u, p) : p \in F}
      <4>2. PICK F \in SUBSET open : w = reap_aino(u, Of(F))
        BY <4>1 DEF Reaped
      <4>3. Of(F) \subseteq u.chained /\ \A b \in Of(F) : u.ino[parent(b)].locked_children = 0
        BY <4>2 DEF Family
      <4> HIDE DEF Of
      <4>4. Good(w) /\ Thinned(u, w) /\ SameUses(u, w) /\ Dirs(w) = Dirs(u)
              /\ w.chained = u.chained \ Of(F)
        BY <4>2, <4>3, ReapKeeps
      <4> QED
        BY <3>2, <4>4
    <3> QED
      BY <3>1, <3>2
  <2>3. /\ w \in UnitSet /\ Chain(w) /\ IsFiniteSet(Live(w)) /\ a \notin w.chained
        /\ a \in Live(w) /\ a \in Path
    <3>1. w \in UnitSet /\ Chain(w) /\ IsFiniteSet(Live(w)) /\ a \notin w.chained
      BY <2>2 DEF Good, Typed
    <3>2. a \in Live(w)
      BY <2>2 DEF Thinned
    <3> QED
      BY <3>1, <3>2, UnitType
  <2>4. PICK c \in SUBSET Path : c = w.chained \cup {a}
    <3>1. w.chained \cup {a} \in SUBSET Path
      BY <2>3 DEF UnitSet
    <3> QED
      BY <3>1
  <2>5. PICK z \in Int : z = w.aino_cache_size + 1
    BY <2>3 DEF UnitSet
  <2>6. v = [w EXCEPT !.chained = c, !.aino_cache_size = z]
    BY <2>1, <2>4, <2>5
  <2>7. /\ v \in UnitSet /\ v.ino = w.ino /\ v.chained = c /\ v.aino_cache_size = z
        /\ v.exkeys = w.exkeys /\ v.total_locked_ainos = w.total_locked_ainos
        /\ v.logged = w.logged
    BY <2>3, <2>6 DEF UnitSet
  <2>8. Live(v) = Live(w) /\ Dirs(v) = Dirs(w)
    BY <2>7 DEF Live, Dirs
  <2>9. /\ a \notin Dirs(w) /\ ~InUse(w, a)
    <3>1. a \notin Dirs(u)
      BY <1>3 DEF Dirs
    <3>2. w.ino[a].shlock = u.ino[a].shlock /\ w.ino[a].elock = u.ino[a].elock
      BY <2>2, <2>3 DEF Thinned
    <3> QED
      BY <1>3, <2>2, <3>1, <3>2 DEF InUse
  <2>10. Chain(v)
    <3>1. v.chained \subseteq Live(v) \ Dirs(v)
      BY <2>3, <2>4, <2>7, <2>8, <2>9 DEF Chain
    <3>2. ASSUME NEW b \in v.chained PROVE ~InUse(v, b)
      BY <2>3, <2>4, <2>7, <2>9 DEF Chain, InUse
    <3>3. v.aino_cache_size = Cardinality(v.chained)
      <4>1. w.chained \in SUBSET Live(w)
        BY <2>3 DEF Chain
      <4>2. IsFiniteSet(w.chained)
        BY <2>3, <4>1, FS_Subset
      <4>3. Cardinality(w.chained \cup {a}) = Cardinality(w.chained) + 1
        BY <2>3, <4>2, FS_AddElement
      <4> QED
        BY <2>3, <2>4, <2>5, <2>7, <4>3 DEF Chain
    <3> QED
      BY <3>1, <3>2, <3>3 DEF Chain
  <2>11. Good(v)
    <3>1. Good(w) /\ \A p \in Live(w) : /\ v.ino[p].dir = w.ino[p].dir
                           /\ v.ino[p].child = w.ino[p].child
                           /\ v.ino[p].locked_children = w.ino[p].locked_children
                           /\ v.ino[p].exnext_count = w.ino[p].exnext_count
      BY <2>2, <2>7
    <3> QED
      BY <2>7, <2>8, <2>10, <3>1, GoodFrame
  <2>12. Thinned(u, v)
    BY <2>2, <2>7, <2>8 DEF Thinned
  <2>13. SameUses(u, v)
    BY <2>2, <2>7, <2>8 DEF SameUses, Shared, Exclusive
  <2> QED
    BY <2>2, <2>8, <2>11, <2>12, <2>13
<1> QED
  BY <1>2, <1>3

-----------------------------------------------------------------------------
(* The walk of lookup_sub.                                                 *)

\* What leads to a path.
LEMMA PrefixUp ==
  ASSUME NEW a \in Path, NEW n \in 1..Len(a)
  PROVE  /\ SubSeq(a, 1, n) \in Path /\ Len(SubSeq(a, 1, n)) = n
         /\ \A i \in 1..n : SubSeq(a, 1, n)[i] = a[i]
         /\ SubSeq(a, 1, n) # Root /\ parent(SubSeq(a, 1, n)) = SubSeq(a, 1, n - 1)
<1>1. PICK b : b = SubSeq(a, 1, n)
  OBVIOUS
<1>2. PICK c : c = SubSeq(a, 1, n - 1)
  OBVIOUS
<1>0. a \in Seq(Names) /\ Len(a) \in Nat /\ \A i \in 1..Len(a) : a[i] \in Names
  BY DEF Path
<1>3. b \in Path /\ Len(b) = n /\ \A i \in 1..n : b[i] = a[i]
  <2>1. \A i \in 1..n : a[i] \in Names
    BY <1>0
  <2> QED
    BY <1>1, <2>1, SubSeqProperties DEF Path
<1>4. c \in Path /\ Len(c) = n - 1 /\ \A i \in 1..(n - 1) : c[i] = a[i]
  <2>1. \A i \in 1..(n - 1) : a[i] \in Names
    BY <1>0
  <2> QED
    BY <1>2, <2>1, SubSeqProperties DEF Path
<1>5. b # Root
  BY <1>3, RootIsPath
<1>6. parent(b) \in Path /\ Len(parent(b)) = n - 1 /\ \A i \in 1..(n - 1) : parent(b)[i] = b[i]
  BY <1>3, <1>5, PathUp
<1>7. parent(b) = c
  <2>1. PICK d : d = parent(b)
    OBVIOUS
  <2>2. d \in Seq(Names) /\ c \in Seq(Names) /\ Len(d) = Len(c) /\ \A i \in 1..Len(d) : d[i] = c[i]
    BY <1>3, <1>4, <1>6, <2>1 DEF Path
  <2> QED
    BY <2>1, <2>2, SeqEqual
<1> QED
  BY <1>1, <1>2, <1>3, <1>5, <1>7

\* What leads to a live a_inode is live.
LEMMA LineageLives ==
  ASSUME NEW u, Tree(u), Live(u) \subseteq Path, NEW a \in Live(u), NEW n \in 1..Len(a)
  PROVE  SubSeq(a, 1, n) \in Live(u)
<1>1. PICK m \in Nat : m = Len(a)
  BY DEF Path
<1> DEFINE B == {k \in 0..(m - 1) : SubSeq(a, 1, m - k) \notin Live(u)}
<1>2. B = {}
  <2> SUFFICES ASSUME B # {} PROVE FALSE
    OBVIOUS
  <2>0. B \subseteq Nat
    OBVIOUS
  <2>1. PICK k \in B : \A x \in B : k <= x
    BY <2>0, WellOrdered
  <2>2. k \in 0..(m - 1) /\ SubSeq(a, 1, m - k) \notin Live(u)
    OBVIOUS
  <2>3. k # 0
    <3>1. SubSeq(a, 1, m) = a
      BY <1>1, SubSeqFull DEF Path
    <3>2. ASSUME k = 0 PROVE FALSE
      <4>1. m - k = m
        BY <3>2
      <4> QED
        BY <2>2, <3>1, <4>1
    <3> QED
      BY <3>2
  <2>4. k - 1 \in 0..(m - 1) /\ ~(k <= k - 1)
    BY <2>2, <2>3
  <2>5. k - 1 \notin B
    <3> HIDE DEF B
    <3> QED
      BY <2>1, <2>4
  <2>6. PICK j \in 1..m : j = m - (k - 1)
    BY <2>2, <2>4
  <2>7. SubSeq(a, 1, j) \in Live(u)
    BY <2>4, <2>5, <2>6
  <2>8. SubSeq(a, 1, j) # Root /\ parent(SubSeq(a, 1, j)) = SubSeq(a, 1, j - 1)
    BY <1>1, PrefixUp
  <2>9. SubSeq(a, 1, j - 1) \in Live(u)
    <3>1. PICK b : b = SubSeq(a, 1, j)
      OBVIOUS
    <3>2. PICK c : c = SubSeq(a, 1, j - 1)
      OBVIOUS
    <3>3. b \in Live(u) \ {Root} /\ parent(b) = c
      BY <2>7, <2>8, <3>1, <3>2
    <3>4. c \in Live(u)
      BY <3>3 DEF Tree
    <3> QED
      BY <3>2, <3>4
  <2>10. j - 1 = m - k
    BY <2>2, <2>6
  <2> QED
    BY <2>2, <2>9, <2>10
<1>3. m - n \in 0..(m - 1) /\ m - (m - n) = n
  BY <1>1
<1>4. m - n \notin B
  BY <1>2
<1> QED
  BY <1>3, <1>4

\* What a look-up may change: the order of siblings.
Looked(u, v) ==
  /\ Live(v) = Live(u) /\ v.exkeys = u.exkeys /\ v.chained = u.chained
  /\ v.aino_cache_size = u.aino_cache_size
  /\ v.total_locked_ainos = u.total_locked_ainos /\ v.logged = u.logged
  /\ \A p \in Live(u) :
        /\ v.ino[p].dir = u.ino[p].dir /\ v.ino[p].real = u.ino[p].real
        /\ v.ino[p].shlock = u.ino[p].shlock /\ v.ino[p].elock = u.ino[p].elock
        /\ v.ino[p].locked_children = u.ino[p].locked_children
        /\ v.ino[p].exnext_count = u.ino[p].exnext_count
        /\ v.ino[p].unseen = u.ino[p].unseen
        /\ u.ino[p].exnext_count > 0 => v.ino[p].child = u.ino[p].child

\* The walk of lookup_sub, which reorders no directory being scanned.
LEMMA LookupKeeps ==
  ASSUME NEW u, Good(u), NEW a \in Live(u), NEW v, v = lookup_sub(u, a)
  PROVE  Good(v) /\ Looked(u, v)
<1>1. Typed(u) /\ Tree(u) /\ Chain(u) /\ Scans(u) /\ Totals(u) /\ Silent(u)
  BY DEF Good
<1>2. /\ u \in UnitSet /\ IsFiniteSet(Live(u)) /\ u.ino \in [Live(u) -> AinoSet]
      /\ Live(u) \in SUBSET Path
  BY <1>1, UnitType DEF Typed
<1> DEFINE Moves(p) == Len(p) < Len(a) /\ IsPrefix(p, a) /\ u.ino[p].locked_children = 0
           next(p) == SubSeq(a, 1, Len(p) + 1)
           n(p) == IF Moves(p) THEN [u.ino[p] EXCEPT !.child = ToFront(@, next(p))]
                   ELSE u.ino[p]
           f == [p \in Live(u) |-> n(p)]
<1>3. ASSUME NEW p \in Live(u), Moves(p)
      PROVE  next(p) \in ToSet(u.ino[p].child)
  <2>1. a \in Path /\ p \in Path /\ a \in Seq(Names) /\ p \in Seq(Names) /\ Len(a) \in Nat /\ Len(p) \in Nat
    BY <1>2 DEF Path
  <2>2. PICK k \in 1..Len(a) : k = Len(p) + 1
    BY <1>3, <2>1
  <2>3. next(p) \in Live(u)
    BY <1>1, <1>2, <2>2, LineageLives
  <2>4. next(p) # Root /\ parent(next(p)) = SubSeq(a, 1, Len(p))
    <3>1. k - 1 = Len(p)
      BY <2>1, <2>2
    <3> QED
      BY <2>1, <2>2, <3>1, PrefixUp
  <2>5. SubSeq(a, 1, Len(p)) = p
    <3>1. SubSeq(p, 1, Len(p)) = SubSeq(a, 1, Len(p))
      BY <1>3 DEF IsPrefix
    <3> QED
      BY <2>1, <3>1, SubSeqFull
  <2> QED
    BY <1>1, <2>3, <2>4, <2>5 DEF Tree
<1>4. ASSUME NEW p \in Live(u)
      PROVE  /\ n(p) \in AinoSet
             /\ n(p).dir = u.ino[p].dir /\ n(p).real = u.ino[p].real
             /\ n(p).shlock = u.ino[p].shlock /\ n(p).elock = u.ino[p].elock
             /\ n(p).locked_children = u.ino[p].locked_children
             /\ n(p).exnext_count = u.ino[p].exnext_count
             /\ n(p).unseen = u.ino[p].unseen
             /\ IsInjective(n(p).child) /\ Len(n(p).child) = Len(u.ino[p].child)
             /\ ToSet(n(p).child) = ToSet(u.ino[p].child)
             /\ u.ino[p].exnext_count > 0 => n(p).child = u.ino[p].child
  <2>1. PICK m \in AinoSet : m = u.ino[p]
    BY <1>2
  <2>2. PICK s \in Seq(Path) : s = m.child
    BY <1>2, <2>1, UnitType
  <2>3. IsInjective(s)
    BY <1>1, <2>1, <2>2 DEF Tree
  <2>4. CASE ~Moves(p)
    <3>1. n(p) = m
      BY <2>1, <2>4
    <3> QED
      BY <2>1, <2>2, <2>3, <3>1
  <2>5. CASE Moves(p)
    <3>1. PICK t : t = ToFront(s, next(p))
      OBVIOUS
    <3>2. t \in Seq(Path) /\ IsInjective(t) /\ ToSet(t) = ToSet(s) /\ Len(t) = Len(s)
      BY <1>3, <2>1, <2>2, <2>3, <2>5, <3>1, ToFrontIs
    <3>3. n(p) = [m EXCEPT !.child = t]
      BY <2>1, <2>2, <2>5, <3>1
    <3>4. [m EXCEPT !.child = t] \in AinoSet
      BY <3>2 DEF AinoSet
    <3>5. u.ino[p].exnext_count = 0
      <4>1. next(p) \in ToSet(s)
        BY <1>3, <2>1, <2>2, <2>5
      <4>2. Len(s) > 0
        BY <4>1 DEF ToSet
      <4>3. u.ino[p].locked_children = 0 /\ u.ino[p].exnext_count \in Nat
        BY <1>2, <2>5, UnitType
      <4> QED
        BY <1>1, <2>1, <2>2, <4>2, <4>3 DEF Scans
    <3> HIDE DEF n
    <3>6. /\ n(p).dir = m.dir /\ n(p).real = m.real
          /\ n(p).shlock = m.shlock /\ n(p).elock = m.elock
          /\ n(p).locked_children = m.locked_children
          /\ n(p).exnext_count = m.exnext_count
          /\ n(p).unseen = m.unseen
          /\ n(p).child = t
      BY <3>3 DEF AinoSet
    <3> QED
      BY <2>1, <2>2, <3>2, <3>3, <3>4, <3>5, <3>6
  <2> QED
    BY <2>4, <2>5
<1>5. v = [u EXCEPT !.ino = f]
  BY DEF lookup_sub
<1> HIDE DEF n, Moves, next
<1>6. f \in [Live(u) -> AinoSet]
  BY <1>4
<1>7. v \in UnitSet /\ Live(v) = Live(u) /\ v.ino = f
  BY <1>2, <1>5, <1>6, UnitOf
<1>8. \A p \in Live(u) : v.ino[p] = n(p)
  BY <1>7
<1>9. /\ v.exkeys = u.exkeys /\ v.chained = u.chained
      /\ v.aino_cache_size = u.aino_cache_size
      /\ v.total_locked_ainos = u.total_locked_ainos /\ v.logged = u.logged
  <2> HIDE DEF f
  <2> QED
    BY <1>2, <1>5 DEF UnitSet
<1> HIDE DEF f
<1>10. Looked(u, v)
  BY <1>4, <1>7, <1>8, <1>9 DEF Looked
<1>11. Dirs(v) = Dirs(u)
  BY <1>4, <1>7, <1>8 DEF Dirs
<1>12. Typed(v)
  BY <1>2, <1>7 DEF Typed
<1>13. Tree(v)
  <2>1. ASSUME NEW p \in Live(u), v.ino[p].child # <<>> PROVE v.ino[p].dir
    <3>1. v.ino[p].child \in Seq(Path) /\ u.ino[p].child \in Seq(Path)
      BY <1>2, <1>7, UnitType
    <3>2. Len(u.ino[p].child) # 0
      BY <1>4, <1>8, <2>1, <3>1, EmptySeq
    <3>3. u.ino[p].child # <<>>
      BY <3>2
    <3> QED
      BY <1>1, <1>4, <1>8, <3>3 DEF Tree
  <2>2. \A p \in Live(u) : IsInjective(v.ino[p].child)
    BY <1>4, <1>8
  <2>3. \A p \in Live(u) : ToSet(v.ino[p].child) = ToSet(u.ino[p].child)
    BY <1>4, <1>8
  <2> QED
    BY <1>1, <1>7, <1>11, <2>1, <2>2, <2>3 DEF Tree
<1>14. Chain(v)
  <2>1. \A b \in v.chained : ~InUse(v, b)
    BY <1>1, <1>9, <1>10 DEF Chain, InUse, Looked
  <2> QED
    BY <1>1, <1>7, <1>9, <1>11, <2>1 DEF Chain
<1>15. Scans(v)
  <2>2. ASSUME NEW p \in Live(v) \cap Live(u)
        PROVE  /\ v.ino[p].exnext_count = u.ino[p].exnext_count
               /\ u.ino[p].exnext_count = 0 => v.ino[p].locked_children = 0
               /\ u.ino[p].exnext_count > 0 => v.ino[p].child = u.ino[p].child
               /\ u.ino[p].exnext_count > 0 => v.ino[p].locked_children >= Len(v.ino[p].child)
    <3>1. /\ u.ino[p].exnext_count = 0 => u.ino[p].locked_children = 0
          /\ u.ino[p].exnext_count > 0 => u.ino[p].locked_children >= Len(u.ino[p].child)
      BY <1>1 DEF Scans
    <3> QED
      BY <1>10, <3>1 DEF Looked
  <2> QED
    BY <1>1, <1>7, <1>9, <1>11, <1>12, <2>2, ScansFrame
<1>16. Totals(v)
  <2>1. \A p \in Path : Locked(v, p) = Locked(u, p)
    BY <1>10, <1>11 DEF Locked, Dirs, Looked
  <2> QED
    BY <1>1, <1>9, <1>12, <2>1, TotalSame DEF Totals
<1> QED
  BY <1>1, <1>9, <1>10, <1>12, <1>13, <1>14, <1>15, <1>16 DEF Good, Silent

-----------------------------------------------------------------------------
(* New a_inodes.                                                           *)

\* A scan is not disturbed by a new first child.
LEMMA OnScanCons ==
  ASSUME NEW s, s \in Seq(Path), NEW k \in ExKeySet, NEW a \in Path, OnScan(s, k)
  PROVE  OnScan(<<a>> \o s, k)
<1>1. CASE k.curr_file = Nil /\ k.owed = {}
  BY <1>1 DEF OnScan
<1>2. CASE ~(k.curr_file = Nil /\ k.owed = {})
  <2>1. PICK n \in DOMAIN s : k.curr_file = s[n] /\ k.owed = {s[j] : j \in n..Len(s)}
    BY <1>2 DEF OnScan
  <2>2. PICK l \in Nat : l = Len(s)
    OBVIOUS
  <2>3. PICK t : t = <<a>> \o s
    OBVIOUS
  <2>4. t \in Seq(Path) /\ Len(t) = l + 1 /\ \A j \in 1..l : t[j + 1] = s[j]
    BY <2>2, <2>3, ConsIs
  <2>5. n \in 1..l /\ DOMAIN t = 1..(l + 1)
    BY <2>2, <2>4
  <2>6. n + 1 \in DOMAIN t /\ t[n + 1] = k.curr_file
    BY <2>1, <2>4, <2>5
  <2>7. {t[j] : j \in (n + 1)..(l + 1)} = {s[j] : j \in n..l}
    <3>1. ASSUME NEW j \in (n + 1)..(l + 1) PROVE t[j] \in {s[i] : i \in n..l}
      <4>1. j - 1 \in n..l /\ j - 1 \in 1..l /\ (j - 1) + 1 = j
        BY <2>5
      <4> QED
        BY <2>4, <4>1
    <3>2. ASSUME NEW j \in n..l PROVE s[j] \in {t[i] : i \in (n + 1)..(l + 1)}
      <4>1. j + 1 \in (n + 1)..(l + 1) /\ j \in 1..l
        BY <2>5
      <4> QED
        BY <2>4, <4>1
    <3> QED
      BY <3>1, <3>2
  <2>8. k.owed = {t[j] : j \in (n + 1)..Len(t)}
    BY <2>1, <2>2, <2>4, <2>7
  <2>9. OnScan(t, k)
    BY <2>6, <2>8 DEF OnScan
  <2> QED
    BY <2>3, <2>9
<1> QED
  BY <1>1, <1>2

\* A list with one more in front, named.
LEMMA OneMore ==
  ASSUME NEW r, r \in Seq(Path), NEW c \in Path, IsInjective(r), c \notin ToSet(r),
         NEW t, t = <<c>> \o r
  PROVE  /\ t \in Seq(Path) /\ Len(t) = Len(r) + 1 /\ ToSet(t) = ToSet(r) \cup {c}
         /\ IsInjective(t)
<1>1. t \in Seq(Path) /\ Len(t) = Len(r) + 1
  BY ConsIs
<1>2. IsInjective(t)
  BY ConsIs
<1>3. t[1] = c /\ \A j \in 1..Len(r) : t[j + 1] = r[j]
  BY ConsIs
<1>4. PICK n \in Nat : n = Len(r)
  OBVIOUS
<1>5. DOMAIN t = 1..(n + 1) /\ DOMAIN r = 1..n
  BY <1>1, <1>4
<1>6. ASSUME NEW x \in ToSet(t) PROVE x \in ToSet(r) \cup {c}
  <2>1. PICK i \in 1..(n + 1) : x = t[i]
    BY <1>5 DEF ToSet
  <2>2. CASE i = 1
    BY <1>3, <2>1, <2>2
  <2>3. CASE i # 1
    <3>1. i - 1 \in 1..n /\ (i - 1) + 1 = i
      BY <2>3
    <3>2. t[i] = r[i - 1]
      BY <1>3, <1>4, <3>1
    <3> QED
      BY <1>5, <2>1, <3>1, <3>2 DEF ToSet
  <2> QED
    BY <2>2, <2>3
<1>7. ASSUME NEW x \in ToSet(r) PROVE x \in ToSet(t)
  <2>1. PICK i \in 1..n : x = r[i]
    BY <1>5 DEF ToSet
  <2>2. i + 1 \in 1..(n + 1) /\ t[i + 1] = x
    BY <1>3, <1>4, <2>1
  <2> QED
    BY <1>5, <2>2 DEF ToSet
<1>8. c \in ToSet(t)
  <2>1. 1 \in 1..(n + 1)
    OBVIOUS
  <2> QED
    BY <1>3, <1>5, <2>1 DEF ToSet
<1> QED
  BY <1>1, <1>2, <1>6, <1>7, <1>8

\* v is u with the a_inode n at a, a new child of base.
OneChildMore(u, v, base, a, n) ==
  /\ Live(v) = Live(u) \cup {a} /\ v.ino[a] = n
  /\ \A p \in Live(u) :
        /\ v.ino[p].dir = u.ino[p].dir /\ v.ino[p].real = u.ino[p].real
        /\ v.ino[p].shlock = u.ino[p].shlock /\ v.ino[p].elock = u.ino[p].elock
        /\ v.ino[p].exnext_count = u.ino[p].exnext_count
        /\ p # base => v.ino[p] = u.ino[p]
  /\ v.exkeys = u.exkeys /\ v.chained = u.chained
  /\ CacheFull(v) => CacheFull(u)

\* init_child_aino: a new a_inode, counted if its directory is being scanned.
LEMMA InitChildKeeps ==
  ASSUME NEW u, Good(u), NEW base \in Dirs(u), NEW name \in Names,
         NEW a, a = Append(base, name), a \notin Live(u),
         NEW dir \in BOOLEAN, NEW real \in BOOLEAN,
         NEW v, v = init_child_aino(u, base, a, dir, real)
  PROVE  Good(v) /\ SameUses(u, v) /\ OneChildMore(u, v, base, a, Aino(dir, real))
<1>1. Typed(u) /\ Tree(u) /\ Chain(u) /\ Scans(u) /\ Totals(u) /\ Silent(u)
  BY DEF Good
<1>2. /\ u \in UnitSet /\ IsFiniteSet(Live(u)) /\ u.ino \in [Live(u) -> AinoSet]
      /\ Live(u) \in SUBSET Path
  BY <1>1, UnitType DEF Typed
<1>3. base \in Live(u) /\ base \in Path /\ u.ino[base].dir
  BY <1>2 DEF Dirs
<1>4. a \in Path /\ a # Root /\ parent(a) = base /\ a # base
  BY <1>3, PathDown
<1>5. PICK one \in {0, 1} : one = IF u.ino[base].exnext_count > 0 THEN 1 ELSE 0
  OBVIOUS
<1>6. PICK m \in AinoSet : m = u.ino[base]
  BY <1>2, <1>3
<1>7. PICK s \in Seq(Path) : s = m.child
  BY DEF AinoSet
<1>8. PICK t : t = <<a>> \o s
  OBVIOUS
<1>9. a \notin ToSet(s) /\ IsInjective(s)
  BY <1>1, <1>3, <1>6, <1>7 DEF Tree
<1>10. /\ t \in Seq(Path) /\ Len(t) = Len(s) + 1 /\ ToSet(t) = ToSet(s) \cup {a}
       /\ IsInjective(t)
  <2>1. a \in Path
    BY <1>4
  <2> QED
    BY <1>8, <1>9, <2>1, OneMore
<1>11. PICK l \in Nat : l = m.locked_children + one
  BY DEF AinoSet
<1>12. PICK b : b = [m EXCEPT !.child = t, !.locked_children = l]
  OBVIOUS
<1>13. /\ b \in AinoSet /\ b.child = t /\ b.locked_children = l
       /\ b.dir = m.dir /\ b.real = m.real /\ b.shlock = m.shlock /\ b.elock = m.elock
       /\ b.exnext_count = m.exnext_count
  BY <1>10, <1>12 DEF AinoSet
<1>14. PICK z : z = Aino(dir, real)
  OBVIOUS
<1>15. /\ z \in AinoSet /\ z.child = <<>> /\ z.locked_children = 0 /\ z.exnext_count = 0
       /\ z.shlock = 0 /\ z.elock = FALSE /\ z.dir = dir /\ z.real = real
  <2>1. z.child = <<>> /\ z.locked_children = 0 /\ z.exnext_count = 0
       /\ z.shlock = 0 /\ z.elock = FALSE /\ z.dir = dir /\ z.real = real
    BY <1>14 DEF Aino
  <2>2. PICK e \in Seq(Path) : e = <<>>
    BY EmptySeq
  <2>3. z = [dir |-> dir, child |-> e, shlock |-> 0, elock |-> FALSE,
     locked_children |-> 0, exnext_count |-> 0, real |-> real, unseen |-> {}]
    BY <1>14, <2>2 DEF Aino
  <2>4. z \in AinoSet
    BY <2>3 DEF AinoSet
  <2> QED
    BY <2>1, <2>4
<1> DEFINE f == [p \in Live(u) \cup {a} |-> IF p = a THEN z ELSE IF p = base THEN b ELSE u.ino[p]]
<1>16. PICK y \in Int : y = u.total_locked_ainos + one
  BY <1>2 DEF UnitSet
<1>17. v = [u EXCEPT !.ino = f, !.total_locked_ainos = y]
  <2>1. b = [u.ino[base] EXCEPT !.child = <<a>> \o @, !.locked_children = @ + one]
    BY <1>6, <1>7, <1>8, <1>11, <1>12
  <2> QED
    BY <1>5, <1>14, <1>16, <2>1 DEF init_child_aino
<1>18. f \in [Live(u) \cup {a} -> AinoSet] /\ Live(u) \cup {a} \in SUBSET Path
  BY <1>2, <1>4, <1>13, <1>15
<1>19. f[a] = z /\ f[base] = b /\ \A p \in Live(u) : p # base => f[p] = u.ino[p]
  BY <1>3, <1>4
<1> HIDE DEF f
<1>20. /\ v \in UnitSet /\ v.ino = f /\ v.chained = u.chained
       /\ v.aino_cache_size = u.aino_cache_size
       /\ v.exkeys = u.exkeys /\ v.total_locked_ainos = y
       /\ v.logged = u.logged
  <2>1. f \in InoSet
    BY <1>18 DEF InoSet
  <2> QED
    BY <1>2, <1>17, <2>1 DEF UnitSet
<1>21. Live(v) = Live(u) \cup {a}
  BY <1>18, <1>20 DEF Live
<1>22. ASSUME NEW p \in Live(u)
       PROVE  /\ v.ino[p].dir = u.ino[p].dir /\ v.ino[p].real = u.ino[p].real
              /\ v.ino[p].shlock = u.ino[p].shlock /\ v.ino[p].elock = u.ino[p].elock
              /\ v.ino[p].exnext_count = u.ino[p].exnext_count
              /\ p # base => v.ino[p] = u.ino[p]
  <2>1. CASE p = base
    BY <1>6, <1>13, <1>19, <1>20, <2>1
  <2>2. CASE p # base
    BY <1>19, <1>20, <2>2
  <2> QED
    BY <2>1, <2>2
<1>23. Typed(v)
  <2>1. IsFiniteSet(Live(u) \cup {a})
    BY <1>2, FS_AddElement
  <2> QED
    BY <1>20, <1>21, <2>1 DEF Typed
<1>24. Dirs(v) = Dirs(u) \cup (IF dir THEN {a} ELSE {})
  <2>1. v.ino[a].dir = dir
    BY <1>15, <1>19, <1>20
  <2> QED
    BY <1>21, <1>22, <2>1 DEF Dirs
<1>25. Tree(v)
  <2>1. Root \in Dirs(v)
    BY <1>1, <1>24 DEF Tree
  <2>2. ASSUME NEW c \in Live(v) \ {Root} PROVE parent(c) \in Live(v)
    BY <1>1, <1>3, <1>4, <1>21 DEF Tree
  <2>3. \A c \in Live(u) \ {Root} : parent(c) # a
    BY <1>1 DEF Tree
  <2>4. ASSUME NEW p \in Live(v)
        PROVE  /\ IsInjective(v.ino[p].child)
               /\ ToSet(v.ino[p].child) = {c \in Live(v) \ {Root} : parent(c) = p}
               /\ v.ino[p].child # <<>> => v.ino[p].dir
    <3>1. CASE p = a
      <4>1. v.ino[p].child = <<>>
        BY <1>15, <1>19, <1>20, <3>1
      <4>2. ToSet(v.ino[p].child) = {} /\ IsInjective(v.ino[p].child)
        BY <4>1 DEF ToSet, IsInjective
      <4>3. {c \in Live(v) \ {Root} : parent(c) = p} = {}
        BY <1>4, <1>21, <2>3, <3>1
      <4> QED
        BY <4>1, <4>2, <4>3
    <3>2. CASE p = base
      <4>1. v.ino[p].child = t /\ v.ino[p].dir
        BY <1>3, <1>6, <1>13, <1>19, <1>20, <3>2
      <4>2. ToSet(s) = {c \in Live(u) \ {Root} : parent(c) = p}
        BY <1>1, <1>3, <1>6, <1>7, <3>2 DEF Tree
      <4> QED
        BY <1>4, <1>10, <1>21, <3>2, <4>1, <4>2
    <3>3. CASE p # a /\ p # base
      <4>1. p \in Live(u) /\ v.ino[p] = u.ino[p]
        BY <1>21, <1>22, <3>3
      <4>2. {c \in Live(v) \ {Root} : parent(c) = p} = {c \in Live(u) \ {Root} : parent(c) = p}
        BY <1>4, <1>21, <3>3
      <4> QED
        BY <1>1, <4>1, <4>2 DEF Tree
    <3> QED
      BY <3>1, <3>2, <3>3
  <2> QED
    BY <2>1, <2>2, <2>4 DEF Tree
<1>26. Chain(v)
  <2>1. v.chained \subseteq Live(v) \ Dirs(v)
    BY <1>1, <1>20, <1>21, <1>24 DEF Chain
  <2>2. ASSUME NEW c \in v.chained PROVE ~InUse(v, c)
    <3>1. c \in Live(u) /\ ~InUse(u, c)
      BY <1>1, <1>20 DEF Chain
    <3> QED
      BY <1>22, <3>1 DEF InUse
  <2> QED
    BY <1>1, <1>20, <2>1, <2>2 DEF Chain
<1>27. Scans(v)
  <2>1. \A p \in Live(v) \ Live(u) :
             v.ino[p].exnext_count = 0 /\ v.ino[p].locked_children = 0
    BY <1>15, <1>19, <1>20, <1>21
  <2>2. ASSUME NEW p \in Live(v) \cap Live(u)
        PROVE  /\ v.ino[p].exnext_count = u.ino[p].exnext_count
               /\ u.ino[p].exnext_count = 0 => v.ino[p].locked_children = 0
               /\ u.ino[p].exnext_count > 0 => v.ino[p].locked_children >= Len(v.ino[p].child)
               /\ \A k \in ExKeySet : OnScan(u.ino[p].child, k) => OnScan(v.ino[p].child, k)
    <3>1. /\ u.ino[p].exnext_count = 0 => u.ino[p].locked_children = 0
          /\ u.ino[p].exnext_count > 0 => u.ino[p].locked_children >= Len(u.ino[p].child)
          /\ u.ino[p].exnext_count \in Nat
      BY <1>1, <1>2, UnitType DEF Scans
    <3>2. CASE p # base
      BY <1>22, <3>1, <3>2
    <3>3. CASE p = base
      <4>1. v.ino[p].child = t /\ v.ino[p].locked_children = l /\ u.ino[p] = m
              /\ v.ino[p].exnext_count = m.exnext_count
        BY <1>6, <1>13, <1>19, <1>20, <3>3
      <4>2. \A k \in ExKeySet : OnScan(s, k) => OnScan(t, k)
        BY <1>4, <1>8, OnScanCons
      <4>3. m.locked_children \in Nat /\ Len(s) \in Nat
        BY DEF AinoSet
      <4> QED
        BY <1>5, <1>7, <1>10, <1>11, <3>1, <3>3, <4>1, <4>2, <4>3
    <3> QED
      BY <3>2, <3>3
  <2>3. Dirs(u) \subseteq Dirs(v)
    BY <1>24
  <2> QED
    BY <1>1, <1>20, <1>23, <2>1, <2>2, <2>3, ScansFrame
<1>28. Totals(v)
  <2>1. ASSUME NEW p \in Path, p # base PROVE Locked(v, p) = Locked(u, p)
    <3>1. CASE p = a
      <4>1. Locked(u, p) = 0
        BY <3>1 DEF Locked, Dirs
      <4>2. v.ino[a].locked_children = 0
        BY <1>15, <1>19, <1>20
      <4> QED
        BY <3>1, <4>1, <4>2 DEF Locked
    <3>2. CASE p # a
      <4>1. p \in Dirs(v) <=> p \in Dirs(u)
        BY <1>24, <3>2
      <4>2. p \in Dirs(u) => v.ino[p] = u.ino[p]
        BY <1>22, <2>1 DEF Dirs
      <4> QED
        BY <4>1, <4>2 DEF Locked
    <3> QED
      BY <3>1, <3>2
  <2>2. Locked(u, base) = m.locked_children /\ Locked(v, base) = l
    BY <1>6, <1>13, <1>19, <1>20, <1>24 DEF Locked
  <2>3. Cardinality(Counted(v)) = Cardinality(Counted(u)) - Locked(u, base) + Locked(v, base)
    BY <1>1, <1>3, <1>23, <2>1, TotalChange
  <2>4. Cardinality(Counted(u)) \in Nat /\ m.locked_children \in Nat
    BY <1>1, CountedIs DEF AinoSet
  <2> QED
    BY <1>1, <1>11, <1>16, <1>20, <2>2, <2>3, <2>4 DEF Totals
<1>29. SameUses(u, v)
  <2> SUFFICES ASSUME NEW c \in Path
               PROVE  Shared(v, c) = Shared(u, c) /\ Exclusive(v, c) = Exclusive(u, c)
    BY DEF SameUses
  <2>1. CASE c \in Live(u)
    BY <1>21, <1>22, <2>1 DEF Shared, Exclusive
  <2>2. CASE c = a
    BY <1>15, <1>19, <1>20, <2>2 DEF Shared, Exclusive
  <2>3. CASE c \notin Live(u) /\ c # a
    BY <1>21, <2>3 DEF Shared, Exclusive
  <2> QED
    BY <2>1, <2>2, <2>3
<1>30. CacheFull(v) => CacheFull(u)
  <2>1. u.total_locked_ainos \in Int /\ u.aino_cache_size \in Int
    BY <1>2 DEF UnitSet
  <2> QED
    BY <1>5, <1>16, <1>20, <2>1, CacheAssumption DEF CacheFull
<1>31. Good(v)
  BY <1>1, <1>20, <1>23, <1>25, <1>26, <1>27, <1>28 DEF Good, Silent
<1> QED
  BY <1>14, <1>19, <1>20, <1>21, <1>22, <1>29, <1>30, <1>31 DEF OneChildMore

\* What a packet's look-ups keep: uses, directories and scans.
Grown(u, v) ==
  /\ Good(v) /\ SameUses(u, v) /\ Dirs(u) \subseteq Dirs(v) /\ v.exkeys = u.exkeys
  /\ \A p \in Dirs(u) : v.ino[p].exnext_count = u.ino[p].exnext_count

\* An a_inode without children, users or scans.
Fresh(v, a, dir, real) ==
  /\ a \in Live(v) /\ v.ino[a].dir = dir /\ v.ino[a].real = real /\ v.ino[a].child = <<>>
  /\ v.ino[a].shlock = 0 /\ v.ino[a].elock = FALSE
  /\ v.ino[a].locked_children = 0 /\ v.ino[a].exnext_count = 0

\* What a new a_inode a does to those there are: some may have been reaped.
Others(u, v, a) ==
  /\ Live(v) \subseteq Live(u) \cup {a}
  /\ ~CacheFull(u) => Live(u) \subseteq Live(v)
  /\ \A p \in Live(u) \cap Live(v) :
        /\ v.ino[p].dir = u.ino[p].dir /\ v.ino[p].real = u.ino[p].real
        /\ v.ino[p].shlock = u.ino[p].shlock /\ v.ino[p].elock = u.ino[p].elock
        /\ v.ino[p].exnext_count = u.ino[p].exnext_count

\* Where a new child is.
ChildPath(base, name) == Append(base, name)

\* new_child_aino, which may recycle the new file and reap others, but not it.
LEMMA NewChildKeeps ==
  ASSUME NEW u, Good(u), NEW base \in Dirs(u), NEW name \in Names,
         NEW a, a = ChildPath(base, name), a \notin Live(u),
         NEW dir \in BOOLEAN, NEW real \in BOOLEAN,
         NEW s \in new_child_aino(u, base, name, dir, real)
  PROVE  /\ s[2] = a /\ Grown(u, s[1]) /\ Fresh(s[1], a, dir, real)
         /\ Others(u, s[1], a)
<1> USE DEF ChildPath
<1>1. PICK w : w = init_child_aino(u, base, a, dir, real)
  OBVIOUS
<1>2. PICK v \in recycle_aino(w, a) : s = <<v, a>>
  BY <1>1 DEF new_child_aino
<1>0. Good(w) /\ SameUses(u, w) /\ OneChildMore(u, w, base, a, Aino(dir, real))
  BY <1>1, InitChildKeeps
<1>3. /\ Live(w) = Live(u) \cup {a} /\ w.ino[a] = Aino(dir, real)
      /\ \A p \in Live(u) :
            /\ w.ino[p].dir = u.ino[p].dir /\ w.ino[p].real = u.ino[p].real
            /\ w.ino[p].shlock = u.ino[p].shlock /\ w.ino[p].elock = u.ino[p].elock
            /\ w.ino[p].exnext_count = u.ino[p].exnext_count
      /\ w.exkeys = u.exkeys /\ w.chained = u.chained
      /\ CacheFull(w) => CacheFull(u)
  BY <1>0 DEF OneChildMore
<1>4. a \in Live(w) /\ a \notin w.chained
  <2>1. u.chained \subseteq Live(u)
    BY DEF Good, Chain
  <2> QED
    BY <1>3, <2>1
<1>5. /\ Good(v) /\ Thinned(w, v) /\ SameUses(w, v) /\ Dirs(v) = Dirs(w)
      /\ ~CacheFull(w) => Live(v) = Live(w)
  BY <1>0, <1>2, <1>4, RecycleKeeps
<1>6. SameUses(u, v)
  BY <1>0, <1>5 DEF SameUses
<1>7. a \in Live(v) /\ Live(v) \subseteq Live(u) \cup {a}
  BY <1>3, <1>4, <1>5 DEF Thinned
<1>8. Dirs(u) \subseteq Dirs(v)
  <2>1. Dirs(u) \subseteq Dirs(w)
    BY <1>3 DEF Dirs
  <2> QED
    BY <1>5, <2>1
<1>9. \A p \in Live(u) \cap Live(v) :
         /\ v.ino[p].dir = u.ino[p].dir /\ v.ino[p].real = u.ino[p].real
         /\ v.ino[p].shlock = u.ino[p].shlock /\ v.ino[p].elock = u.ino[p].elock
         /\ v.ino[p].exnext_count = u.ino[p].exnext_count
  BY <1>3, <1>5 DEF Thinned
<1>10. Fresh(v, a, dir, real)
  <2>1. PICK z : z = w.ino[a]
    OBVIOUS
  <2>2. /\ z.child = <<>> /\ z.locked_children = 0 /\ z.exnext_count = 0
        /\ z.shlock = 0 /\ z.elock = FALSE /\ z.dir = dir /\ z.real = real
    BY <1>3, <2>1 DEF Aino
  <2>3. /\ v.ino[a].dir = z.dir /\ v.ino[a].real = z.real
        /\ v.ino[a].shlock = z.shlock /\ v.ino[a].elock = z.elock
        /\ v.ino[a].locked_children = z.locked_children
        /\ v.ino[a].exnext_count = z.exnext_count
        /\ z.child = <<>> => v.ino[a].child = <<>>
    BY <1>5, <1>7, <2>1 DEF Thinned
  <2> QED
    BY <1>7, <2>2, <2>3 DEF Fresh
<1>11. v.exkeys = u.exkeys
  BY <1>3, <1>5 DEF Thinned
<1>12. Grown(u, v)
  <2>1. \A p \in Dirs(u) : v.ino[p].exnext_count = u.ino[p].exnext_count
    BY <1>8, <1>9 DEF Dirs
  <2> QED
    BY <1>5, <1>6, <1>8, <1>11, <2>1 DEF Grown
<1>13. s[1] = v /\ s[2] = a
  BY <1>2
<1>14. ~CacheFull(u) => Live(u) \subseteq Live(v)
  BY <1>3, <1>5
<1> QED
  BY <1>7, <1>9, <1>10, <1>12, <1>13, <1>14 DEF Others

\* Two changes of that kind are one.
LEMMA GrownAgain ==
  ASSUME NEW u, NEW v, NEW w, Grown(u, v), Grown(v, w)
  PROVE  Grown(u, w)
<1>1. SameUses(u, w)
  BY DEF Grown, SameUses
<1> QED
  BY <1>1 DEF Grown

\* The walk is such a change.
LEMMA LookedIsGrown ==
  ASSUME NEW u, NEW v, Good(v), Looked(u, v)
  PROVE  Grown(u, v) /\ Dirs(v) = Dirs(u) /\ Live(v) = Live(u)
<1>1. Dirs(v) = Dirs(u) /\ Live(v) = Live(u)
  BY DEF Looked, Dirs
<1>2. SameUses(u, v)
  BY <1>1 DEF Looked, SameUses, Shared, Exclusive
<1>3. \A p \in Dirs(u) : v.ino[p].exnext_count = u.ino[p].exnext_count
  BY DEF Looked, Dirs
<1> QED
  BY <1>1, <1>2, <1>3 DEF Looked, Grown

\* lookup_child_aino finds a child of base, makes the one of an unseen host
\* object, or finds nothing.
LEMMA LookupChildKeeps ==
  ASSUME NEW u, Good(u), NEW base \in Dirs(u), NEW name \in Names,
         NEW r \in lookup_child_aino(u, base, name)
  PROVE  /\ Grown(u, r[1])
         /\ \/ r[2] = Nil /\ r[1] = u /\ ChildPath(base, name) \notin Live(u)
            \/ r[2] = ChildPath(base, name) /\ r[2] \in Live(r[1]) \ {Root}
<1>1. Typed(u) /\ Tree(u) /\ Chain(u) /\ Scans(u) /\ Totals(u) /\ Silent(u)
  BY DEF Good
<1>2. /\ u \in UnitSet /\ IsFiniteSet(Live(u)) /\ u.ino \in [Live(u) -> AinoSet]
      /\ Live(u) \in SUBSET Path
  BY <1>1, UnitType DEF Typed
<1>3. base \in Live(u) /\ base \in Path /\ u.ino[base].dir
  BY <1>2 DEF Dirs
<1>4. PICK a \in Path : a = Append(base, name)
  BY <1>3, PathDown
<1>4a. a = ChildPath(base, name)
  BY <1>4 DEF ChildPath
<1>5. a # Root /\ parent(a) = base /\ aname(a) = name
  BY <1>3, <1>4, PathDown
<1>6. ToSet(u.ino[base].child) = {c \in Live(u) \ {Root} : parent(c) = base}
  BY <1>1, <1>3 DEF Tree
<1> DEFINE named == {c \in ToSet(u.ino[base].child) : aname(c) = name}
           host == {o \in u.ino[base].unseen : o[1] = name}
<1>7. named = IF a \in Live(u) THEN {a} ELSE {}
  <2>1. ASSUME NEW c \in named PROVE c = a /\ c \in Live(u)
    <3>1. c \in Path /\ c # Root /\ parent(c) = base /\ aname(c) = name /\ c \in Live(u)
      BY <1>2, <1>6
    <3>2. Append(parent(c), aname(c)) = c
      BY <3>1, PathUp
    <3> QED
      BY <1>4, <3>1, <3>2
  <2>2. a \in Live(u) => a \in named
    BY <1>5, <1>6
  <2> QED
    BY <2>1, <2>2
<1>8. r \in IF named # {} THEN {<<u, c>> : c \in named}
            ELSE IF host = {} THEN {<<u, Nil>>}
            ELSE UNION {new_child_aino([u EXCEPT !.ino[base].unseen = @ \ {o}],
                                       base, o[1], o[2], TRUE) : o \in host}
  BY DEF lookup_child_aino
<1>9. Grown(u, u)
  BY DEF Grown, SameUses
<1>10. CASE named # {}
  <2>1. r = <<u, a>> /\ a \in Live(u)
    BY <1>7, <1>8, <1>10
  <2>2. r[1] = u /\ r[2] = a
    BY <2>1
  <2> QED
    BY <1>4a, <1>5, <1>9, <2>1, <2>2
<1>11. CASE named = {} /\ host = {}
  <2>1. r = <<u, Nil>> /\ a \notin Live(u)
    BY <1>7, <1>8, <1>11
  <2>2. r[1] = u /\ r[2] = Nil
    BY <2>1
  <2> QED
    BY <1>4a, <1>9, <2>1, <2>2
<1>12. CASE named = {} /\ host # {}
  <2>1. PICK o \in host : r \in new_child_aino([u EXCEPT !.ino[base].unseen = @ \ {o}],
                                       base, o[1], o[2], TRUE)
    BY <1>8, <1>12
  <2>2. PICK m \in AinoSet : m = u.ino[base]
    BY <1>2, <1>3
  <2>3. PICK x \in SUBSET (Names \X BOOLEAN) : x = m.unseen \ {o}
    <3>1. m.unseen \ {o} \in SUBSET (Names \X BOOLEAN)
      BY DEF AinoSet
    <3> QED
      BY <3>1
  <2>4. o[1] = name /\ o[2] \in BOOLEAN
    <3>1. o \in m.unseen /\ o[1] = name
      BY <2>1, <2>2
    <3>2. o \in Names \X BOOLEAN
      BY <3>1 DEF AinoSet
    <3> QED
      BY <3>1, <3>2
  <2>5. PICK n : n = [m EXCEPT !.unseen = x]
    OBVIOUS
  <2>6. /\ n \in AinoSet /\ n.dir = m.dir /\ n.child = m.child /\ n.shlock = m.shlock
        /\ n.elock = m.elock /\ n.locked_children = m.locked_children
        /\ n.exnext_count = m.exnext_count
    BY <2>5 DEF AinoSet
  <2> DEFINE f == [u.ino EXCEPT ![base] = n]
             v == [u EXCEPT !.ino = f]
  <2>7. v = [u EXCEPT !.ino[base].unseen = @ \ {o}]
    BY <1>2, <1>3, <2>2, <2>3, <2>5 DEF UnitSet
  <2>8. f \in [Live(u) -> AinoSet] /\ f[base] = n /\ \A p \in Live(u) : p # base => f[p] = u.ino[p]
    BY <1>2, <1>3, <2>6
  <2> HIDE DEF f
  <2>9. v \in UnitSet /\ Live(v) = Live(u) /\ v.ino = f
    BY <1>2, <2>8, UnitOf
  <2>10. /\ v.exkeys = u.exkeys /\ v.total_locked_ainos = u.total_locked_ainos
         /\ v.logged = u.logged /\ v.chained = u.chained
         /\ v.aino_cache_size = u.aino_cache_size
    BY <1>2 DEF UnitSet
  <2> HIDE DEF v
  <2>11. \A p \in Live(u) : /\ v.ino[p].dir = u.ino[p].dir
                            /\ v.ino[p].child = u.ino[p].child
                            /\ v.ino[p].shlock = u.ino[p].shlock
                            /\ v.ino[p].elock = u.ino[p].elock
                            /\ v.ino[p].locked_children = u.ino[p].locked_children
                            /\ v.ino[p].exnext_count = u.ino[p].exnext_count
    BY <2>2, <2>6, <2>8, <2>9
  <2>12. Dirs(v) = Dirs(u)
    BY <2>9, <2>11 DEF Dirs
  <2>13. Chain(v)
    <3>1. v.chained \subseteq Live(v) \ Dirs(v) /\ v.aino_cache_size = Cardinality(v.chained)
      BY <1>1, <2>9, <2>10, <2>12 DEF Chain
    <3>2. ASSUME NEW c \in v.chained PROVE ~InUse(v, c)
      <4>1. c \in Live(u) /\ ~InUse(u, c)
        BY <1>1, <2>10 DEF Chain
      <4> QED
        BY <2>11, <4>1 DEF InUse
    <3> QED
      BY <3>1, <3>2 DEF Chain
  <2>14. Good(v)
    BY <2>9, <2>10, <2>11, <2>13, GoodFrame
  <2>15. SameUses(u, v)
    BY <2>9, <2>11 DEF SameUses, Shared, Exclusive
  <2>16. Grown(u, v)
    <3>1. \A p \in Dirs(u) : v.ino[p].exnext_count = u.ino[p].exnext_count
      BY <2>11 DEF Dirs
    <3> QED
      BY <2>10, <2>12, <2>14, <2>15, <3>1 DEF Grown
  <2>17. base \in Dirs(v) /\ a \notin Live(v)
    BY <1>7, <1>12, <2>9, <2>12
  <2>18. r \in new_child_aino(v, base, name, o[2], TRUE)
    BY <2>1, <2>4, <2>7
  <2>19. r[2] = a /\ Grown(v, r[1]) /\ Fresh(r[1], a, o[2], TRUE)
    <3>1. PICK b \in BOOLEAN : b = o[2]
      BY <2>4
    <3>2. PICK y \in BOOLEAN : y = TRUE
      OBVIOUS
    <3>4. r \in new_child_aino(v, base, name, b, y)
      BY <2>18, <3>1, <3>2
    <3>3. r[2] = a /\ Grown(v, r[1]) /\ Fresh(r[1], a, b, y)
      BY <1>4a, <2>14, <2>17, <3>4, NewChildKeeps
    <3> QED
      BY <3>1, <3>2, <3>3
  <2>20. Grown(u, r[1])
    BY <2>16, <2>19, GrownAgain
  <2>21. a \in Live(r[1])
    BY <2>19 DEF Fresh
  <2> QED
    BY <1>4a, <1>5, <2>19, <2>20, <2>21
<1> QED
  BY <1>10, <1>11, <1>12

\* The first look-up of a packet.
LEMMA FoundIs ==
  ASSUME Good(unit), NEW u \in Found
  PROVE  Good(u) /\ Looked(unit, u)
<1>1. Good(unit) /\ Looked(unit, unit)
  BY DEF Looked
<1>2. CASE u # unit
  <2>1. PICK q \in BagToSet(locks) \cap Live(unit) : u \in lookup_aino(unit, q)
    BY <1>2 DEF Found
  <2>2. u = lookup_sub(unit, q)
    BY <1>2, <2>1 DEF lookup_aino
  <2> QED
    BY <2>1, <2>2, LookupKeeps
<1> QED
  BY <1>1, <1>2

\* lookup_aino, by the hash or by the walk.
LEMMA LookupIs ==
  ASSUME NEW u, Good(u), NEW a \in Live(u), NEW v \in lookup_aino(u, a)
  PROVE  Good(v) /\ Looked(u, v)
<1>1. Looked(u, u)
  BY DEF Looked
<1> QED
  BY <1>1, LookupKeeps DEF lookup_aino

\* Looking up the object a packet names: what is found is the path asked for.
LEMMA ReachedIs ==
  ASSUME Good(unit), NEW d \in Dirs(unit), NEW name \in Names, NEW r \in Reached(d, name)
  PROVE  /\ Grown(unit, r[1]) /\ d \in Dirs(r[1])
         /\ \/ r[2] = Nil /\ ChildPath(d, name) \notin Live(r[1])
            \/ r[2] = ChildPath(d, name) /\ r[2] \in Live(r[1]) \ {Root}
<1>1. PICK u \in Found : r \in lookup_child_aino(u, d, name)
  BY DEF Reached
<1>2. Good(u) /\ Looked(unit, u)
  BY FoundIs
<1>3. Grown(unit, u) /\ d \in Dirs(u)
  BY <1>2, LookedIsGrown
<1>4. /\ Grown(u, r[1])
      /\ \/ r[2] = Nil /\ r[1] = u /\ ChildPath(d, name) \notin Live(u)
         \/ r[2] = ChildPath(d, name) /\ r[2] \in Live(r[1]) \ {Root}
  BY <1>1, <1>2, <1>3, LookupChildKeeps
<1>5. Grown(unit, r[1])
  BY <1>3, <1>4, GrownAgain
<1>6. d \in Dirs(r[1])
  BY <1>3, <1>4 DEF Grown
<1> QED
  BY <1>4, <1>5, <1>6

-----------------------------------------------------------------------------
(* Scans.                                                                  *)

\* v differs from u in the ExKeys, and in what is counted of d.
Rekeyed(u, v, d) ==
  /\ v \in UnitSet /\ Live(v) = Live(u) /\ v.chained = u.chained
  /\ v.aino_cache_size = u.aino_cache_size /\ v.logged = u.logged
  /\ \A p \in Live(u) :
        /\ v.ino[p].dir = u.ino[p].dir /\ v.ino[p].child = u.ino[p].child
        /\ v.ino[p].shlock = u.ino[p].shlock /\ v.ino[p].elock = u.ino[p].elock
        /\ p # d => /\ v.ino[p].locked_children = u.ino[p].locked_children
                    /\ v.ino[p].exnext_count = u.ino[p].exnext_count

\* The ExKeys s are of directories of u, and each is where it should be.
KeysFit(u, s) ==
  \A i \in DOMAIN s : s[i].aino \in Dirs(u) /\ OnScan(u.ino[s[i].aino].child, s[i])

\* What is counted of d is right.
CountFits(v, d) ==
  /\ v.ino[d].exnext_count = CountOf(v.exkeys, d)
  /\ v.ino[d].exnext_count = 0 => v.ino[d].locked_children = 0
  /\ v.ino[d].exnext_count > 0 => v.ino[d].locked_children >= Len(v.ino[d].child)

\* A Unit with another record for the directory d, other ExKeys and total.
Rekey(u, d, n, ks, t) == [u EXCEPT !.ino[d] = n, !.exkeys = ks, !.total_locked_ainos = t]

\* A change of one directory, the ExKeys and the total is one of those.
LEMMA RekeyedBy ==
  ASSUME NEW u, u \in UnitSet, NEW d \in Live(u), NEW n \in AinoSet,
         n.dir = u.ino[d].dir, n.child = u.ino[d].child,
         n.shlock = u.ino[d].shlock, n.elock = u.ino[d].elock,
         NEW ks \in Seq(ExKeySet), NEW t \in Int,
         NEW v, v = Rekey(u, d, n, ks, t)
  PROVE  Rekeyed(u, v, d) /\ v.ino[d] = n /\ v.exkeys = ks /\ v.total_locked_ainos = t
<1>1. u.ino \in [Live(u) -> AinoSet] /\ Live(u) \in SUBSET Path
  BY UnitType
<1> DEFINE f == [u.ino EXCEPT ![d] = n]
<1>2. f \in [Live(u) -> AinoSet] /\ f[d] = n /\ \A p \in Live(u) : p # d => f[p] = u.ino[p]
  BY <1>1
<1>3. v = [u EXCEPT !.ino = f, !.exkeys = ks, !.total_locked_ainos = t]
  BY DEF UnitSet, Rekey
<1> HIDE DEF f
<1>4. f \in InoSet
  BY <1>1, <1>2 DEF InoSet
<1>5. /\ v \in UnitSet /\ v.ino = f /\ v.chained = u.chained /\ v.exkeys = ks
      /\ v.total_locked_ainos = t
      /\ v.aino_cache_size = u.aino_cache_size /\ v.logged = u.logged
  BY <1>3, <1>4 DEF UnitSet
<1>6. Live(v) = Live(u)
  BY <1>2, <1>5 DEF Live
<1>7. ASSUME NEW p \in Live(u)
      PROVE /\ v.ino[p].dir = u.ino[p].dir /\ v.ino[p].child = u.ino[p].child
            /\ v.ino[p].shlock = u.ino[p].shlock /\ v.ino[p].elock = u.ino[p].elock
            /\ p # d => /\ v.ino[p].locked_children = u.ino[p].locked_children
                        /\ v.ino[p].exnext_count = u.ino[p].exnext_count
  BY <1>2, <1>5
<1> QED
  BY <1>2, <1>5, <1>6, <1>7 DEF Rekeyed

\* And it keeps the invariant when the counts fit.
LEMMA RekeyedKeeps ==
  ASSUME NEW u, Good(u), NEW d \in Dirs(u), NEW v, Rekeyed(u, v, d), KeysFit(u, v.exkeys),
         CountFits(v, d),
         \A p \in Live(u) : p # d => CountOf(v.exkeys, p) = CountOf(u.exkeys, p),
         v.total_locked_ainos =
            u.total_locked_ainos - u.ino[d].locked_children + v.ino[d].locked_children
  PROVE  Good(v) /\ SameUses(u, v) /\ Dirs(v) = Dirs(u) /\ Live(v) = Live(u)
<1>1. Typed(u) /\ Tree(u) /\ Chain(u) /\ Scans(u) /\ Totals(u) /\ Silent(u)
  BY DEF Good
<1>2. u \in UnitSet /\ IsFiniteSet(Live(u)) /\ Live(u) \in SUBSET Path
  BY <1>1, UnitType DEF Typed
<1>3. Live(v) = Live(u) /\ v \in UnitSet /\ d \in Live(u)
  BY DEF Rekeyed, Dirs
<1>4. Typed(v)
  BY <1>2, <1>3 DEF Typed
<1>5. Dirs(v) = Dirs(u)
  BY DEF Dirs, Rekeyed
<1>6. Tree(v)
  BY <1>1, <1>3, <1>5 DEF Tree, Rekeyed
<1>7. Chain(v)
  <2>1. \A c \in v.chained : ~InUse(v, c)
    BY <1>1 DEF Chain, Rekeyed, InUse
  <2> QED
    BY <1>1, <1>3, <1>5, <2>1 DEF Chain, Rekeyed
<1>8. Scans(v)
  <2>1. ASSUME NEW i \in DOMAIN v.exkeys
        PROVE  /\ v.exkeys[i].aino \in Dirs(v)
               /\ OnScan(v.ino[v.exkeys[i].aino].child, v.exkeys[i])
    <3>1. PICK p : p = v.exkeys[i].aino
      OBVIOUS
    <3>2. p \in Dirs(u) /\ OnScan(u.ino[p].child, v.exkeys[i])
      BY <3>1 DEF KeysFit
    <3>3. v.ino[p].child = u.ino[p].child
      BY <3>2 DEF Rekeyed, Dirs
    <3> QED
      BY <1>5, <3>1, <3>2, <3>3
  <2>2. ASSUME NEW p \in Live(v)
        PROVE  /\ v.ino[p].exnext_count = CountOf(v.exkeys, p)
               /\ v.ino[p].exnext_count = 0 => v.ino[p].locked_children = 0
               /\ v.ino[p].exnext_count > 0 =>
                    v.ino[p].locked_children >= Len(v.ino[p].child)
    <3>1. CASE p = d
      BY <3>1 DEF CountFits
    <3>2. CASE p # d
      <4>1. /\ v.ino[p].locked_children = u.ino[p].locked_children
            /\ v.ino[p].exnext_count = u.ino[p].exnext_count
            /\ v.ino[p].child = u.ino[p].child
        BY <1>3, <3>2 DEF Rekeyed
      <4> QED
        BY <1>1, <1>3, <3>2, <4>1 DEF Scans
    <3> QED
      BY <3>1, <3>2
  <2> QED
    BY <2>1, <2>2 DEF Scans
<1>9. Totals(v)
  <2>1. ASSUME NEW p \in Path, p # d PROVE Locked(v, p) = Locked(u, p)
    <3>1. p \in Dirs(u) => v.ino[p].locked_children = u.ino[p].locked_children
      BY <2>1 DEF Rekeyed, Dirs
    <3> QED
      BY <1>5, <3>1 DEF Locked
  <2>2. Locked(u, d) = u.ino[d].locked_children /\ Locked(v, d) = v.ino[d].locked_children
    BY <1>5 DEF Locked
  <2>3. Cardinality(Counted(v)) = Cardinality(Counted(u)) - Locked(u, d) + Locked(v, d)
    BY <1>1, <1>2, <1>3, <1>4, <2>1, TotalChange
  <2> QED
    BY <1>1, <2>2, <2>3 DEF Totals
<1>10. SameUses(u, v)
  BY <1>3 DEF SameUses, Shared, Exclusive, Rekeyed
<1>11. Silent(v)
  BY <1>1 DEF Silent, Rekeyed
<1> QED
  BY <1>3, <1>4, <1>5, <1>6, <1>7, <1>8, <1>9, <1>10, <1>11 DEF Good

\* A scan ends: its ExKey goes, and the last one unlocks the directory.
LEMMA FreeKeyKeeps ==
  ASSUME NEW u, Good(u), NEW i \in DOMAIN u.exkeys, NEW v, v = free_exkey(u, i)
  PROVE  /\ Good(v) /\ SameUses(u, v) /\ Dirs(v) = Dirs(u) /\ Live(v) = Live(u)
         /\ v.exkeys = RemoveAt(u.exkeys, i)
<1>1. Typed(u) /\ Tree(u) /\ Chain(u) /\ Scans(u) /\ Totals(u) /\ Silent(u)
  BY DEF Good
<1>2. /\ u \in UnitSet /\ IsFiniteSet(Live(u)) /\ u.ino \in [Live(u) -> AinoSet]
      /\ Live(u) \in SUBSET Path
  BY <1>1, UnitType DEF Typed
<1>3. PICK ks \in Seq(ExKeySet) : ks = u.exkeys
  BY <1>2, UnitType
<1>4. PICK l \in Nat : l = Len(ks)
  OBVIOUS
<1>5. i \in 1..l /\ DOMAIN ks = 1..l
  BY <1>3, <1>4
<1>6. PICK d \in Live(u) : d = u.exkeys[i].aino
  BY <1>1 DEF Scans, Dirs
<1>7. d \in Dirs(u) /\ d \in Path
  BY <1>1, <1>2, <1>6 DEF Scans
<1>8. PICK m \in AinoSet : m = u.ino[d]
  BY <1>2, <1>6
<1>9. m.exnext_count = CountOf(ks, d) /\ m.exnext_count \in Nat /\ m.locked_children \in Nat
      /\ (m.exnext_count > 0 => m.locked_children >= Len(m.child))
  BY <1>1, <1>3, <1>6, <1>8 DEF Scans, AinoSet
<1>10. CountOf(ks, d) # 0
  BY <1>3, <1>5, <1>6, CountType
<1>11. PICK r \in Seq(ExKeySet) : r = RemoveAt(ks, i)
  BY <1>4, <1>5, RemoveAtIs
<1>12. Len(r) = l - 1 /\ \A j \in 1..(l - 1) : r[j] = IF j < i THEN ks[j] ELSE ks[j + 1]
  BY <1>4, <1>5, <1>11, RemoveAtIs
<1>13. PICK c \in Nat : c = m.exnext_count - 1
  BY <1>9, <1>10
<1>14. PICK e \in Nat : e = IF m.exnext_count = 1 THEN 0 ELSE m.locked_children
  BY <1>9
<1>15. PICK n : n = [m EXCEPT !.exnext_count = c, !.locked_children = e]
  OBVIOUS
<1>16. /\ n \in AinoSet /\ n.exnext_count = c /\ n.locked_children = e
       /\ n.dir = m.dir /\ n.child = m.child /\ n.shlock = m.shlock /\ n.elock = m.elock
  BY <1>15 DEF AinoSet
<1>17. PICK t \in Int : t = u.total_locked_ainos - m.locked_children + e
  BY <1>2, <1>9 DEF UnitSet
<1>18. v = Rekey(u, d, n, r, t)
  <2>1. v = [u EXCEPT !.ino[d].exnext_count = @ - 1,
                 !.ino[d].locked_children = IF m.exnext_count = 1 THEN 0 ELSE @,
                 !.total_locked_ainos = IF m.exnext_count = 1 THEN @ - m.locked_children ELSE @,
                 !.exkeys = RemoveAt(@, i)]
    BY <1>6, <1>8 DEF free_exkey
  <2>2. PICK x \in Int : x = u.total_locked_ainos
    BY <1>2 DEF UnitSet
  <2>3. t = IF m.exnext_count = 1 THEN x - m.locked_children ELSE x
    BY <1>9, <1>14, <1>17, <2>2
  <2>4. [u.ino EXCEPT ![d].exnext_count = @ - 1,
                      ![d].locked_children = IF m.exnext_count = 1 THEN 0 ELSE @]
          = [u.ino EXCEPT ![d] = n]
    BY <1>2, <1>8, <1>13, <1>14, <1>15
  <2> DEFINE f == [u.ino EXCEPT ![d] = n]
  <2>5. v = [u EXCEPT !.ino = f, !.exkeys = r, !.total_locked_ainos = t]
    BY <1>2, <1>3, <1>11, <2>1, <2>2, <2>3, <2>4 DEF UnitSet
  <2> QED
    BY <1>2, <2>5 DEF UnitSet, Rekey
<1>19. Rekeyed(u, v, d) /\ v.ino[d] = n /\ v.exkeys = r /\ v.total_locked_ainos = t
  BY <1>2, <1>8, <1>16, <1>18, RekeyedBy
<1>20. \A p : CountOf(r, p) = CountOf(ks, p) - (IF ks[i].aino = p THEN 1 ELSE 0)
  BY <1>4, <1>5, <1>11, CountRemove
<1>21. KeysFit(u, r)
  <2> SUFFICES ASSUME NEW j \in DOMAIN r
               PROVE  r[j].aino \in Dirs(u) /\ OnScan(u.ino[r[j].aino].child, r[j])
    BY DEF KeysFit
  <2>1. j \in 1..(l - 1)
    BY <1>4, <1>5, <1>12
  <2>2. PICK h \in 1..l : r[j] = ks[h]
    BY <1>12, <2>1
  <2> QED
    BY <1>1, <1>3, <1>5, <2>2 DEF Scans
<1>22. CountFits(v, d)
  <2>1. CountOf(r, d) = c
    BY <1>3, <1>6, <1>9, <1>13, <1>20
  <2>2. c = 0 => e = 0
    BY <1>13, <1>14
  <2>3. c > 0 => e >= Len(m.child)
    BY <1>9, <1>13, <1>14
  <2> QED
    BY <1>16, <1>19, <2>1, <2>2, <2>3 DEF CountFits
<1>23. \A p \in Live(u) : p # d => CountOf(r, p) = CountOf(ks, p)
  <2> SUFFICES ASSUME NEW p \in Live(u), p # d PROVE CountOf(r, p) = CountOf(ks, p)
    OBVIOUS
  <2>1. CountOf(ks, p) \in Nat
    BY CountType
  <2> QED
    BY <1>3, <1>6, <1>20, <2>1
<1>24. Good(v) /\ SameUses(u, v) /\ Dirs(v) = Dirs(u) /\ Live(v) = Live(u)
  <2>1. v.total_locked_ainos = u.total_locked_ainos - u.ino[d].locked_children + v.ino[d].locked_children
    BY <1>8, <1>16, <1>17, <1>19
  <2> QED
    BY <1>3, <1>7, <1>19, <1>21, <1>22, <1>23, <2>1, RekeyedKeeps
<1> QED
  BY <1>3, <1>11, <1>19, <1>24

\* A function defined from its value before exists.
Iteration(h, X, n, x0, F) ==
  h \in [0..n -> X] /\ h[0] = x0 /\ \A i \in 1..n : h[i] = F[<<i, h[i - 1]>>]

\* A recursive function over 0..n, each value made from the one before, exists.
LEMMA Iterates ==
  ASSUME NEW X, NEW n \in Nat, NEW x0 \in X, NEW F \in [(1..n) \X X -> X]
  PROVE  \E h : Iteration(h, X, n, x0, F)
<1> DEFINE G(h, m) == h[0] = x0 /\ \A i \in 1..m : h[i] = F[<<i, h[i - 1]>>]
           B == {m \in 0..n : ~\E h \in [0..m -> X] : G(h, m)}
<1>1. B = {}
  <2> SUFFICES ASSUME B # {} PROVE FALSE
    OBVIOUS
  <2>1. B \subseteq Nat
    OBVIOUS
  <2>2. PICK m \in B : \A x \in B : m <= x
    BY <2>1, WellOrdered
  <2>3. m \in 0..n /\ m \in Nat
    OBVIOUS
  <2>4. m # 0
    <3> DEFINE z == [i \in 0..0 |-> x0]
    <3>1. z \in [0..0 -> X] /\ G(z, 0)
      OBVIOUS
    <3>2. 0 \notin B
      BY <3>1
    <3> QED
      BY <3>2
  <2>5. m - 1 \in 0..n /\ m - 1 \notin B
    <3>1. m - 1 \in 0..n /\ ~(m <= m - 1)
      BY <2>3, <2>4
    <3> HIDE DEF B
    <3> QED
      BY <2>2, <3>1
  <2>6. PICK f \in [0..(m - 1) -> X] : G(f, m - 1)
    BY <2>5
  <2>7. PICK y \in X : y = F[<<m, f[m - 1]>>]
    <3>1. m - 1 \in 0..(m - 1) /\ m \in 1..n
      BY <2>3, <2>4
    <3>2. f[m - 1] \in X
      BY <3>1
    <3> QED
      BY <3>1, <3>2
  <2> DEFINE g == [i \in 0..m |-> IF i = m THEN y ELSE f[i]]
  <2>8. g \in [0..m -> X]
    BY <2>3
  <2>9. g[0] = x0
    BY <2>3, <2>4, <2>6
  <2>10. ASSUME NEW i \in 1..m PROVE g[i] = F[<<i, g[i - 1]>>]
    <3>1. i - 1 \in 0..(m - 1) /\ i - 1 \in 0..m /\ i \in 0..m /\ i - 1 # m
      BY <2>3
    <3>2. g[i - 1] = f[i - 1]
      BY <3>1
    <3>3. CASE i = m
      BY <2>7, <3>1, <3>2, <3>3
    <3>4. CASE i # m
      <4>1. i \in 1..(m - 1)
        BY <2>3, <3>4
      <4>2. g[i] = f[i]
        BY <3>1, <3>4
      <4> QED
        BY <2>6, <3>2, <4>1, <4>2
    <3> QED
      BY <3>3, <3>4
  <2> HIDE DEF g
  <2>11. \E h \in [0..m -> X] : G(h, m)
    BY <2>8, <2>9, <2>10
  <2> QED
    BY <2>2, <2>11
<1>2. n \in 0..n /\ n \notin B
  <2> HIDE DEF B
  <2> QED
    BY <1>1
<1> QED
  BY <1>2 DEF Iteration

\* populate_directory, once the children that are there have been counted.
LEMMA PopulateKeeps ==
  ASSUME NEW w, NEW d, NEW c, w \in UnitSet, d \in Live(w),
         c = [w EXCEPT !.ino[d].locked_children = @ + Len(w.ino[d].child),
                       !.total_locked_ainos = @ + Len(w.ino[d].child)],
         Good(c), d \in Dirs(c), NEW y \in populate_directory(w, d)
  PROVE  Grown(c, y)
<1> DEFINE counted == [w EXCEPT !.ino[d].locked_children = @ + Len(w.ino[d].child),
                               !.total_locked_ainos = @ + Len(w.ino[d].child)]
           Entry(v, o) == {r[1] : r \in lookup_child_aino(v, d, o[1])}
           R(order, f, i) == IF i = 0 THEN {counted}
                             ELSE UNION {Entry(v, order[i]) : v \in f[i - 1]}
           U(order) == CHOOSE f : f = [i \in 0..Len(order) |-> R(order, f, i)]
           W == {v \in UnitSet : Grown(c, v)}
<1>1. PICK order \in SetToSeqs(w.ino[d].unseen) : y \in U(order)[Len(order)]
  BY DEF populate_directory
<1>c. c = counted
  OBVIOUS
<1> HIDE DEF counted
<1>2. w.ino[d].unseen \in SUBSET (Names \X BOOLEAN)
  BY UnitType
<1>3. PICK n \in Nat : n = Cardinality(w.ino[d].unseen)
  <2>1. IsFiniteSet(Names) /\ IsFiniteSet(BOOLEAN)
    <3>1. BOOLEAN = {TRUE} \cup {FALSE}
      OBVIOUS
    <3>2. IsFiniteSet({TRUE}) /\ IsFiniteSet({FALSE})
      BY FS_Singleton
    <3>3. IsFiniteSet({TRUE} \cup {FALSE})
      BY <3>2, FS_Union
    <3> QED
      BY <3>1, <3>3, NamesAssumption
  <2>2. IsFiniteSet(Names \X BOOLEAN)
    BY <2>1, FS_Product
  <2>3. IsFiniteSet(w.ino[d].unseen)
    BY <1>2, <2>2, FS_Subset
  <2> QED
    BY <2>3, FS_CardinalityType
<1>4. order \in [1..n -> Names \X BOOLEAN]
  BY <1>1, <1>2, <1>3 DEF SetToSeqs
<1>5. Len(order) = n /\ \A i \in 1..n : order[i][1] \in Names
  <2>1. order \in Seq(Names \X BOOLEAN) /\ Len(order) = n
    BY <1>4
  <2>2. \A i \in 1..n : order[i] \in Names \X BOOLEAN
    BY <1>4
  <2> QED
    BY <2>1, <2>2
<1>6. {c} \in SUBSET W
  <2>1. Grown(c, c)
    BY DEF Grown, SameUses
  <2> QED
    BY <2>1 DEF Good, Typed
<1>7. ASSUME NEW v \in W, NEW i \in 1..n, NEW x \in Entry(v, order[i])
      PROVE  x \in W
  <2>1. PICK r \in lookup_child_aino(v, d, order[i][1]) : x = r[1]
    OBVIOUS
  <2>2. Grown(c, v) /\ Good(v) /\ d \in Dirs(v)
    BY DEF Grown
  <2>3. Grown(v, r[1])
    <3>1. PICK m \in Names : m = order[i][1]
      BY <1>5
    <3>2. r \in lookup_child_aino(v, d, m)
      BY <2>1, <3>1
    <3> QED
      BY <2>2, <3>2, LookupChildKeeps
  <2>4. Grown(c, x)
    BY <2>1, <2>2, <2>3, GrownAgain
  <2>5. x \in UnitSet
    BY <2>4 DEF Grown, Good, Typed
  <2> QED
    BY <2>4, <2>5
<1> HIDE DEF W, Entry
<1>8. ASSUME NEW i \in 1..n, NEW z \in SUBSET W
      PROVE  UNION {Entry(v, order[i]) : v \in z} \in SUBSET W
  BY <1>7
<1> DEFINE f == U(order)
           F == [q \in (1..n) \X (SUBSET W) |-> UNION {Entry(v, order[q[1]]) : v \in q[2]}]
<1>9. PICK h \in [0..n -> SUBSET W] : h[0] = {c} /\ \A i \in 1..n : h[i] = F[<<i, h[i - 1]>>]
  <2>1. F \in [(1..n) \X (SUBSET W) -> SUBSET W]
    BY <1>8
  <2> HIDE DEF F
  <2> QED
    <3>1. PICK X : X = SUBSET W
      OBVIOUS
    <3>2. PICK x0 \in X : x0 = {c}
      BY <1>6, <3>1
    <3>3. PICK H \in [(1..n) \X X -> X] : H = F
      BY <2>1, <3>1
    <3>4. PICK g : Iteration(g, X, n, x0, H)
      BY Iterates
    <3> QED
      BY <3>1, <3>2, <3>3, <3>4 DEF Iteration
<1>10. h = [i \in 0..n |-> R(order, h, i)]
  <2>1. ASSUME NEW i \in 0..n PROVE h[i] = R(order, h, i)
    <3>1. CASE i = 0
      BY <1>c, <1>9, <3>1
    <3>2. CASE i # 0
      <4>1. i \in 1..n /\ i - 1 \in 0..n
        BY <3>2
      <4>2. h[i] = F[<<i, h[i - 1]>>] /\ h[i - 1] \in SUBSET W
        BY <1>9, <4>1
      <4>3. F[<<i, h[i - 1]>>] = UNION {Entry(v, order[i]) : v \in h[i - 1]}
        BY <4>1, <4>2
      <4> QED
        BY <3>2, <4>2, <4>3
    <3> QED
      BY <3>1, <3>2
  <2> HIDE DEF R
  <2>2. h = [i \in 0..n |-> h[i]]
    BY <1>9
  <2> QED
    BY <2>1, <2>2
<1>11. f = [i \in 0..n |-> R(order, f, i)]
  <2> HIDE DEF R
  <2> QED
    BY <1>5, <1>10
<1>12. y \in f[n]
  BY <1>1, <1>5
<1> HIDE DEF f
<1> DEFINE B == {m \in 0..n : f[m] \notin SUBSET W}
<1>13. B = {}
  <2> SUFFICES ASSUME B # {} PROVE FALSE
    OBVIOUS
  <2>1. B \subseteq Nat
    OBVIOUS
  <2>2. PICK m \in B : \A x \in B : m <= x
    BY <2>1, WellOrdered
  <2>3. m \in 0..n /\ f[m] = R(order, f, m) /\ f[m] \notin SUBSET W
    BY <1>11
  <2>4. m # 0
    BY <1>c, <1>6, <2>3
  <2>5. m - 1 \in 0..n /\ ~(m <= m - 1) /\ m \in 1..n
    BY <2>3, <2>4
  <2>6. m - 1 \notin B
    <3> HIDE DEF B
    <3> QED
      BY <2>2, <2>5
  <2>7. f[m - 1] \in SUBSET W
    BY <2>5, <2>6
  <2>8. R(order, f, m) \in SUBSET W
    BY <1>8, <2>4, <2>5, <2>7
  <2> QED
    BY <2>3, <2>8
<1>14. f[n] \in SUBSET W
  BY <1>13
<1>15. y \in W
  BY <1>12, <1>14
<1> QED
  BY <1>15 DEF W

\* A scan begins: its ExKey, and what is counted of its directory then.
NewKey(d) == [aino |-> d, curr_file |-> Nil, owed |-> {}]
Begun(m, n) == [m EXCEPT !.exnext_count = @ + 1, !.locked_children = @ + n]

WithKey(s, d) == Append(s, NewKey(d))
Begin(u, d, n) == Rekey(u, d, Begun(u.ino[d], n), WithKey(u.exkeys, d), u.total_locked_ainos + n)
Uncounted(u, d) == IF u.ino[d].exnext_count = 0 THEN Len(u.ino[d].child) ELSE 0

\* A scan begins: of n children, those there are if none was going on.
LEMMA BeginKeeps ==
  ASSUME NEW u, Good(u), NEW d \in Dirs(u), NEW n \in Nat,
         n = Uncounted(u, d), NEW v, v = Begin(u, d, n)
  PROVE  /\ Good(v) /\ SameUses(u, v) /\ Dirs(v) = Dirs(u) /\ Live(v) = Live(u)
         /\ v.exkeys = WithKey(u.exkeys, d)
<1>1. Typed(u) /\ Tree(u) /\ Chain(u) /\ Scans(u) /\ Totals(u) /\ Silent(u)
  BY DEF Good
<1>2. /\ u \in UnitSet /\ IsFiniteSet(Live(u)) /\ u.ino \in [Live(u) -> AinoSet]
      /\ Live(u) \in SUBSET Path
  BY <1>1, UnitType DEF Typed
<1>3. d \in Live(u) /\ d \in Path
  BY <1>2 DEF Dirs
<1>4. PICK ks \in Seq(ExKeySet) : ks = u.exkeys
  BY <1>2, UnitType
<1>5. PICK k : k = NewKey(d)
  OBVIOUS
<1>6. k \in ExKeySet /\ k.aino = d /\ k.curr_file = Nil /\ k.owed = {}
  BY <1>3, <1>5 DEF NewKey, ExKeySet
<1>7. PICK l \in Nat : l = Len(ks)
  OBVIOUS
<1>8. PICK r : r = Append(ks, k)
  OBVIOUS
<1>9. r \in Seq(ExKeySet) /\ Len(r) = l + 1 /\ r[l + 1] = k /\ \A j \in 1..l : r[j] = ks[j]
  BY <1>6, <1>7, <1>8, AppendProperties
<1>10. PICK m \in AinoSet : m = u.ino[d]
  BY <1>2, <1>3
<1>11. m.exnext_count = CountOf(ks, d) /\ m.exnext_count \in Nat /\ m.locked_children \in Nat
      /\ (m.exnext_count > 0 => m.locked_children >= Len(m.child)) /\ Len(m.child) \in Nat
      /\ (m.exnext_count = 0 => m.locked_children = 0)
  BY <1>1, <1>3, <1>4, <1>10 DEF Scans, AinoSet
<1>12. PICK c \in Nat : c = m.exnext_count + 1
  BY <1>11
<1>13. PICK e \in Nat : e = m.locked_children + n
  BY <1>11
<1>14. PICK x : x = Begun(m, n)
  OBVIOUS
<1>15. /\ x \in AinoSet /\ x.exnext_count = c /\ x.locked_children = e
       /\ x.dir = m.dir /\ x.child = m.child /\ x.shlock = m.shlock /\ x.elock = m.elock
  <2>1. x = [m EXCEPT !.exnext_count = c, !.locked_children = e]
    BY <1>12, <1>13, <1>14 DEF Begun
  <2> QED
    BY <2>1 DEF AinoSet
<1>16. PICK t \in Int : t = u.total_locked_ainos + n
  BY <1>2 DEF UnitSet
<1>17. v = Rekey(u, d, x, r, t)
  BY <1>4, <1>5, <1>8, <1>10, <1>14, <1>16 DEF Begin, WithKey
<1>18. Rekeyed(u, v, d) /\ v.ino[d] = x /\ v.exkeys = r /\ v.total_locked_ainos = t
  BY <1>2, <1>3, <1>9, <1>10, <1>15, <1>17, RekeyedBy
<1>19. \A p : CountOf(r, p) = CountOf(ks, p) + (IF k.aino = p THEN 1 ELSE 0)
  BY <1>6, <1>8, CountAppend
<1>20. KeysFit(u, r)
  <2> SUFFICES ASSUME NEW j \in DOMAIN r
               PROVE  r[j].aino \in Dirs(u) /\ OnScan(u.ino[r[j].aino].child, r[j])
    BY DEF KeysFit
  <2>1. j \in 1..(l + 1)
    BY <1>9
  <2>2. CASE j = l + 1
    BY <1>6, <1>9, <2>2 DEF OnScan
  <2>3. CASE j # l + 1
    <3>1. j \in 1..l /\ r[j] = ks[j]
      BY <1>9, <2>1, <2>3
    <3> QED
      BY <1>1, <1>4, <1>7, <3>1 DEF Scans
  <2> QED
    BY <2>2, <2>3
<1>21. CountFits(v, d)
  <2>1. CountOf(r, d) = c
    BY <1>6, <1>11, <1>12, <1>19
  <2>2. e >= Len(m.child)
    BY <1>10, <1>11, <1>13 DEF Uncounted
  <2>3. c # 0
    BY <1>11, <1>12
  <2> QED
    BY <1>15, <1>18, <2>1, <2>2, <2>3 DEF CountFits
<1>22. \A p \in Live(u) : p # d => CountOf(r, p) = CountOf(ks, p)
  <2> SUFFICES ASSUME NEW p \in Live(u), p # d PROVE CountOf(r, p) = CountOf(ks, p)
    OBVIOUS
  <2>1. CountOf(ks, p) \in Nat
    BY CountType
  <2> QED
    BY <1>6, <1>19, <2>1
<1>23. v.total_locked_ainos = u.total_locked_ainos - u.ino[d].locked_children + v.ino[d].locked_children
  <2>1. PICK z \in Int : z = u.total_locked_ainos
    BY <1>2 DEF UnitSet
  <2>2. v.ino[d].locked_children = e /\ v.total_locked_ainos = z + n
    BY <1>15, <1>16, <1>18, <2>1
  <2>3. PICK y \in Nat : y = m.locked_children
    BY <1>11
  <2>4. z + n = z - y + e
    BY <1>13, <2>3
  <2> QED
    BY <1>10, <2>1, <2>2, <2>3, <2>4
<1>24. Good(v) /\ SameUses(u, v) /\ Dirs(v) = Dirs(u) /\ Live(v) = Live(u)
  BY <1>4, <1>18, <1>20, <1>21, <1>22, <1>23, RekeyedKeeps
<1> QED
  BY <1>4, <1>5, <1>8, <1>18, <1>24 DEF WithKey

\* An ExKey changes.
MoveKey(u, i, k) == [u EXCEPT !.exkeys[i] = k]

\* A scan starts or goes on: its ExKey is at another place.
LEMMA KeyMoves ==
  ASSUME NEW u, Good(u), NEW i \in DOMAIN u.exkeys, NEW k \in ExKeySet,
         k.aino = u.exkeys[i].aino, OnScan(u.ino[k.aino].child, k),
         NEW v, v = MoveKey(u, i, k)
  PROVE  Good(v) /\ SameUses(u, v) /\ Dirs(v) = Dirs(u) /\ Live(v) = Live(u)
<1>1. Typed(u) /\ Tree(u) /\ Chain(u) /\ Scans(u) /\ Totals(u) /\ Silent(u)
  BY DEF Good
<1>2. /\ u \in UnitSet /\ IsFiniteSet(Live(u)) /\ u.ino \in [Live(u) -> AinoSet]
      /\ Live(u) \in SUBSET Path
  BY <1>1, UnitType DEF Typed
<1>3. PICK ks \in Seq(ExKeySet) : ks = u.exkeys
  BY <1>2, UnitType
<1>4. PICK d \in Live(u) : d = u.exkeys[i].aino
  BY <1>1 DEF Scans, Dirs
<1>5. d \in Dirs(u)
  BY <1>1, <1>4 DEF Scans
<1>6. PICK l \in Nat : l = Len(ks)
  OBVIOUS
<1>7. i \in 1..l /\ DOMAIN ks = 1..l
  BY <1>3, <1>6
<1>8. PICK r : r = [ks EXCEPT ![i] = k]
  OBVIOUS
<1>9. r \in Seq(ExKeySet) /\ Len(r) = l /\ r[i] = k /\ \A j \in 1..l : j # i => r[j] = ks[j]
  BY <1>6, <1>7, <1>8
<1>10. PICK m \in AinoSet : m = u.ino[d]
  BY <1>2, <1>4
<1>11. PICK t \in Int : t = u.total_locked_ainos
  BY <1>2 DEF UnitSet
<1>12. v = Rekey(u, d, m, r, t)
  <2>1. v = [u EXCEPT !.exkeys = r]
    BY <1>2, <1>3, <1>8 DEF UnitSet, MoveKey
  <2>2. u.ino = [u.ino EXCEPT ![d] = m]
    BY <1>2, <1>4, <1>10
  <2>3. v = [u EXCEPT !.ino = [u.ino EXCEPT ![d] = m], !.exkeys = r, !.total_locked_ainos = t]
    BY <1>2, <1>11, <2>1, <2>2 DEF UnitSet
  <2> QED
    BY <1>2, <2>3 DEF UnitSet, Rekey
<1>13. Rekeyed(u, v, d) /\ v.ino[d] = m /\ v.exkeys = r /\ v.total_locked_ainos = t
  <2>1. u \in UnitSet /\ r \in Seq(ExKeySet)
    BY <1>2, <1>9
  <2>2. /\ m.dir = u.ino[d].dir /\ m.child = u.ino[d].child
        /\ m.shlock = u.ino[d].shlock /\ m.elock = u.ino[d].elock
    BY <1>10
  <2> QED
    BY <1>12, <2>1, <2>2, RekeyedBy
<1>14. \A j \in DOMAIN ks : ks[j].aino = r[j].aino
  BY <1>3, <1>4, <1>7, <1>9
<1>15. \A p : CountOf(r, p) = CountOf(ks, p)
  BY <1>6, <1>9, <1>14, CountSame
<1>16. KeysFit(u, r)
  <2> SUFFICES ASSUME NEW j \in DOMAIN r
               PROVE  r[j].aino \in Dirs(u) /\ OnScan(u.ino[r[j].aino].child, r[j])
    BY DEF KeysFit
  <2>1. CASE j = i
    BY <1>4, <1>5, <1>9, <2>1
  <2>2. CASE j # i
    BY <1>1, <1>3, <1>7, <1>9, <2>2 DEF Scans
  <2> QED
    BY <2>1, <2>2
<1>17. CountFits(v, d)
  BY <1>1, <1>3, <1>10, <1>13, <1>15 DEF CountFits, Scans
<1>18. v.total_locked_ainos = u.total_locked_ainos - u.ino[d].locked_children + v.ino[d].locked_children
  <2>1. m.locked_children \in Nat
    BY DEF AinoSet
  <2> QED
    BY <1>10, <1>11, <1>13, <2>1
<1> QED
  BY <1>3, <1>5, <1>13, <1>15, <1>16, <1>17, <1>18, RekeyedKeeps

\* The object curr_file is returned, and the scan is at the next.
LEMMA ExamineKeeps ==
  ASSUME NEW u, Good(u), NEW i \in DOMAIN u.exkeys, NEW v, v = do_examine(u, i)
  PROVE  Good(v) /\ SameUses(u, v)
<1>1. Typed(u) /\ Tree(u) /\ Chain(u) /\ Scans(u) /\ Totals(u) /\ Silent(u)
  BY DEF Good
<1>2. /\ u \in UnitSet /\ IsFiniteSet(Live(u)) /\ u.ino \in [Live(u) -> AinoSet]
      /\ Live(u) \in SUBSET Path
  BY <1>1, UnitType DEF Typed
<1>3. CASE u.exkeys[i].curr_file = Nil
  BY <1>3, FreeKeyKeeps DEF do_examine
<1>4. CASE u.exkeys[i].curr_file # Nil
  <2>1. PICK k \in ExKeySet : k = u.exkeys[i]
    BY <1>2, UnitType
  <2>2. k.aino \in Live(u) /\ OnScan(u.ino[k.aino].child, k)
    BY <1>1, <2>1 DEF Scans, Dirs
  <2>3. PICK s \in Seq(Path) : s = u.ino[k.aino].child
    BY <1>2, <2>2, UnitType
  <2>4. PICK l \in Nat : l = Len(s)
    OBVIOUS
  <2>5. PICK n \in 1..l : k.curr_file = s[n] /\ k.owed = {s[j] : j \in n..l}
    <3>1. PICK n \in DOMAIN s : k.curr_file = s[n] /\ k.owed = {s[j] : j \in n..Len(s)}
      <4>1. OnScan(s, k) /\ k.curr_file # Nil
        BY <1>4, <2>1, <2>2, <2>3
      <4> HIDE <2>3
      <4> QED
        BY <4>1 DEF OnScan
    <3>2. n \in 1..l
      BY <2>4
    <3> QED
      BY <2>4, <3>1, <3>2
  <2>6. IsInjective(s) /\ ToSet(s) = {c \in Live(u) \ {Root} : parent(c) = k.aino}
    BY <1>1, <2>2, <2>3 DEF Tree
  <2>7. parent(s[n]) = k.aino
    <3>1. s[n] \in ToSet(s)
      BY <2>4, <2>5 DEF ToSet
    <3> QED
      BY <2>6, <3>1
  <2>8. Place(s, s[n]) = n
    BY <2>4, <2>5, <2>6, PlaceIs
  <2>9. PICK c \in Path \cup {Nil} : c = IF n = l THEN Nil ELSE s[n + 1]
    <3>1. n # l => s[n + 1] \in Path
      BY <2>4, <2>5
    <3> QED
      BY <3>1
  <2>10. sibling(u, k.curr_file) = c
    BY <2>3, <2>4, <2>5, <2>7, <2>8, <2>9 DEF sibling
  <2>11. PICK o \in SUBSET Path : o = {s[j] : j \in (n + 1)..l}
    <3>1. {s[j] : j \in (n + 1)..l} \in SUBSET Path
      BY <2>4, <2>5
    <3> QED
      BY <3>1
  <2>12. o = k.owed \ {s[n]}
    <3>1. \A j \in 1..l : s[j] = s[n] => j = n
      BY <2>4, <2>5, <2>6 DEF IsInjective
    <3>2. ASSUME NEW x \in o PROVE x \in k.owed \ {s[n]}
      <4>1. PICK j \in (n + 1)..l : x = s[j]
        BY <2>11
      <4>2. j \in n..l /\ j # n /\ j \in 1..l
        BY <2>5
      <4> QED
        BY <2>5, <3>1, <4>1, <4>2
    <3>3. ASSUME NEW x \in k.owed \ {s[n]} PROVE x \in o
      <4>1. PICK j \in n..l : x = s[j]
        BY <2>5
      <4>2. j \in (n + 1)..l
        BY <2>5, <3>3, <4>1
      <4> QED
        BY <2>11, <4>1, <4>2
    <3> QED
      BY <3>2, <3>3
  <2>13. PICK y : y = [k EXCEPT !.curr_file = c, !.owed = o]
    OBVIOUS
  <2>14. y \in ExKeySet /\ y.aino = k.aino /\ y.curr_file = c /\ y.owed = o
    BY <2>13 DEF ExKeySet
  <2>15. OnScan(s, y)
    <3>1. CASE n = l
      <4>1. o = {}
        BY <2>4, <2>5, <2>11, <3>1
      <4> QED
        BY <2>9, <2>14, <3>1, <4>1 DEF OnScan
    <3>2. CASE n # l
      <4>1. n + 1 \in DOMAIN s /\ y.curr_file = s[n + 1] /\ y.owed = {s[j] : j \in (n + 1)..Len(s)}
        BY <2>4, <2>5, <2>9, <2>11, <2>14, <3>2
      <4> QED
        BY <4>1 DEF OnScan
    <3> QED
      BY <3>1, <3>2
  <2>16. v = MoveKey(u, i, y)
    <3>1. v = [u EXCEPT !.exkeys[i].curr_file = c, !.exkeys[i].owed = @ \ {s[n]}]
      BY <1>4, <2>1, <2>5, <2>10 DEF do_examine
    <3>2. PICK ks \in Seq(ExKeySet) : ks = u.exkeys
      BY <1>2, UnitType
    <3>3. [ks EXCEPT ![i].curr_file = c, ![i].owed = @ \ {s[n]}] = [ks EXCEPT ![i] = y]
      BY <2>1, <2>12, <2>13, <3>2 DEF ExKeySet
    <3>4. v = [u EXCEPT !.exkeys = [ks EXCEPT ![i].curr_file = c, ![i].owed = @ \ {s[n]}]]
      BY <1>2, <3>1, <3>2 DEF UnitSet
    <3> QED
      BY <1>2, <3>2, <3>3, <3>4 DEF UnitSet, MoveKey
  <2> QED
    BY <2>1, <2>3, <2>14, <2>15, <2>16, KeyMoves
<1> QED
  BY <1>3, <1>4

\* The scan of the last ExKey starts at the first child.
LEMMA StartKeeps ==
  ASSUME NEW u, Good(u), u.exkeys # <<>>, NEW v, v = start_scan(u)
  PROVE  /\ Good(v) /\ SameUses(u, v) /\ Len(u.exkeys) \in DOMAIN v.exkeys
         /\ DOMAIN v.exkeys = DOMAIN u.exkeys
<1>1. Typed(u) /\ Tree(u) /\ Chain(u) /\ Scans(u) /\ Totals(u) /\ Silent(u)
  BY DEF Good
<1>2. /\ u \in UnitSet /\ IsFiniteSet(Live(u)) /\ u.ino \in [Live(u) -> AinoSet]
      /\ Live(u) \in SUBSET Path
  BY <1>1, UnitType DEF Typed
<1>3. PICK ks \in Seq(ExKeySet) : ks = u.exkeys
  BY <1>2, UnitType
<1>4. PICK i \in Nat : i = Len(ks)
  OBVIOUS
<1>5. i \in DOMAIN ks
  <2>1. i # 0
    BY <1>3, <1>4, EmptySeq
  <2> QED
    BY <1>4, <2>1
<1>6. PICK k \in ExKeySet : k = ks[i]
  BY <1>5
<1>7. k.aino \in Live(u)
  BY <1>1, <1>3, <1>5, <1>6 DEF Scans, Dirs
<1>8. PICK s \in Seq(Path) : s = u.ino[k.aino].child
  BY <1>2, <1>7, UnitType
<1>9. PICK l \in Nat : l = Len(s)
  OBVIOUS
<1>10. l # 0 => s[1] \in Path /\ Head(s) = s[1] /\ s # <<>>
  BY <1>9
<1>11. l = 0 => s = <<>>
  BY <1>9, EmptySeq
<1>12. PICK c \in Path \cup {Nil} : c = IF s = <<>> THEN Nil ELSE Head(s)
  BY <1>10, <1>11
<1>13. PICK o \in SUBSET Path : o = ToSet(s)
  <2>1. ToSet(s) \in SUBSET Path
    BY DEF ToSet
  <2> QED
    BY <2>1
<1>14. PICK y : y = [k EXCEPT !.curr_file = c, !.owed = o]
  OBVIOUS
<1>15. y \in ExKeySet /\ y.aino = k.aino /\ y.curr_file = c /\ y.owed = o
  BY <1>14 DEF ExKeySet
<1>16. OnScan(s, y)
  <2>1. o = {s[j] : j \in 1..l}
    <3>1. DOMAIN s = 1..l
      BY <1>9
    <3> QED
      BY <1>13, <3>1 DEF ToSet
  <2>2. CASE l = 0
    <3>1. o = {}
      BY <2>1, <2>2
    <3> QED
      BY <1>11, <1>12, <1>15, <2>2, <3>1 DEF OnScan
  <2>3. CASE l # 0
    <3>1. 1 \in DOMAIN s /\ y.curr_file = s[1] /\ y.owed = {s[j] : j \in 1..Len(s)}
      BY <1>9, <1>10, <1>12, <1>15, <2>1, <2>3
    <3> QED
      BY <3>1 DEF OnScan
  <2> QED
    BY <2>2, <2>3
<1>17. v = [u EXCEPT !.exkeys = [ks EXCEPT ![i] = y]]
  <2>1. v = [u EXCEPT !.exkeys[i].curr_file = c, !.exkeys[i].owed = o]
    BY <1>3, <1>4, <1>6, <1>8, <1>12, <1>13 DEF start_scan
  <2>2. [ks EXCEPT ![i].curr_file = c, ![i].owed = o] = [ks EXCEPT ![i] = y]
    BY <1>5, <1>6, <1>14 DEF ExKeySet
  <2>3. v = [u EXCEPT !.exkeys = [ks EXCEPT ![i].curr_file = c, ![i].owed = o]]
    BY <1>2, <1>3, <2>1 DEF UnitSet
  <2> QED
    BY <1>2, <2>2, <2>3 DEF UnitSet
<1>18. v = MoveKey(u, i, y)
  BY <1>2, <1>3, <1>17 DEF UnitSet, MoveKey
<1>19. Good(v) /\ SameUses(u, v)
  BY <1>3, <1>5, <1>6, <1>8, <1>15, <1>16, <1>18, KeyMoves
<1>20. DOMAIN v.exkeys = DOMAIN ks
  BY <1>2, <1>17 DEF UnitSet
<1> QED
  BY <1>3, <1>4, <1>5, <1>19, <1>20

\* Two changes that leave the users alone are one.
LEMMA SameUsesAgain ==
  ASSUME NEW u, NEW v, NEW w, SameUses(u, v), SameUses(v, w)
  PROVE  SameUses(u, w)
BY DEF SameUses

\* The first ExNext of a scan.
LEMMA ExamineFirstKeeps ==
  ASSUME NEW u, Good(u), NEW d \in Dirs(u), NEW v, v = new_exkey(u, d),
         NEW w, w = [v EXCEPT !.ino[d].exnext_count = @ + 1],
         NEW x \in IF v.ino[d].exnext_count = 0 THEN populate_directory(w, d) ELSE {w},
         NEW z, z = do_examine(start_scan(x), Len(x.exkeys))
  PROVE  Good(z) /\ SameUses(u, z)
<1>1. PICK y : y = IF Len(u.exkeys) = EXKEYS THEN free_exkey(u, 1) ELSE u
  OBVIOUS
<1>2. Good(y) /\ SameUses(u, y) /\ d \in Dirs(y)
  <2>1. CASE Len(u.exkeys) = EXKEYS
    <3>1. 1 \in DOMAIN u.exkeys
      <4>1. u \in UnitSet
        BY DEF Good, Typed
      <4>2. DOMAIN u.exkeys = 1..Len(u.exkeys)
        BY <4>1, UnitType
      <4> QED
        BY <2>1, <4>2, BoundsAssumption
    <3>2. y = free_exkey(u, 1)
      BY <1>1, <2>1
    <3> QED
      BY <3>1, <3>2, FreeKeyKeeps
  <2>2. CASE Len(u.exkeys) # EXKEYS
    BY <1>1, <2>2 DEF SameUses
  <2> QED
    BY <2>1, <2>2
<1>3. v = [y EXCEPT !.exkeys = Append(@, NewKey(d))]
  BY <1>1 DEF new_exkey, NewKey
<1>4. y \in UnitSet /\ d \in Live(y) /\ y.ino \in [Live(y) -> AinoSet] /\ Live(y) \in SUBSET Path
  <2>1. y \in UnitSet /\ d \in Live(y)
    BY <1>2 DEF Good, Typed, Dirs
  <2> QED
    BY <2>1, UnitType
<1>5. PICK ks \in Seq(ExKeySet) : ks = y.exkeys
  BY <1>4, UnitType
<1>6. PICK k \in ExKeySet : k = NewKey(d)
  <2>1. d \in Path
    BY <1>4
  <2>2. NewKey(d) \in ExKeySet
    BY <2>1 DEF NewKey, ExKeySet
  <2> QED
    BY <2>2
<1>7. PICK r \in Seq(ExKeySet) : r = Append(ks, k)
  BY AppendProperties
<1>8. r # <<>>
  <2>1. Len(r) = Len(ks) + 1 /\ Len(ks) \in Nat
    BY <1>7, AppendProperties
  <2>2. Len(r) # 0
    BY <2>1
  <2> QED
    BY <2>2, EmptySeq
<1>9. PICK m \in AinoSet : m = y.ino[d]
  BY <1>4
<1>10. PICK t \in Int : t = y.total_locked_ainos
  BY <1>4 DEF UnitSet
<1>11. m.exnext_count \in Nat /\ m.locked_children \in Nat /\ m.child \in Seq(Path) /\ Len(m.child) \in Nat
  <2>1. m.child \in Seq(Path)
    BY DEF AinoSet
  <2> QED
    BY <2>1 DEF AinoSet
<1>12. v.ino[d].exnext_count = m.exnext_count
  BY <1>3, <1>4, <1>9 DEF UnitSet
<1>13. PICK b \in AinoSet : b = [m EXCEPT !.exnext_count = @ + 1]
  <2>1. PICK c \in Nat : c = m.exnext_count + 1
    BY <1>11
  <2>2. [m EXCEPT !.exnext_count = c] \in AinoSet
    BY DEF AinoSet
  <2> QED
    BY <2>1, <2>2
<1>14. w = Rekey(y, d, b, r, t)
  <2>1. v = [y EXCEPT !.exkeys = r]
    BY <1>3, <1>5, <1>6, <1>7
  <2>2. v.ino = y.ino
    BY <1>4, <2>1 DEF UnitSet
  <2>3. [y.ino EXCEPT ![d].exnext_count = @ + 1] = [y.ino EXCEPT ![d] = b]
    BY <1>4, <1>9, <1>13
  <2>4. w = [y EXCEPT !.ino = [y.ino EXCEPT ![d] = b], !.exkeys = r, !.total_locked_ainos = t]
    BY <1>4, <1>10, <2>1, <2>2, <2>3 DEF UnitSet
  <2> QED
    BY <1>4, <2>4 DEF UnitSet, Rekey
<1>15. PICK w2 : w2 = w
  OBVIOUS
<1>16. /\ b.dir = m.dir /\ b.child = m.child /\ b.shlock = m.shlock /\ b.elock = m.elock
       /\ b.locked_children = m.locked_children
  BY <1>13 DEF AinoSet
<1>17. Rekeyed(y, w2, d) /\ w2.ino[d] = b /\ w2.exkeys = r /\ w2.total_locked_ainos = t
  BY <1>4, <1>9, <1>14, <1>15, <1>16, RekeyedBy
<1>18. w2 \in UnitSet /\ d \in Live(w2)
  BY <1>4, <1>17 DEF Rekeyed
<1>19. Good(x) /\ SameUses(y, x) /\ x.exkeys = r
  <2>1. CASE m.exnext_count = 0
    <3>1. x \in populate_directory(w2, d)
      BY <1>12, <1>15, <2>1
    <3>2. PICK n \in Nat : n = Len(m.child)
      BY <1>11
    <3>3. PICK c : c = [w2 EXCEPT !.ino[d].locked_children = @ + Len(w2.ino[d].child),
                               !.total_locked_ainos = @ + Len(w2.ino[d].child)]
      OBVIOUS
    <3>4. c = Rekey(y, d, Begun(m, n), r, t + n)
      <4>1. w2.ino[d] = b /\ Len(w2.ino[d].child) = n
        BY <1>16, <1>17, <3>2
      <4>2. c = [w2 EXCEPT !.ino[d].locked_children = @ + n, !.total_locked_ainos = @ + n]
        BY <3>3, <4>1
      <4>3. PICK g : g = [y.ino EXCEPT ![d] = b]
        OBVIOUS
      <4>4. w2 = [y EXCEPT !.ino = g, !.exkeys = r, !.total_locked_ainos = t]
        BY <1>4, <1>14, <1>15, <4>3 DEF Rekey, UnitSet
      <4>5. [g EXCEPT ![d].locked_children = @ + n] = [y.ino EXCEPT ![d] = Begun(m, n)]
        <5>1. [b EXCEPT !.locked_children = @ + n] = Begun(m, n)
          BY <1>13 DEF Begun, AinoSet
        <5> QED
          BY <1>4, <4>3, <5>1
      <4>6. c = [y EXCEPT !.ino = [g EXCEPT ![d].locked_children = @ + n],
                          !.exkeys = r, !.total_locked_ainos = t + n]
        BY <1>4, <4>2, <4>4 DEF UnitSet
      <4> QED
        BY <1>4, <4>5, <4>6 DEF UnitSet, Rekey
    <3>5. /\ Good(c) /\ SameUses(y, c) /\ Dirs(c) = Dirs(y) /\ Live(c) = Live(y)
          /\ c.exkeys = WithKey(y.exkeys, d)
      <4>1. n = Uncounted(y, d)
        BY <1>9, <2>1, <3>2 DEF Uncounted
      <4>2. c = Begin(y, d, n)
        BY <1>5, <1>6, <1>7, <1>9, <1>10, <3>4 DEF Begin, WithKey
      <4> QED
        BY <1>2, <4>1, <4>2, BeginKeeps
    <3>6. Grown(c, x)
      BY <1>2, <1>18, <3>1, <3>3, <3>5, PopulateKeeps
    <3>7. SameUses(y, x)
      BY <3>5, <3>6, SameUsesAgain DEF Grown
    <3> QED
      BY <1>5, <1>6, <1>7, <3>5, <3>6, <3>7 DEF Grown, WithKey
  <2>2. CASE m.exnext_count # 0
    <3>1. x = w2
      BY <1>12, <1>15, <2>2
    <3>2. PICK n \in Nat : n = 0
      OBVIOUS
    <3>3. n = Uncounted(y, d)
      BY <1>9, <2>2, <3>2 DEF Uncounted
    <3>4. Begun(m, n) = b
      <4>1. PICK e \in Nat : e = m.locked_children
        BY <1>11
      <4>2. m.locked_children + n = e
        BY <3>2, <4>1
      <4>3. PICK a \in Nat : a = m.exnext_count + 1
        BY <1>11
      <4>4. Begun(m, n) = [m EXCEPT !.exnext_count = a, !.locked_children = e]
        BY <4>2, <4>3 DEF Begun
      <4>5. b = [m EXCEPT !.exnext_count = a]
        BY <1>13, <4>3
      <4> QED
        BY <4>1, <4>4, <4>5 DEF AinoSet
    <3>5. w2 = Begin(y, d, n)
      BY <1>5, <1>6, <1>7, <1>9, <1>10, <1>14, <1>15, <3>2, <3>4 DEF Begin, WithKey
    <3>6. Good(w2) /\ SameUses(y, w2) /\ w2.exkeys = WithKey(y.exkeys, d)
      BY <1>2, <3>3, <3>5, BeginKeeps
    <3> QED
      BY <1>17, <3>1, <3>6
  <2> QED
    BY <2>1, <2>2
<1>20. PICK q : q = start_scan(x)
  OBVIOUS
<1>21. Good(q) /\ SameUses(x, q) /\ Len(x.exkeys) \in DOMAIN q.exkeys
  BY <1>8, <1>19, <1>20, StartKeeps
<1>22. Good(z) /\ SameUses(q, z)
  BY <1>20, <1>21, ExamineKeeps
<1> QED
  BY <1>2, <1>19, <1>21, <1>22, SameUsesAgain

-----------------------------------------------------------------------------
(* Deletion.                                                               *)

\* The ExKey k once the child a of its directory is gone; c comes after a.
Advanced(k, a, c) ==
  [k EXCEPT !.curr_file = IF @ = a THEN c ELSE @, !.owed = @ \ {a}]

\* The sibling of a list's member.
After(s, h) == IF h = Len(s) THEN Nil ELSE s[h + 1]

\* An ExKey of the directory a is deleted from, as delete_aino leaves it.
LEMMA AdvancedIs ==
  ASSUME NEW k \in ExKeySet, NEW a \in Path, NEW c \in Path \cup {Nil}
  PROVE  /\ Advanced(k, a, c) \in ExKeySet /\ Advanced(k, a, c).aino = k.aino
         /\ Advanced(k, a, c).curr_file = IF k.curr_file = a THEN c ELSE k.curr_file
         /\ Advanced(k, a, c).owed = k.owed \ {a}
<1>1. PICK x \in Path \cup {Nil} : x = IF k.curr_file = a THEN c ELSE k.curr_file
  BY DEF ExKeySet
<1>2. PICK o \in SUBSET Path : o = k.owed \ {a}
  <2>1. k.owed \ {a} \in SUBSET Path
    BY DEF ExKeySet
  <2> QED
    BY <2>1
<1>3. Advanced(k, a, c) = [k EXCEPT !.curr_file = x, !.owed = o]
  BY <1>1, <1>2 DEF Advanced
<1> QED
  BY <1>1, <1>2, <1>3 DEF ExKeySet

\* A scan that was at the deleted a_inode goes on with its sibling.
LEMMA OnScanUnlinked ==
  ASSUME NEW s, s \in Seq(Path), IsInjective(s), NEW h \in 1..Len(s), NEW a \in Path, a = s[h],
         NEW k \in ExKeySet, OnScan(s, k), NEW y, y = Advanced(k, a, After(s, h))
  PROVE  OnScan(Unlinked(s, a), y)
<1>1. PICK l \in Nat : l = Len(s)
  OBVIOUS
<1>2. h \in 1..l /\ DOMAIN s = 1..l
  BY <1>1
<1>3. Place(s, a) = h
  BY PlaceIs
<1>4. PICK t : t = RemoveAt(s, h)
  OBVIOUS
<1>5. Unlinked(s, a) = t
  BY <1>3, <1>4 DEF Unlinked
<1>6. t \in Seq(Path) /\ Len(t) = l - 1 /\ \A j \in 1..(l - 1) : t[j] = IF j < h THEN s[j] ELSE s[j + 1]
  BY <1>1, <1>4, RemoveAtIs
<1>7. DOMAIN t = 1..(l - 1)
  BY <1>6
<1>8. PICK c \in Path \cup {Nil} : c = After(s, h)
  <2>1. h # l => s[h + 1] \in Path
    BY <1>1, <1>2
  <2> QED
    BY <1>1, <2>1 DEF After
<1>9. c = IF h = l THEN Nil ELSE s[h + 1]
  BY <1>1, <1>8 DEF After
<1>10. /\ y \in ExKeySet /\ y.curr_file = IF k.curr_file = a THEN c ELSE k.curr_file
       /\ y.owed = k.owed \ {a}
  BY <1>8, AdvancedIs
<1>11. a # Nil
  BY NilIsNoPath
<1>12. \A j \in 1..l : s[j] = a => j = h
  BY <1>2 DEF IsInjective
<1>13. CASE k.curr_file = Nil /\ k.owed = {}
  BY <1>5, <1>10, <1>11, <1>13 DEF OnScan
<1>14. CASE ~(k.curr_file = Nil /\ k.owed = {})
  <2>1. PICK n \in 1..l : k.curr_file = s[n] /\ k.owed = {s[j] : j \in n..l}
    <3>1. PICK n \in DOMAIN s : k.curr_file = s[n] /\ k.owed = {s[j] : j \in n..Len(s)}
      BY <1>14 DEF OnScan
    <3> QED
      BY <1>1, <1>2, <3>1
  <2>2. PICK m \in 1..l : m = IF n <= h THEN n ELSE n - 1
    BY <1>2
  <2>3. k.owed \ {a} = {t[j] : j \in m..(l - 1)}
    <3>1. ASSUME NEW x \in k.owed \ {a} PROVE x \in {t[j] : j \in m..(l - 1)}
      <4>1. PICK j \in n..l : x = s[j]
        BY <2>1
      <4>2. j # h /\ j \in 1..l
        BY <3>1, <4>1
      <4>3. CASE j < h
        <5>1. j \in m..(l - 1) /\ j \in 1..(l - 1)
          BY <1>2, <2>2, <4>1, <4>2, <4>3
        <5>2. t[j] = s[j]
          BY <1>6, <4>3, <5>1
        <5> QED
          BY <4>1, <5>1, <5>2
      <4>4. CASE j > h
        <5>1. PICK g \in 1..(l - 1) : g = j - 1
          BY <1>2, <4>2, <4>4
        <5>2. g \in m..(l - 1) /\ ~(g < h) /\ g + 1 = j
          BY <1>2, <2>2, <4>1, <4>2, <4>4, <5>1
        <5>3. t[g] = s[j]
          BY <1>6, <5>2
        <5> QED
          BY <4>1, <5>2, <5>3
      <4> QED
        BY <1>2, <4>2, <4>3, <4>4
    <3>2. ASSUME NEW j \in m..(l - 1) PROVE t[j] \in k.owed \ {a}
      <4>1. j \in 1..(l - 1)
        BY <2>2
      <4>2. CASE j < h
        <5>1. t[j] = s[j] /\ j \in n..l /\ j # h /\ j \in 1..l
          BY <1>2, <1>6, <2>2, <4>1, <4>2
        <5> QED
          BY <1>12, <2>1, <5>1
      <4>3. CASE ~(j < h)
        <5>1. t[j] = s[j + 1] /\ j + 1 \in n..l /\ j + 1 # h /\ j + 1 \in 1..l
          BY <1>2, <1>6, <2>2, <4>1, <4>3
        <5> QED
          BY <1>12, <2>1, <5>1
      <4> QED
        BY <4>2, <4>3
    <3> QED
      BY <3>1, <3>2
  <2>4. CASE n = h /\ h = l
    <3>1. y.curr_file = Nil
      BY <1>9, <1>10, <2>1, <2>4
    <3>2. m..(l - 1) = {}
      BY <2>2, <2>4
    <3>3. y.owed = {}
      BY <1>10, <2>3, <3>2
    <3> QED
      BY <1>5, <3>1, <3>3 DEF OnScan
  <2>5. CASE ~(n = h /\ h = l)
    <3>1. m \in 1..(l - 1)
      BY <1>2, <2>2, <2>5
    <3>2. y.curr_file = t[m]
      <4>1. CASE n = h
        <5>1. y.curr_file = s[h + 1] /\ m = h
          BY <1>9, <1>10, <2>1, <2>2, <2>5, <4>1
        <5> QED
          BY <1>6, <3>1, <5>1
      <4>2. CASE n < h
        <5>1. s[n] # a /\ m = n
          BY <1>2, <1>12, <2>2, <4>2
        <5>2. t[m] = s[n]
          BY <1>6, <3>1, <4>2, <5>1
        <5> QED
          BY <1>10, <2>1, <5>1, <5>2
      <4>3. CASE n > h
        <5>1. s[n] # a /\ m = n - 1 /\ ~(m < h) /\ m + 1 = n
          BY <1>2, <1>12, <2>2, <4>3
        <5>2. t[m] = s[n]
          BY <1>6, <3>1, <5>1
        <5> QED
          BY <1>10, <2>1, <5>1, <5>2
      <4> QED
        BY <1>2, <4>1, <4>2, <4>3
    <3>3. y.owed = {t[j] : j \in m..Len(t)}
      BY <1>6, <1>10, <2>3
    <3>4. m \in DOMAIN t
      BY <1>7, <3>1
    <3> HIDE <1>4
    <3>5. OnScan(t, y)
      BY <3>2, <3>3, <3>4 DEF OnScan
    <3> QED
      BY <1>5, <3>5
  <2> QED
    BY <2>4, <2>5
<1> QED
  BY <1>13, <1>14

\* An a_inode nobody uses, scans or lives in goes; scans of its directory
\* that were at it are at the next.
LEMMA DeleteKeeps ==
  ASSUME NEW u, Good(u), NEW a \in Live(u), a # Root, ~InUse(u, a),
         u.ino[a].child = <<>>, u.ino[a].exnext_count = 0,
         NEW v, v = delete_aino(u, a)
  PROVE  Good(v) /\ SameUses(u, v) /\ Live(v) = Live(u) \ {a}
<1>1. Typed(u) /\ Tree(u) /\ Chain(u) /\ Scans(u) /\ Totals(u) /\ Silent(u)
  BY DEF Good
<1>2. /\ u \in UnitSet /\ IsFiniteSet(Live(u)) /\ u.ino \in [Live(u) -> AinoSet]
      /\ Live(u) \in SUBSET Path
  BY <1>1, UnitType DEF Typed
<1>3. a \in Path
  BY <1>2
<1>4. PICK p \in Path : p = parent(a)
  BY <1>3, PathUp
<1>5. p \in Live(u) /\ p # a
  <2>1. p \in Live(u)
    BY <1>1, <1>4 DEF Tree
  <2>2. p # a
    <3>1. Len(a) \in Nat /\ Len(p) = Len(a) - 1
      BY <1>3, <1>4, PathUp
    <3> QED
      BY <3>1
  <2> QED
    BY <2>1, <2>2
<1>6. PICK m \in AinoSet : m = u.ino[p]
  BY <1>2, <1>5
<1>7. PICK s \in Seq(Path) : s = m.child
  BY DEF AinoSet
<1>8. PICK l \in Nat : l = Len(s)
  OBVIOUS
<1>9. IsInjective(s) /\ ToSet(s) = {c \in Live(u) \ {Root} : parent(c) = p}
  BY <1>1, <1>5, <1>6, <1>7 DEF Tree
<1>10. a \in ToSet(s)
  BY <1>4, <1>9
<1>11. PICK h \in 1..l : a = s[h]
  BY <1>8, <1>10 DEF ToSet
<1>12. PICK t \in Seq(Path) : t = Unlinked(s, a)
  BY <1>9, <1>10, UnlinkedIs
<1>13. IsInjective(t) /\ ToSet(t) = ToSet(s) \ {a} /\ Len(t) = l - 1
  BY <1>8, <1>9, <1>10, <1>12, UnlinkedIs
<1>14. PICK x \in SUBSET (Names \X BOOLEAN) :
          x = m.unseen \cup (IF u.ino[a].real THEN {<<aname(a), u.ino[a].dir>>} ELSE {})
  <2>1. m.unseen \in SUBSET (Names \X BOOLEAN)
    BY DEF AinoSet
  <2>2. <<aname(a), u.ino[a].dir>> \in Names \X BOOLEAN
    BY <1>2, <1>3, PathUp, UnitType
  <2>3. m.unseen \cup (IF u.ino[a].real THEN {<<aname(a), u.ino[a].dir>>} ELSE {})
          \in SUBSET (Names \X BOOLEAN)
    BY <2>1, <2>2
  <2> QED
    BY <2>3
<1>15. PICK n : n = [m EXCEPT !.child = t, !.unseen = x]
  OBVIOUS
<1>16. /\ n \in AinoSet /\ n.child = t /\ n.dir = m.dir /\ n.shlock = m.shlock
       /\ n.elock = m.elock /\ n.locked_children = m.locked_children
       /\ n.exnext_count = m.exnext_count
  BY <1>15 DEF AinoSet
<1>17. PICK ks \in Seq(ExKeySet) : ks = u.exkeys
  BY <1>2, UnitType
<1>18. PICK c \in Path \cup {Nil} : c = After(s, h)
  <2>1. h # l => s[h + 1] \in Path
    BY <1>8, <1>11
  <2> QED
    BY <1>8, <2>1 DEF After
<1>19. sibling(u, a) = c
  <2>1. Place(s, a) = h
    BY <1>8, <1>9, <1>11, PlaceIs
  <2> QED
    BY <1>4, <1>6, <1>7, <1>8, <1>11, <1>18, <2>1 DEF sibling, After
<1> DEFINE Adv(k) == IF k.aino # p THEN k ELSE Advanced(k, a, c)
           r == [i \in DOMAIN ks |-> Adv(ks[i])]
<1>20. \A k \in ExKeySet : Adv(k) \in ExKeySet /\ Adv(k).aino = k.aino
  BY <1>3, AdvancedIs
<1>21. r \in Seq(ExKeySet) /\ Len(r) = Len(ks) /\ DOMAIN r = DOMAIN ks
         /\ \A i \in DOMAIN ks : r[i] = Adv(ks[i])
  <2>1. PICK z \in Nat : z = Len(ks)
    OBVIOUS
  <2>2. DOMAIN ks = 1..z /\ \A i \in 1..z : ks[i] \in ExKeySet
    BY <2>1
  <2> HIDE DEF Adv
  <2>3. r \in [1..z -> ExKeySet]
    BY <1>20, <2>2
  <2> QED
    BY <2>1, <2>2, <2>3
<1>22. m.exnext_count = CountOf(ks, p)
  BY <1>1, <1>5, <1>6, <1>17 DEF Scans
<1>23. m.exnext_count = 0 => r = ks
  <2> SUFFICES ASSUME m.exnext_count = 0 PROVE r = ks
    OBVIOUS
  <2>1. \A i \in DOMAIN ks : ks[i].aino # p
    BY <1>22, CountType
  <2>2. r = [i \in DOMAIN ks |-> ks[i]]
    BY <2>1
  <2>3. ks = [i \in DOMAIN ks |-> ks[i]]
    OBVIOUS
  <2> QED
    BY <2>2, <2>3
<1>24. PICK v1 : v1 = IF m.exnext_count = 0 THEN u ELSE [u EXCEPT !.exkeys = r]
  OBVIOUS
<1>25. v = dispose_aino(de_recycle_aino(v1, a), a)
  <2> DEFINE g == [i \in DOMAIN u.exkeys |->
                     IF u.exkeys[i].aino # parent(a) THEN u.exkeys[i]
                     ELSE [u.exkeys[i] EXCEPT !.curr_file = IF @ = a THEN sibling(u, a) ELSE @,
                                              !.owed = @ \ {a}]]
             w == IF u.ino[parent(a)].exnext_count = 0 THEN u ELSE [u EXCEPT !.exkeys = g]
  <2>1. delete_aino(u, a) = dispose_aino(de_recycle_aino(w, a), a)
    BY DEF delete_aino
  <2> HIDE DEF w
  <2>2. v = dispose_aino(de_recycle_aino(w, a), a)
    BY <2>1
  <2>3. g = r
    <3>1. DOMAIN g = DOMAIN ks /\ DOMAIN r = DOMAIN ks
      BY <1>17
    <3>2. ASSUME NEW i \in DOMAIN ks PROVE g[i] = r[i]
      BY <1>4, <1>17, <1>19 DEF Advanced
    <3>3. g = [i \in DOMAIN ks |-> g[i]] /\ r = [i \in DOMAIN ks |-> r[i]]
      BY <1>17
    <3> HIDE DEF g, r
    <3> QED
      BY <3>2, <3>3
  <2> HIDE DEF g
  <2>4. w = v1
    BY <1>4, <1>6, <1>24, <2>3 DEF w
  <2> QED
    BY <2>2, <2>4
<1> HIDE DEF r, Adv
<1>26. v1 = [u EXCEPT !.exkeys = r]
  <2>1. CASE m.exnext_count = 0
    <3>1. u = [u EXCEPT !.exkeys = ks]
      BY <1>2, <1>17 DEF UnitSet
    <3> QED
      BY <1>23, <1>24, <2>1, <3>1
  <2> QED
    BY <1>24, <2>1
<1>27. /\ IsFiniteSet(u.chained) /\ u.chained \in SUBSET Path
       /\ u.aino_cache_size \in Int /\ u.aino_cache_size = Cardinality(u.chained)
  <2>1. u.chained \in SUBSET Live(u)
    BY <1>1 DEF Chain
  <2> QED
    BY <1>1, <1>2, <2>1, FS_Subset DEF UnitSet, Chain
<1>28. PICK ch \in SUBSET Path : ch = u.chained \ {a}
  <2>1. u.chained \ {a} \in SUBSET Path
    BY <1>27
  <2> QED
    BY <2>1
<1>29. PICK cs \in Int : cs = IF a \in u.chained THEN u.aino_cache_size - 1 ELSE u.aino_cache_size
  BY <1>27
<1>30. PICK v2 : v2 = de_recycle_aino(v1, a)
  OBVIOUS
<1>31. v2 = [u EXCEPT !.exkeys = r, !.chained = ch, !.aino_cache_size = cs]
  <2>1. v1.chained = u.chained /\ v1.aino_cache_size = u.aino_cache_size
    BY <1>2, <1>26 DEF UnitSet
  <2>2. CASE a \in u.chained
    BY <1>2, <1>26, <1>28, <1>29, <1>30, <2>1, <2>2 DEF de_recycle_aino, UnitSet
  <2>3. CASE a \notin u.chained
    <3>1. ch = u.chained /\ cs = u.aino_cache_size /\ v2 = v1
      BY <1>28, <1>29, <1>30, <2>1, <2>3 DEF de_recycle_aino
    <3> QED
      BY <1>2, <1>26, <3>1 DEF UnitSet
  <2> QED
    BY <2>2, <2>3
<1> DEFINE f == [b \in Live(u) \ {a} |-> IF b = p THEN n ELSE u.ino[b]]
<1>32. f \in [Live(u) \ {a} -> AinoSet] /\ Live(u) \ {a} \in SUBSET Path
  BY <1>2, <1>16
<1>33. f[p] = n /\ \A b \in Live(u) \ {a} : b # p => f[b] = u.ino[b]
  BY <1>5
<1>34. v = [u EXCEPT !.ino = f, !.exkeys = r, !.chained = ch, !.aino_cache_size = cs]
  <2>1. v2.ino = u.ino
    BY <1>2, <1>31 DEF UnitSet
  <2>2. PICK y : y = IF u.ino[a].real THEN {<<aname(a), u.ino[a].dir>>} ELSE {}
    OBVIOUS
  <2>3. PICK g : g = [u.ino EXCEPT ![p] = n]
    OBVIOUS
  <2>4. PICK w : w = [v2 EXCEPT !.ino[p].child = Unlinked(@, a), !.ino[p].unseen = @ \cup y]
    OBVIOUS
  <2>5. w = [v2 EXCEPT !.ino = g]
    <3>1. [u.ino EXCEPT ![p].child = Unlinked(@, a), ![p].unseen = @ \cup y] = g
      BY <1>2, <1>5, <1>6, <1>7, <1>12, <1>14, <1>15, <2>2, <2>3
    <3>2. w = [v2 EXCEPT !.ino = [u.ino EXCEPT ![p].child = Unlinked(@, a), ![p].unseen = @ \cup y]]
      <4>1. v2 \in UnitSet
        BY <1>2, <1>21, <1>31 DEF UnitSet
      <4> QED
        BY <2>1, <2>4, <4>1 DEF UnitSet
    <3> QED
      BY <3>1, <3>2
  <2>6. w = [u EXCEPT !.ino = g, !.exkeys = r, !.chained = ch, !.aino_cache_size = cs]
    BY <1>2, <1>31, <2>5 DEF UnitSet
  <2>7. w.ino = g /\ Live(w) = Live(u)
    BY <1>2, <2>3, <2>6 DEF UnitSet, Live
  <2>8. v = [w EXCEPT !.ino = Restrict(@, Live(w) \ {a})]
    BY <1>4, <1>25, <1>30, <2>1, <2>2, <2>4 DEF dispose_aino
  <2>9. Restrict(g, Live(u) \ {a}) = f
    BY <1>2, <2>3 DEF Restrict
  <2>10. v = [w EXCEPT !.ino = f]
    BY <2>7, <2>8, <2>9
  <2> HIDE DEF f
  <2> QED
    BY <1>2, <2>6, <2>10 DEF UnitSet
<1> HIDE DEF f
<1>35. /\ v \in UnitSet /\ v.ino = f /\ v.exkeys = r /\ v.chained = ch
       /\ v.aino_cache_size = cs
       /\ v.total_locked_ainos = u.total_locked_ainos /\ v.logged = u.logged
  <2>1. f \in InoSet
    BY <1>32 DEF InoSet
  <2> QED
    BY <1>2, <1>21, <1>34, <2>1 DEF UnitSet
<1>36. Live(v) = Live(u) \ {a}
  BY <1>32, <1>35 DEF Live
<1>37. ASSUME NEW b \in Live(v)
       PROVE  /\ b \in Live(u) /\ b # a
              /\ v.ino[b].dir = u.ino[b].dir /\ v.ino[b].shlock = u.ino[b].shlock
              /\ v.ino[b].elock = u.ino[b].elock
              /\ v.ino[b].locked_children = u.ino[b].locked_children
              /\ v.ino[b].exnext_count = u.ino[b].exnext_count
              /\ v.ino[b].child = IF b = p THEN t ELSE u.ino[b].child
  <2>1. CASE b = p
    BY <1>5, <1>6, <1>16, <1>33, <1>35, <2>1
  <2>2. CASE b # p
    BY <1>33, <1>35, <1>36, <2>2
  <2> QED
    BY <1>36, <2>1, <2>2
<1>38. Dirs(v) = Dirs(u) \ {a}
  BY <1>36, <1>37 DEF Dirs
<1>39. Typed(v)
  <2>1. IsFiniteSet(Live(u) \ {a})
    BY <1>2, FS_RemoveElement
  <2> QED
    BY <1>35, <1>36, <2>1 DEF Typed
<1>40. \A b \in Live(u) \ {Root} : parent(b) # a
  <2>1. ToSet(u.ino[a].child) = {}
    BY DEF ToSet
  <2> QED
    BY <1>1, <2>1 DEF Tree
<1>41. Tree(v)
  <2>1. Root \in Dirs(v)
    BY <1>1, <1>38 DEF Tree
  <2>2. \A b \in Live(v) \ {Root} : parent(b) \in Live(v)
    BY <1>1, <1>36, <1>40 DEF Tree
  <2>3. ASSUME NEW b \in Live(v)
        PROVE  /\ IsInjective(v.ino[b].child)
               /\ ToSet(v.ino[b].child) = {e \in Live(v) \ {Root} : parent(e) = b}
               /\ v.ino[b].child # <<>> => v.ino[b].dir
    <3>1. CASE b = p
      <4>1. v.ino[b].child = t
        BY <1>37, <3>1
      <4>2. u.ino[p].dir
        <5>1. s # <<>>
          BY <1>10 DEF ToSet
        <5> QED
          BY <1>1, <1>5, <1>6, <1>7, <5>1 DEF Tree
      <4>3. v.ino[b].dir
        BY <1>37, <3>1, <4>2
      <4>4. ToSet(t) = {e \in Live(v) \ {Root} : parent(e) = b}
        BY <1>9, <1>13, <1>36, <3>1
      <4> QED
        BY <1>13, <4>1, <4>3, <4>4
    <3>2. CASE b # p
      <4>1. v.ino[b].child = u.ino[b].child /\ v.ino[b].dir = u.ino[b].dir /\ b \in Live(u)
        BY <1>37, <3>2
      <4>2. {e \in Live(v) \ {Root} : parent(e) = b} = {e \in Live(u) \ {Root} : parent(e) = b}
        BY <1>4, <1>36, <3>2
      <4> QED
        BY <1>1, <4>1, <4>2 DEF Tree
    <3> QED
      BY <3>1, <3>2
  <2> QED
    BY <2>1, <2>2, <2>3 DEF Tree
<1>42. Chain(v)
  <2>1. v.chained \subseteq Live(v) \ Dirs(v)
    BY <1>1, <1>28, <1>35, <1>36, <1>38 DEF Chain
  <2>2. ASSUME NEW b \in v.chained PROVE ~InUse(v, b)
    <3>1. b \in u.chained /\ b \in Live(v)
      BY <1>28, <1>35, <2>1
    <3>2. ~InUse(u, b)
      BY <1>1, <3>1 DEF Chain
    <3> QED
      BY <1>37, <3>1, <3>2 DEF InUse
  <2>3. Cardinality(u.chained \ {a}) = IF a \in u.chained THEN Cardinality(u.chained) - 1 ELSE Cardinality(u.chained)
    BY <1>27, FS_RemoveElement
  <2> QED
    BY <1>27, <1>28, <1>29, <1>35, <2>1, <2>2, <2>3 DEF Chain
<1>43. \A i \in DOMAIN ks : ks[i].aino # a
  <2>1. CountOf(ks, a) = 0
    BY <1>1, <1>17 DEF Scans
  <2> QED
    BY <2>1, CountType
<1>44. Scans(v)
  <2>1. ASSUME NEW i \in DOMAIN v.exkeys
        PROVE  /\ v.exkeys[i].aino \in Dirs(v)
               /\ OnScan(v.ino[v.exkeys[i].aino].child, v.exkeys[i])
    <3>1. PICK k \in ExKeySet : k = ks[i] /\ i \in DOMAIN ks
      BY <1>21, <1>35
    <3>2. k.aino \in Dirs(u) /\ OnScan(u.ino[k.aino].child, k)
      BY <1>1, <1>17, <3>1 DEF Scans
    <3>3. PICK y : y = Adv(k)
      OBVIOUS
    <3>4. v.exkeys[i] = y /\ y.aino = k.aino
      BY <1>20, <1>21, <1>35, <3>1, <3>3
    <3>5. k.aino \in Dirs(v) /\ k.aino \in Live(v)
      <4>1. k.aino \in Dirs(v)
        BY <1>38, <1>43, <3>1, <3>2
      <4> QED
        BY <4>1 DEF Dirs
    <3>6. OnScan(v.ino[k.aino].child, y)
      <4>1. CASE k.aino = p
        <5>1. y = Advanced(k, a, After(s, h))
          BY <1>18, <3>3, <4>1 DEF Adv
        <5>2. OnScan(s, k)
          BY <1>6, <1>7, <3>2, <4>1
        <5>3. OnScan(t, y)
          BY <1>3, <1>8, <1>9, <1>11, <1>12, <5>1, <5>2, OnScanUnlinked
        <5> QED
          BY <1>37, <3>5, <4>1, <5>3
      <4>2. CASE k.aino # p
        <5>1. y = k
          BY <3>3, <4>2 DEF Adv
        <5> QED
          BY <1>37, <3>2, <3>5, <4>2, <5>1
      <4> QED
        BY <4>1, <4>2
    <3> QED
      BY <3>4, <3>5, <3>6
  <2>2. \A i \in DOMAIN ks : ks[i].aino = r[i].aino
    BY <1>20, <1>21
  <2>3. \A b : CountOf(r, b) = CountOf(ks, b)
    BY <1>21, <2>2, CountSame
  <2>4. ASSUME NEW b \in Live(v)
        PROVE  /\ v.ino[b].exnext_count = CountOf(v.exkeys, b)
               /\ v.ino[b].exnext_count = 0 => v.ino[b].locked_children = 0
               /\ v.ino[b].exnext_count > 0 =>
                    v.ino[b].locked_children >= Len(v.ino[b].child)
    <3>1. /\ u.ino[b].exnext_count = CountOf(ks, b)
          /\ u.ino[b].exnext_count = 0 => u.ino[b].locked_children = 0
          /\ u.ino[b].exnext_count > 0 =>
                    u.ino[b].locked_children >= Len(u.ino[b].child)
      BY <1>1, <1>17, <1>37 DEF Scans
    <3>2. v.ino[b].exnext_count = CountOf(v.exkeys, b)
      BY <1>35, <1>37, <2>3, <3>1
    <3>3. v.ino[b].exnext_count > 0 => v.ino[b].locked_children >= Len(v.ino[b].child)
      <4>1. CASE b = p
        <5>1. Len(v.ino[b].child) = l - 1 /\ Len(u.ino[b].child) = l
          BY <1>6, <1>7, <1>8, <1>13, <1>37, <4>1
        <5>2. u.ino[b].locked_children \in Nat
          BY <1>2, <1>37, UnitType
        <5> QED
          BY <1>37, <3>1, <5>1, <5>2
      <4>2. CASE b # p
        BY <1>37, <3>1, <4>2
      <4> QED
        BY <4>1, <4>2
    <3> QED
      BY <1>37, <3>1, <3>2, <3>3
  <2> QED
    BY <2>1, <2>4 DEF Scans
<1>45. Totals(v)
  <2>1. ASSUME NEW b \in Path PROVE Locked(v, b) = Locked(u, b)
    <3>1. CASE b = a
      <4>1. u.ino[a].locked_children = 0
        BY <1>1 DEF Scans
      <4> QED
        BY <1>38, <3>1, <4>1 DEF Locked
    <3>2. CASE b # a
      <4>1. b \in Dirs(v) => v.ino[b].locked_children = u.ino[b].locked_children
        BY <1>37 DEF Dirs
      <4> QED
        BY <1>38, <3>2, <4>1 DEF Locked
    <3> QED
      BY <3>1, <3>2
  <2>2. Counted(v) = Counted(u)
    BY <1>1, <1>39, <2>1, TotalSame
  <2> QED
    BY <1>1, <1>35, <2>2 DEF Totals
<1>46. SameUses(u, v)
  <2> SUFFICES ASSUME NEW b \in Path
               PROVE  Shared(v, b) = Shared(u, b) /\ Exclusive(v, b) = Exclusive(u, b)
    BY DEF SameUses
  <2>1. CASE b = a
    <3>1. u.ino[a].shlock = 0 /\ ~u.ino[a].elock
      <4>1. u.ino[a].shlock \in Nat
        BY <1>2, UnitType
      <4> QED
        BY <4>1 DEF InUse
    <3> QED
      BY <1>36, <2>1, <3>1 DEF Shared, Exclusive
  <2>2. CASE b # a
    BY <1>36, <1>37, <2>2 DEF Shared, Exclusive
  <2> QED
    BY <2>1, <2>2
<1> QED
  BY <1>1, <1>35, <1>36, <1>39, <1>41, <1>42, <1>44, <1>45, <1>46 DEF Good, Silent

-----------------------------------------------------------------------------
(* Paths that move when a directory is renamed.                            *)

\* b lies below f.
Under(f, b) == Len(f) < Len(b) /\ \A i \in 1..Len(f) : f[i] = b[i]

\* A path is a list of names.
LEMMA PathLen ==
  ASSUME NEW a \in Path
  PROVE  a \in Seq(Names) /\ Len(a) \in Nat /\ \A i \in 1..Len(a) : a[i] \in Names
BY DEF Path

\* Two paths are the same when their names are.
LEMMA PathEqual ==
  ASSUME NEW a \in Path, NEW b \in Path, Len(a) = Len(b), \A i \in 1..Len(a) : a[i] = b[i]
  PROVE  a = b
BY SeqEqual DEF Path

\* A strict prefix, name by name.
LEMMA UnderIs ==
  ASSUME NEW f \in Path, NEW b \in Path
  PROVE  IsStrictPrefix(f, b) <=> Under(f, b)
<1>1. PICK m \in Nat : m = Len(f)
  BY PathLen
<1>2. PICK n \in Nat : n = Len(b)
  BY PathLen
<1>3. PICK g : g = SubSeq(f, 1, m)
  OBVIOUS
<1>4. PICK c : c = SubSeq(b, 1, m)
  OBVIOUS
<1>5. g = f
  BY <1>1, <1>3, SubSeqFull DEF Path
<1>6. m <= n => c \in Path /\ Len(c) = m /\ \A i \in 1..m : c[i] = b[i]
  <2>1. m <= n => \A i \in 1..m : b[i] \in Names
    BY <1>2, PathLen
  <2> QED
    BY <1>4, <2>1, SubSeqProperties DEF Path
<1>7. IsPrefix(f, b) <=> m <= n /\ f = c
  BY <1>1, <1>2, <1>3, <1>4, <1>5 DEF IsPrefix
<1>8. ASSUME IsStrictPrefix(f, b) PROVE Under(f, b)
  <2>1. m <= n /\ f = c /\ f # b
    BY <1>7, <1>8 DEF IsStrictPrefix
  <2>2. \A i \in 1..m : f[i] = b[i]
    BY <1>6, <2>1
  <2>3. m # n
    BY <1>1, <1>2, <2>1, <2>2, PathEqual
  <2> QED
    BY <1>1, <1>2, <2>1, <2>2, <2>3 DEF Under
<1>9. ASSUME Under(f, b) PROVE IsStrictPrefix(f, b)
  <2>1. m < n /\ \A i \in 1..m : f[i] = b[i]
    BY <1>1, <1>2, <1>9 DEF Under
  <2>2. c \in Path /\ Len(c) = m /\ \A i \in 1..m : c[i] = f[i]
    BY <1>6, <2>1
  <2>3. f = c
    BY <1>1, <2>2, PathEqual
  <2>4. f # b
    BY <1>1, <1>2, <2>1
  <2> QED
    BY <1>7, <2>1, <2>3, <2>4 DEF IsStrictPrefix
<1> QED
  BY <1>8, <1>9

\* x is t followed by what b has after its first Len(f) names.
Shifted(x, f, t, b) ==
  /\ Len(x) = Len(t) + (Len(b) - Len(f))
  /\ \A i \in 1..Len(t) : x[i] = t[i]
  /\ \A i \in 1..(Len(b) - Len(f)) : x[Len(t) + i] = b[Len(f) + i]

\* What lies below f moves to below t, and the rest stays.
LEMMA MovedIs ==
  ASSUME NEW f \in Path, NEW t \in Path, NEW b \in Path
  PROVE  /\ Moved(b, f, t) \in Path
         /\ ~Under(f, b) => Moved(b, f, t) = b
         /\ Under(f, b) => Shifted(Moved(b, f, t), f, t, b)
<1>1. PICK m \in Nat : m = Len(f)
  BY PathLen
<1>2. PICK n \in Nat : n = Len(b)
  BY PathLen
<1>3. PICK k \in Nat : k = Len(t)
  BY PathLen
<1>4. PICK x : x = Moved(b, f, t)
  OBVIOUS
<1>5. CASE ~Under(f, b)
  BY <1>5, UnderIs DEF Moved
<1>6. CASE Under(f, b)
  <2>1. PICK r : r = SubSeq(b, m + 1, n)
    OBVIOUS
  <2>2. x = t \o r
    BY <1>1, <1>2, <1>4, <1>6, <2>1, UnderIs DEF Moved
  <2>3. m < n
    BY <1>1, <1>2, <1>6 DEF Under
  <2>4. r \in Seq(Names) /\ Len(r) = n - m /\ \A i \in 1..(n - m) : r[i] = b[m + i]
    <3>1. \A i \in (m + 1)..n : b[i] \in Names
      BY <1>2, PathLen
    <3>2. r \in Seq(Names) /\ Len(r) = (IF m + 1 <= n THEN n - (m + 1) + 1 ELSE 0)
            /\ \A i \in 1..(n - (m + 1) + 1) : r[i] = b[m + 1 + i - 1]
      BY <2>1, <3>1, SubSeqProperties
    <3>3. \A i \in 1..(n - m) : m + 1 + i - 1 = m + i
      OBVIOUS
    <3>4. n - (m + 1) + 1 = n - m
      OBVIOUS
    <3> QED
      BY <2>3, <3>2, <3>3, <3>4
  <2>5. t \in Seq(Names)
    BY PathLen
  <2>6. /\ x \in Seq(Names) /\ Len(x) = k + (n - m)
        /\ \A i \in 1..(k + (n - m)) : x[i] = IF i <= k THEN t[i] ELSE r[i - k]
    <3>1. PICK l \in Nat : l = Len(r)
      BY <2>4
    <3>2. r \in Seq(Names)
      BY <2>4
    <3>3. /\ x \in Seq(Names) /\ Len(x) = Len(t) + Len(r)
          /\ \A i \in 1..(Len(t) + Len(r)) : x[i] = IF i <= Len(t) THEN t[i] ELSE r[i - Len(t)]
      BY <2>2, <2>5, <3>2, ConcatProperties
    <3>4. l = n - m
      BY <2>4, <3>1
    <3> QED
      BY <1>3, <3>1, <3>3, <3>4
  <2>7. \A i \in 1..k : x[i] = t[i]
    BY <2>3, <2>6
  <2>8. ASSUME NEW i \in 1..(n - m) PROVE x[k + i] = b[m + i]
    <3>1. k + i \in 1..(k + (n - m)) /\ ~(k + i <= k) /\ (k + i) - k = i
      OBVIOUS
    <3>2. x[k + i] = r[(k + i) - k]
      BY <2>6, <3>1
    <3> QED
      BY <2>4, <3>1, <3>2
  <2>9. Shifted(x, f, t, b)
    BY <1>1, <1>2, <1>3, <2>6, <2>7, <2>8 DEF Shifted
  <2> QED
    BY <1>4, <1>6, <2>6, <2>9 DEF Path
<1> QED
  BY <1>5, <1>6

\* The parent moves too, unless it is the directory renamed itself.
LEMMA MovedParent ==
  ASSUME NEW f \in Path, NEW t \in Path, NEW b \in Path, b # Root
  PROVE  /\ Moved(b, f, t) \in Path \ {Root}
         /\ parent(Moved(b, f, t)) = IF parent(b) = f THEN t ELSE Moved(parent(b), f, t)
<1>1. PICK m \in Nat : m = Len(f)
  BY PathLen
<1>2. PICK n \in Nat : n = Len(b)
  BY PathLen
<1>3. PICK k \in Nat : k = Len(t)
  BY PathLen
<1>4. PICK x \in Path : x = Moved(b, f, t)
  BY MovedIs
<1>5. PICK p \in Path : p = parent(b)
  BY PathUp
<1>6. n >= 1 /\ Len(p) = n - 1 /\ \A i \in 1..(n - 1) : p[i] = b[i]
  BY <1>2, <1>5, PathUp
<1>7. CASE ~Under(f, b)
  <2>1. x = b
    BY <1>4, <1>7, MovedIs
  <2>2. p # f
    <3>1. p = f => Under(f, b)
      BY <1>1, <1>2, <1>6 DEF Under
    <3> QED
      BY <1>7, <3>1
  <2>3. ~Under(f, p)
    <3>1. ASSUME Under(f, p) PROVE Under(f, b)
      <4>1. m < n - 1 /\ \A i \in 1..m : f[i] = p[i]
        BY <1>1, <1>6, <3>1 DEF Under
      <4>2. m < n /\ \A i \in 1..m : f[i] = b[i]
        BY <1>6, <4>1
      <4> QED
        BY <1>1, <1>2, <4>2 DEF Under
    <3> QED
      BY <1>7, <3>1
  <2>4. Moved(p, f, t) = p
    BY <2>3, MovedIs
  <2> QED
    BY <1>4, <1>5, <2>1, <2>2, <2>4
<1>8. CASE Under(f, b)
  <2>1. m < n /\ \A i \in 1..m : f[i] = b[i]
    BY <1>1, <1>2, <1>8 DEF Under
  <2>2a. Shifted(x, f, t, b)
    BY <1>4, <1>8, MovedIs
  <2>2. /\ Len(x) = k + n - m /\ \A i \in 1..k : x[i] = t[i]
        /\ \A i \in 1..(n - m) : x[k + i] = b[m + i]
    BY <1>1, <1>2, <1>3, <2>2a DEF Shifted
  <2>3. x # Root
    BY <2>1, <2>2, RootIsPath
  <2>4. PICK q \in Path : q = parent(x)
    BY <2>3, PathUp
  <2>5. Len(q) = k + n - m - 1 /\ \A i \in 1..(k + n - m - 1) : q[i] = x[i]
    <3>1. Len(q) = Len(x) - 1 /\ \A i \in 1..(Len(x) - 1) : q[i] = x[i]
      BY <2>3, <2>4, PathUp
    <3> QED
      BY <2>2, <3>1
  <2>6. CASE m = n - 1
    <3>1. p = f
      BY <1>1, <1>6, <2>1, <2>6, PathEqual
    <3>2. Len(q) = k /\ \A i \in 1..k : q[i] = t[i]
      BY <2>2, <2>5, <2>6
    <3>3. q = t
      BY <1>3, <3>2, PathEqual
    <3> QED
      BY <1>4, <1>5, <2>3, <2>4, <3>1, <3>3
  <2>7. CASE m # n - 1
    <3>1. m < n - 1
      BY <2>1, <2>7
    <3>2. p # f
      BY <1>1, <1>6, <3>1
    <3>3. Under(f, p)
      <4>1. \A i \in 1..m : f[i] = p[i]
        BY <1>6, <2>1, <3>1
      <4> QED
        BY <1>1, <1>6, <3>1, <4>1 DEF Under
    <3>4. PICK y \in Path : y = Moved(p, f, t)
      BY MovedIs
    <3>5. /\ Len(y) = k + (n - 1) - m /\ \A i \in 1..k : y[i] = t[i]
          /\ \A i \in 1..((n - 1) - m) : y[k + i] = p[m + i]
      <4>1. Shifted(y, f, t, p)
        BY <3>3, <3>4, MovedIs
      <4> QED
        BY <1>1, <1>3, <1>6, <4>1 DEF Shifted
    <3>6. Len(q) = Len(y)
      BY <2>5, <3>5
    <3>7. ASSUME NEW i \in 1..Len(q) PROVE q[i] = y[i]
      <4>1. i \in 1..(k + n - m - 1)
        BY <2>5
      <4>2. CASE i <= k
        BY <2>2, <2>5, <3>5, <4>1, <4>2
      <4>3. CASE i > k
        <5>1. PICK j \in 1..((n - 1) - m) : i = k + j
          <6>1. i - k \in 1..((n - 1) - m) /\ i = k + (i - k)
            BY <4>1, <4>3
          <6> QED
            BY <6>1
        <5>2. j \in 1..(n - m) /\ m + j \in 1..(n - 1)
          BY <2>1
        <5>3. q[i] = x[i] /\ x[k + j] = b[m + j] /\ y[k + j] = p[m + j] /\ p[m + j] = b[m + j]
          BY <1>6, <2>2, <2>5, <3>5, <4>1, <5>1, <5>2
        <5> QED
          BY <5>1, <5>3
      <4> QED
        BY <4>1, <4>2, <4>3
    <3>8. q = y
      BY <3>6, <3>7, PathEqual
    <3> QED
      BY <1>4, <1>5, <2>3, <2>4, <3>2, <3>4, <3>8
  <2> QED
    BY <2>6, <2>7
<1> QED
  BY <1>7, <1>8

\* Two paths do not become the same, when nothing was below the new one.
LEMMA MovedApart ==
  ASSUME NEW f \in Path, NEW t \in Path, NEW b \in Path, NEW c \in Path,
         ~Under(t, b), ~Under(t, c), Moved(b, f, t) = Moved(c, f, t)
  PROVE  b = c
<1>1. PICK m \in Nat : m = Len(f)
  BY PathLen
<1>2. PICK k \in Nat : k = Len(t)
  BY PathLen
<1>3. ASSUME NEW d \in Path, Under(f, d) PROVE Under(t, Moved(d, f, t))
  <2>1. PICK x : x = Moved(d, f, t)
    OBVIOUS
  <2>2. Shifted(x, f, t, d)
    BY <1>3, <2>1, MovedIs
  <2>3. PICK n \in Nat : n = Len(d)
    BY PathLen
  <2>4. m < n
    BY <1>1, <1>3, <2>3 DEF Under
  <2>5. Len(x) = k + (n - m) /\ \A i \in 1..k : x[i] = t[i]
    BY <1>1, <1>2, <2>2, <2>3 DEF Shifted
  <2> QED
    BY <1>2, <2>1, <2>4, <2>5 DEF Under
<1>4. CASE ~Under(f, b) /\ ~Under(f, c)
  BY <1>4, MovedIs
<1>5. CASE Under(f, b) /\ ~Under(f, c)
  <2>1. Moved(c, f, t) = c
    BY <1>5, MovedIs
  <2> QED
    BY <1>3, <1>5, <2>1
<1>6. CASE ~Under(f, b) /\ Under(f, c)
  <2>1. Moved(b, f, t) = b
    BY <1>6, MovedIs
  <2> QED
    BY <1>3, <1>6, <2>1
<1>7. CASE Under(f, b) /\ Under(f, c)
  <2>1. PICK x \in Path : x = Moved(b, f, t)
    BY MovedIs
  <2>2. PICK n \in Nat : n = Len(b)
    BY PathLen
  <2>3. PICK l \in Nat : l = Len(c)
    BY PathLen
  <2>4. m < n /\ (\A i \in 1..m : f[i] = b[i]) /\ Len(x) = k + n - m
          /\ \A i \in 1..(n - m) : x[k + i] = b[m + i]
    <3>1. Shifted(x, f, t, b)
      BY <1>7, <2>1, MovedIs
    <3> QED
      BY <1>1, <1>2, <1>7, <2>2, <3>1 DEF Under, Shifted
  <2>5. m < l /\ (\A i \in 1..m : f[i] = c[i]) /\ Len(x) = k + l - m
          /\ \A i \in 1..(l - m) : x[k + i] = c[m + i]
    <3>1. Shifted(x, f, t, c)
      BY <1>7, <2>1, MovedIs
    <3> QED
      BY <1>1, <1>2, <1>7, <2>3, <3>1 DEF Under, Shifted
  <2>6. n = l
    BY <2>4, <2>5
  <2>7. ASSUME NEW i \in 1..n PROVE b[i] = c[i]
    <3>1. CASE i <= m
      BY <2>4, <2>5, <3>1
    <3>2. CASE i > m
      <4>1. PICK j \in 1..(n - m) : i = m + j
        <5>1. i - m \in 1..(n - m) /\ i = m + (i - m)
          BY <3>2
        <5> QED
          BY <5>1
      <4> QED
        BY <2>4, <2>5, <2>6, <4>1
    <3> QED
      BY <3>1, <3>2
  <2> QED
    BY <2>2, <2>3, <2>6, <2>7, PathEqual
<1> QED
  BY <1>4, <1>5, <1>6, <1>7

\* Nothing in memory is below an a_inode without children.
LEMMA NothingUnder ==
  ASSUME NEW u, Tree(u), Live(u) \subseteq Path, NEW t \in Live(u), u.ino[t].child = <<>>,
         NEW b \in Live(u)
  PROVE  ~Under(t, b)
<1>1. SUFFICES ASSUME Under(t, b) PROVE FALSE
  OBVIOUS
<1>2. PICK k \in Nat : k = Len(t)
  BY PathLen
<1>3. k + 1 \in 1..Len(b) /\ \A i \in 1..k : t[i] = b[i]
  <2>1. Len(b) \in Nat
    BY PathLen
  <2> QED
    BY <1>1, <1>2, <2>1 DEF Under
<1>4. PICK c : c = SubSeq(b, 1, k + 1)
  OBVIOUS
<1>5. c \in Live(u) /\ c # Root /\ parent(c) = SubSeq(b, 1, (k + 1) - 1) /\ c \in Path
  BY <1>3, <1>4, LineageLives, PrefixUp
<1>6. PICK p \in Path : p = parent(c)
  BY <1>5, PathUp
<1>7. Len(p) = k /\ \A i \in 1..k : p[i] = b[i]
  <2>1. Len(c) = k + 1 /\ \A i \in 1..(k + 1) : c[i] = b[i]
    BY <1>3, <1>4, PrefixUp
  <2>2. Len(p) = Len(c) - 1 /\ \A i \in 1..(Len(c) - 1) : p[i] = c[i]
    BY <1>5, <1>6, PathUp
  <2> QED
    BY <2>1, <2>2
<1>8. p = t
  BY <1>2, <1>3, <1>7, PathEqual
<1>9. ToSet(u.ino[t].child) = {}
  BY DEF ToSet
<1> QED
  BY <1>5, <1>6, <1>8, <1>9 DEF Tree

\* a1 is not above a2, a new child of d2, when it is not above d2 nor d2.
LEMMA NotAbove ==
  ASSUME NEW d \in Path, NEW name \in Names, NEW t, t = ChildPath(d, name),
         NEW f \in Path, f # Root, f \notin Lineage(d)
  PROVE  ~Under(f, t)
<1>1. SUFFICES ASSUME Under(f, t) PROVE FALSE
  OBVIOUS
<1>2. PICK m \in Nat : m = Len(f)
  BY PathLen
<1>3. PICK n \in Nat : n = Len(d)
  BY PathLen
<1>4. Len(t) = n + 1 /\ \A i \in 1..n : t[i] = d[i]
  <2>1. d \in Seq(Names)
    BY PathLen
  <2> QED
    BY <1>3, <2>1, AppendProperties DEF ChildPath
<1>5. m <= n /\ \A i \in 1..m : f[i] = d[i]
  BY <1>1, <1>2, <1>4 DEF Under
<1>6. m # 0
  <2>1. f \in Seq(Names)
    BY PathLen
  <2> QED
    BY <1>2, <2>1, EmptySeq DEF Root
<1>7. m \in 1..Len(d)
  BY <1>3, <1>5, <1>6
<1>8. PICK c : c = SubSeq(d, 1, m)
  OBVIOUS
<1>9. c \in Path /\ Len(c) = m /\ \A i \in 1..m : c[i] = d[i]
  BY <1>7, <1>8, PrefixUp
<1>10. f = c
  BY <1>2, <1>5, <1>9, PathEqual
<1> QED
  BY <1>7, <1>8, <1>10 DEF Lineage

\* The null pointer is not renamed.
LEMMA NilStays ==
  ASSUME NEW f \in Path, f # Root, NEW t
  PROVE  Moved(Nil, f, t) = Nil
<1>1. Len(f) \in Nat \ {0}
  BY PathUp
<1>2. PICK x : x = Nil
  OBVIOUS
<1>3. Len(x) = 1
  BY <1>2 DEF Nil
<1>4. ~IsStrictPrefix(f, x)
  <2>1. SUFFICES ASSUME IsStrictPrefix(f, x) PROVE FALSE
    OBVIOUS
  <2>2. Len(f) = 1 /\ SubSeq(f, 1, 1) = SubSeq(x, 1, 1) /\ f # x
    BY <1>1, <1>3, <2>1 DEF IsStrictPrefix, IsPrefix
  <2>3. SubSeq(f, 1, 1) = f
    BY <2>2, SubSeqFull, PathLen
  <2>4. f \in Seq(Names) /\ f[1] \in Names
    BY <2>2, PathLen
  <2>5. PICK s : s = SubSeq(x, 1, 1)
    OBVIOUS
  <2>6. s[1] = x[1]
    BY <1>3, <2>5
  <2> QED
    BY <1>2, <2>2, <2>3, <2>4, <2>5, <2>6, NamesAssumption DEF Nil
<1> QED
  BY <1>2, <1>4 DEF Moved

-----------------------------------------------------------------------------
(* A Unit whose directory f has become t.                                  *)

\* The a_inode of f, and t, made just now for it.
Replaces(u, f, t) ==
  /\ f \in Live(u) \ {Root} /\ t \in Live(u) \ {f} /\ ~Under(f, t)
  /\ u.ino[t].child = <<>> /\ u.ino[t].exnext_count = 0 /\ u.ino[t].locked_children = 0
  /\ u.ino[t].dir = u.ino[f].dir

\* t has what was in f; what was below f has moved with it.
Heir(b, f, t) == IF b = f THEN t ELSE Moved(b, f, t)

\* Lists and sets of what has moved.
MovedSeq(s, f, t) == [i \in DOMAIN s |-> Moved(s[i], f, t)]
MovedSet(S, f, t) == {Moved(b, f, t) : b \in S}

\* v is u after the directory f has become t, which was empty: everything but
\* t goes to its heir, and f itself stays without children and scans.
Relocated(u, v, f, t) ==
  /\ v \in UnitSet /\ Live(v) = MovedSet(Live(u), f, t)
  /\ \A b \in Live(u) : /\ v.ino[Moved(b, f, t)].dir = u.ino[b].dir
                        /\ v.ino[Moved(b, f, t)].shlock = u.ino[b].shlock
                        /\ v.ino[Moved(b, f, t)].elock = u.ino[b].elock
  /\ \A b \in Live(u) \ {t} :
        /\ v.ino[Heir(b, f, t)].child = MovedSeq(u.ino[b].child, f, t)
        /\ v.ino[Heir(b, f, t)].exnext_count = u.ino[b].exnext_count
        /\ v.ino[Heir(b, f, t)].locked_children = u.ino[b].locked_children
  /\ v.ino[f].child = <<>> /\ v.ino[f].exnext_count = 0 /\ v.ino[f].locked_children = 0
  /\ v.chained = MovedSet(u.chained, f, t) /\ v.aino_cache_size = u.aino_cache_size
  /\ v.total_locked_ainos = u.total_locked_ainos /\ v.logged = u.logged
  /\ Len(v.exkeys) = Len(u.exkeys)
  /\ \A i \in DOMAIN u.exkeys :
        /\ v.exkeys[i].aino = Heir(u.exkeys[i].aino, f, t)
        /\ v.exkeys[i].curr_file = Moved(u.exkeys[i].curr_file, f, t)
        /\ v.exkeys[i].owed = MovedSet(u.exkeys[i].owed, f, t)

\* The new paths are as different as the old ones.
LEMMA MovedPaths ==
  ASSUME NEW u, Good(u), NEW f, NEW t, Replaces(u, f, t)
  PROVE  /\ f \in Path /\ t \in Path
         /\ \A b \in Live(u) : Moved(b, f, t) \in Path
         /\ \A b \in Live(u), c \in Live(u) : Moved(b, f, t) = Moved(c, f, t) => b = c
         /\ Moved(Root, f, t) = Root /\ Moved(f, f, t) = f /\ Moved(t, f, t) = t
         /\ Moved(Nil, f, t) = Nil
         /\ \A b \in Live(u) \ {Root} : /\ Moved(b, f, t) # Root
                                        /\ parent(b) \in Live(u) \ {t}
                                        /\ parent(Moved(b, f, t)) = Heir(parent(b), f, t)
<1>1. Typed(u) /\ Tree(u)
  BY DEF Good
<1>2. Live(u) \subseteq Path
  BY <1>1, UnitType DEF Typed
<1>3. f \in Path /\ t \in Path /\ f # Root /\ t \in Live(u)
  BY <1>2 DEF Replaces
<1>4. \A b \in Live(u) : Moved(b, f, t) \in Path
  BY <1>2, <1>3, MovedIs
<1>5. \A b \in Live(u) : ~Under(t, b)
  BY <1>1, <1>2, <1>3, NothingUnder DEF Replaces
<1>6. ASSUME NEW b \in Live(u), NEW c \in Live(u), Moved(b, f, t) = Moved(c, f, t) PROVE b = c
  BY <1>2, <1>3, <1>5, <1>6, MovedApart
<1>7. \A b \in Path : ~Under(f, b) => Moved(b, f, t) = b
  BY <1>3, MovedIs
<1>8. ~Under(f, Root) /\ ~Under(f, f) /\ ~Under(f, t)
  <2>1. Len(f) \in Nat
    BY <1>3, PathLen
  <2> QED
    BY <2>1, RootIsPath DEF Under, Replaces
<1>9. Moved(Root, f, t) = Root /\ Moved(f, f, t) = f /\ Moved(t, f, t) = t
  BY <1>3, <1>7, <1>8, RootIsPath
<1>10. Moved(Nil, f, t) = Nil
  BY <1>3, NilStays
<1>11. ASSUME NEW b \in Live(u) \ {Root}
       PROVE  /\ Moved(b, f, t) # Root /\ parent(b) \in Live(u) \ {t}
              /\ parent(Moved(b, f, t)) = Heir(parent(b), f, t)
  <2>1. b \in Path
    BY <1>2
  <2>2. ToSet(u.ino[t].child) = {}
    BY DEF Replaces, ToSet
  <2>3. parent(b) \in Live(u) \ {t}
    BY <1>1, <1>3, <2>2 DEF Tree
  <2>4. /\ Moved(b, f, t) # Root
        /\ parent(Moved(b, f, t)) = IF parent(b) = f THEN t ELSE Moved(parent(b), f, t)
    BY <1>3, <2>1, MovedParent
  <2> QED
    BY <2>3, <2>4 DEF Heir
<1> QED
  BY <1>3, <1>4, <1>6, <1>9, <1>10, <1>11

\* A rename gives different a_inodes different paths.
LEMMA HeirIs ==
  ASSUME NEW u, Good(u), NEW f, NEW t, Replaces(u, f, t)
  PROVE  /\ \A b \in Live(u) \ {t} : Heir(b, f, t) \in MovedSet(Live(u), f, t) \ {f}
         /\ \A b \in Live(u) \ {t}, c \in Live(u) \ {t} : Heir(b, f, t) = Heir(c, f, t) => b = c
         /\ \A x \in MovedSet(Live(u), f, t) \ {f} : \E b \in Live(u) \ {t} : x = Heir(b, f, t)
<1>1. /\ f \in Path /\ t \in Path
      /\ \A b \in Live(u), c \in Live(u) : Moved(b, f, t) = Moved(c, f, t) => b = c
      /\ Moved(f, f, t) = f /\ Moved(t, f, t) = t
  BY MovedPaths
<1>2. f \in Live(u) /\ t \in Live(u) /\ t # f
  BY DEF Replaces
<1>3. ASSUME NEW b \in Live(u) \ {t} PROVE Heir(b, f, t) \in MovedSet(Live(u), f, t) \ {f}
  <2>1. CASE b = f
    BY <1>1, <1>2, <2>1 DEF Heir, MovedSet
  <2>2. CASE b # f
    BY <1>1, <1>2, <2>2 DEF Heir, MovedSet
  <2> QED
    BY <2>1, <2>2
<1>4. ASSUME NEW b \in Live(u) \ {t}, NEW c \in Live(u) \ {t}, Heir(b, f, t) = Heir(c, f, t) PROVE b = c
  <2>1. CASE b = f
    BY <1>1, <1>2, <1>4, <2>1 DEF Heir
  <2>2. CASE b # f
    BY <1>1, <1>2, <1>4, <2>2 DEF Heir
  <2> QED
    BY <2>1, <2>2
<1>5. ASSUME NEW x \in MovedSet(Live(u), f, t) \ {f} PROVE \E b \in Live(u) \ {t} : x = Heir(b, f, t)
  <2>1. PICK b \in Live(u) : x = Moved(b, f, t)
    BY DEF MovedSet
  <2>2. b # f
    BY <1>1, <2>1
  <2>3. CASE b = t
    BY <1>1, <1>2, <2>1, <2>3 DEF Heir
  <2>4. CASE b # t
    BY <2>1, <2>2, <2>4 DEF Heir
  <2> QED
    BY <2>3, <2>4
<1> QED
  BY <1>3, <1>4, <1>5

\* The list of the moved is the list, moved.
LEMMA OnScanMoved ==
  ASSUME NEW s \in Seq(Path), NEW k \in ExKeySet, OnScan(s, k), NEW f, NEW t,
         Moved(Nil, f, t) = Nil, NEW r, r = MovedSeq(s, f, t), NEW y,
         y.curr_file = Moved(k.curr_file, f, t), y.owed = MovedSet(k.owed, f, t)
  PROVE  OnScan(r, y)
<1>1. PICK l \in Nat : l = Len(s)
  OBVIOUS
<1>2. DOMAIN s = 1..l /\ DOMAIN r = 1..l /\ \A i \in 1..l : r[i] = Moved(s[i], f, t)
  BY <1>1 DEF MovedSeq
<1>3. Len(r) = l
  BY <1>1, <1>2 DEF MovedSeq
<1>4. CASE k.curr_file = Nil /\ k.owed = {}
  BY <1>4 DEF OnScan, MovedSet
<1>5. CASE \E n \in DOMAIN s : k.curr_file = s[n] /\ k.owed = {s[j] : j \in n..Len(s)}
  <2>1. PICK n \in 1..l : k.curr_file = s[n] /\ k.owed = {s[j] : j \in n..l}
    BY <1>1, <1>2, <1>5
  <2>2. y.curr_file = r[n]
    BY <1>2, <2>1
  <2>3. y.owed = {r[j] : j \in n..l}
    <3>1. MovedSet(k.owed, f, t) = {Moved(s[j], f, t) : j \in n..l}
      BY <2>1 DEF MovedSet
    <3>2. \A j \in n..l : j \in 1..l
      BY <1>1
    <3> QED
      BY <1>2, <3>1, <3>2
  <2> QED
    BY <1>2, <1>3, <2>2, <2>3 DEF OnScan
<1> QED
  BY <1>4, <1>5 DEF OnScan

\* Scans and counts of a renamed directory go on under its new name.
LEMMA CountMoved ==
  ASSUME NEW s, s \in Seq(ExKeySet), NEW r, r \in Seq(ExKeySet), Len(s) = Len(r), NEW p, NEW q,
         \A i \in DOMAIN s : r[i].aino = q <=> s[i].aino = p
  PROVE  CountOf(r, q) = CountOf(s, p)
<1>1. DOMAIN s = DOMAIN r
  OBVIOUS
<1>2. {i \in DOMAIN r : r[i].aino = q} = {i \in DOMAIN s : s[i].aino = p}
  BY <1>1
<1> QED
  BY <1>2 DEF CountOf

\* A Unit whose directory f has become t keeps the invariant.
LEMMA RelocatedKeeps ==
  ASSUME NEW u, Good(u), NEW f, NEW t, Replaces(u, f, t), NEW v, Relocated(u, v, f, t)
  PROVE  Good(v)
<1>1. Typed(u) /\ Tree(u) /\ Chain(u) /\ Scans(u) /\ Totals(u) /\ Silent(u)
  BY DEF Good
<1>2. /\ u \in UnitSet /\ IsFiniteSet(Live(u)) /\ Live(u) \in SUBSET Path
  BY <1>1, UnitType DEF Typed
<1> DEFINE N(b) == Moved(b, f, t)
           H(b) == Heir(b, f, t)
<1>3. /\ f \in Path /\ t \in Path
      /\ \A b \in Live(u) : N(b) \in Path
      /\ \A b \in Live(u), c \in Live(u) : N(b) = N(c) => b = c
      /\ N(Root) = Root /\ N(f) = f /\ N(t) = t /\ N(Nil) = Nil
      /\ \A b \in Live(u) \ {Root} : /\ N(b) # Root
                                     /\ parent(b) \in Live(u) \ {t}
                                     /\ parent(N(b)) = H(parent(b))
  BY MovedPaths
<1>4. /\ \A b \in Live(u) \ {t} : H(b) \in MovedSet(Live(u), f, t) \ {f}
      /\ \A b \in Live(u) \ {t}, c \in Live(u) \ {t} : H(b) = H(c) => b = c
      /\ \A x \in MovedSet(Live(u), f, t) \ {f} : \E b \in Live(u) \ {t} : x = H(b)
  BY HeirIs
<1>5. /\ v \in UnitSet /\ Live(v) = MovedSet(Live(u), f, t)
      /\ \A b \in Live(u) : /\ v.ino[N(b)].dir = u.ino[b].dir
                            /\ v.ino[N(b)].shlock = u.ino[b].shlock
                            /\ v.ino[N(b)].elock = u.ino[b].elock
      /\ \A b \in Live(u) \ {t} :
            /\ v.ino[H(b)].child = MovedSeq(u.ino[b].child, f, t)
            /\ v.ino[H(b)].exnext_count = u.ino[b].exnext_count
            /\ v.ino[H(b)].locked_children = u.ino[b].locked_children
      /\ v.ino[f].child = <<>> /\ v.ino[f].exnext_count = 0 /\ v.ino[f].locked_children = 0
      /\ v.chained = MovedSet(u.chained, f, t) /\ v.aino_cache_size = u.aino_cache_size
      /\ v.total_locked_ainos = u.total_locked_ainos /\ v.logged = u.logged
      /\ Len(v.exkeys) = Len(u.exkeys)
      /\ \A i \in DOMAIN u.exkeys :
            /\ v.exkeys[i].aino = H(u.exkeys[i].aino)
            /\ v.exkeys[i].curr_file = N(u.exkeys[i].curr_file)
            /\ v.exkeys[i].owed = MovedSet(u.exkeys[i].owed, f, t)
  BY DEF Relocated
<1>6. /\ f \in Live(u) \ {Root} /\ t \in Live(u) \ {f}
      /\ u.ino[t].child = <<>> /\ u.ino[t].exnext_count = 0 /\ u.ino[t].locked_children = 0
      /\ u.ino[t].dir = u.ino[f].dir
  BY DEF Replaces
<1>7. \A x : x \in Live(v) <=> \E b \in Live(u) : x = N(b)
  BY <1>5 DEF MovedSet
<1>8. \A b \in Live(u) : b # f => H(b) = N(b)
  BY DEF Heir
<1>9. H(f) = t
  BY DEF Heir
<1> HIDE DEF N, H
<1>10. ASSUME NEW b \in Live(u) \ {t} PROVE v.ino[H(b)].dir = u.ino[b].dir
  <2>1. CASE b = f
    BY <1>3, <1>5, <1>6, <1>9, <2>1
  <2>2. CASE b # f
    BY <1>5, <1>8, <2>2
  <2> QED
    BY <2>1, <2>2
<1>11. Typed(v)
  <2> DEFINE F == [b \in Live(u) |-> N(b)]
  <2>1. F \in Surjection(Live(u), Live(v))
    BY <1>7 DEF Surjection
  <2> HIDE DEF F
  <2>2. IsFiniteSet(Live(v))
    BY <1>2, <2>1, FS_Surjection
  <2> QED
    BY <1>5, <2>2 DEF Typed
<1>12. Tree(v)
  <2>1. Root \in Dirs(v)
    <3>1. Root \in Live(u) /\ u.ino[Root].dir
      BY <1>1 DEF Tree, Dirs
    <3> QED
      BY <1>3, <1>5, <1>7, <3>1 DEF Dirs
  <2>2. ASSUME NEW x \in Live(v) \ {Root}
        PROVE  parent(x) \in Live(v) \ {f}
    <3>1. PICK b \in Live(u) : x = N(b)
      BY <1>7
    <3>2. b # Root
      BY <1>3, <3>1
    <3>3. parent(x) = H(parent(b)) /\ parent(b) \in Live(u) \ {t}
      BY <1>3, <3>1, <3>2
    <3> QED
      BY <1>4, <1>5, <3>3
  <2>3. ASSUME NEW p \in Live(v)
        PROVE  /\ IsInjective(v.ino[p].child)
               /\ ToSet(v.ino[p].child) = {a \in Live(v) \ {Root} : parent(a) = p}
               /\ v.ino[p].child # <<>> => v.ino[p].dir
    <3>1. CASE p = f
      <4>1. v.ino[p].child = <<>>
        BY <1>5, <3>1
      <4>2. {a \in Live(v) \ {Root} : parent(a) = p} = {}
        BY <2>2, <3>1
      <4>3. PICK z : z = v.ino[p].child
        OBVIOUS
      <4>4. z = <<>>
        BY <4>1, <4>3
      <4>5. IsInjective(z) /\ ToSet(z) = {}
        BY <4>4 DEF IsInjective, ToSet
      <4> QED
        BY <4>2, <4>3, <4>4, <4>5
    <3>2. CASE p # f
      <4>1. PICK q \in Live(u) \ {t} : p = H(q)
        BY <1>4, <1>5, <3>2
      <4>2. PICK s \in Seq(Path) : s = u.ino[q].child
        BY <1>2, <4>1, UnitType
      <4>3. IsInjective(s) /\ ToSet(s) = {a \in Live(u) \ {Root} : parent(a) = q}
              /\ (s # <<>> => u.ino[q].dir)
        BY <1>1, <4>1, <4>2 DEF Tree
      <4>4. PICK l \in Nat : l = Len(s)
        OBVIOUS
      <4>5. PICK r : r = v.ino[p].child
        OBVIOUS
      <4>6. DOMAIN s = 1..l /\ DOMAIN r = 1..l /\ \A i \in 1..l : r[i] = N(s[i])
        <5>1. r = MovedSeq(s, f, t)
          BY <1>5, <4>1, <4>2, <4>5
        <5>2. DOMAIN s = 1..l
          BY <4>4
        <5>3. r = [i \in 1..l |-> N(s[i])]
          BY <5>1, <5>2 DEF MovedSeq, N
        <5> QED
          BY <5>2, <5>3
      <4>7. \A i \in 1..l : s[i] \in Live(u) \ {Root} /\ parent(s[i]) = q
        BY <4>3, <4>6 DEF ToSet
      <4>8. IsInjective(r)
        <5> SUFFICES ASSUME NEW i \in 1..l, NEW j \in 1..l, r[i] = r[j] PROVE i = j
          BY <4>6 DEF IsInjective
        <5>1. s[i] = s[j]
          BY <1>3, <4>6, <4>7
        <5> QED
          BY <4>3, <4>6, <5>1 DEF IsInjective
      <4>9. ASSUME NEW a \in ToSet(r) PROVE a \in Live(v) \ {Root} /\ parent(a) = p
        <5>1. PICK i \in 1..l : a = N(s[i])
          BY <4>6 DEF ToSet
        <5>2. s[i] \in Live(u) \ {Root} /\ parent(s[i]) = q
          BY <4>7
        <5> QED
          BY <1>3, <1>7, <4>1, <5>1, <5>2
      <4>10. ASSUME NEW a \in Live(v) \ {Root}, parent(a) = p PROVE a \in ToSet(r)
        <5>1. PICK b \in Live(u) : a = N(b)
          BY <1>7
        <5>2. b # Root
          BY <1>3, <5>1
        <5>3. parent(a) = H(parent(b)) /\ parent(b) \in Live(u) \ {t}
          BY <1>3, <5>1, <5>2
        <5>4. parent(b) = q
          BY <1>4, <4>1, <4>10, <5>3
        <5>5. b \in ToSet(s)
          BY <4>3, <5>2, <5>4
        <5>6. PICK i \in 1..l : b = s[i]
          BY <4>6, <5>5 DEF ToSet
        <5> QED
          BY <4>6, <5>1, <5>6 DEF ToSet
      <4>11. r # <<>> => v.ino[p].dir
        <5>1. r # <<>> => s # <<>>
          <6>1. ASSUME s = <<>> PROVE r = <<>>
            <7>1. DOMAIN s = {}
              BY <6>1
            <7>2. r = MovedSeq(s, f, t)
              BY <1>5, <4>1, <4>2, <4>5
            <7> QED
              BY <6>1, <7>1, <7>2 DEF MovedSeq
          <6> QED
            BY <6>1
        <5> QED
          BY <1>10, <4>1, <4>3, <5>1
      <4> QED
        BY <4>5, <4>8, <4>9, <4>10, <4>11
    <3> QED
      BY <3>1, <3>2
  <2> QED
    BY <2>1, <2>2, <2>3 DEF Tree
<1>13. Chain(v)
  <2>1. \A x : x \in v.chained <=> \E b \in u.chained : x = N(b)
    BY <1>5 DEF MovedSet, N
  <2>2. u.chained \subseteq Live(u) /\ \A b \in u.chained : ~u.ino[b].dir /\ ~InUse(u, b)
    BY <1>1 DEF Chain, Dirs
  <2>3. v.chained \subseteq Live(v) \ Dirs(v)
    BY <1>5, <1>7, <2>1, <2>2 DEF Dirs
  <2>4. \A x \in v.chained : ~InUse(v, x)
    BY <1>5, <2>1, <2>2 DEF InUse
  <2>5. Cardinality(v.chained) = Cardinality(u.chained)
    <3> DEFINE F == [b \in u.chained |-> N(b)]
    <3>1. IsFiniteSet(u.chained)
      BY <1>2, <2>2, FS_Subset
    <3>2. F \in [u.chained -> v.chained] /\ \A y \in v.chained : \E b \in u.chained : F[b] = y
      BY <2>1
    <3>3. \A b \in u.chained, c \in u.chained : F[b] = F[c] => b = c
      BY <1>3, <2>2
    <3>4. F \in Bijection(u.chained, v.chained)
      <4> HIDE DEF F
      <4>1. F \in Injection(u.chained, v.chained)
        BY <3>2, <3>3 DEF Injection, IsInjective
      <4>2. F \in Surjection(u.chained, v.chained)
        BY <3>2 DEF Surjection
      <4> QED
        BY <4>1, <4>2 DEF Bijection
    <3>5. ExistsBijection(u.chained, v.chained)
      BY <3>4 DEF ExistsBijection
    <3> QED
      BY <3>1, <3>5, FS_Bijection
  <2> QED
    BY <1>1, <1>5, <2>3, <2>4, <2>5 DEF Chain
<1>14. PICK ks \in Seq(ExKeySet) : ks = u.exkeys
  BY <1>2, UnitType
<1>15. PICK rs \in Seq(ExKeySet) : rs = v.exkeys
  BY <1>5, UnitType
<1>16. DOMAIN ks = DOMAIN rs /\ Len(ks) = Len(rs)
  BY <1>5, <1>14, <1>15
<1>17. \A i \in DOMAIN ks : ks[i].aino \in Live(u) \ {t} /\ ks[i].aino \in Dirs(u)
  <2>1. CountOf(ks, t) = 0
    BY <1>1, <1>6, <1>14 DEF Scans
  <2>2. \A i \in DOMAIN ks : ks[i].aino # t
    BY <2>1, CountType
  <2> QED
    BY <1>1, <1>14, <2>2 DEF Scans, Dirs
<1>18. \A i \in DOMAIN ks : rs[i].aino = H(ks[i].aino)
  BY <1>5, <1>14, <1>15
<1>19. ASSUME NEW q \in Live(u) \ {t} PROVE CountOf(rs, H(q)) = CountOf(ks, q)
  <2>1. \A i \in DOMAIN ks : rs[i].aino = H(q) <=> ks[i].aino = q
    BY <1>4, <1>17, <1>18
  <2> QED
    BY <1>16, <2>1, CountMoved
<1>20. CountOf(rs, f) = 0
  <2>1. \A i \in DOMAIN rs : rs[i].aino # f
    BY <1>4, <1>16, <1>17, <1>18
  <2> QED
    BY <2>1, CountType
<1>21. Scans(v)
  <2>1. ASSUME NEW i \in DOMAIN v.exkeys
        PROVE  /\ v.exkeys[i].aino \in Dirs(v)
               /\ OnScan(v.ino[v.exkeys[i].aino].child, v.exkeys[i])
    <3>1. PICK k \in ExKeySet : k = ks[i] /\ i \in DOMAIN ks
      BY <1>15, <1>16
    <3>2. PICK y : y = rs[i]
      OBVIOUS
    <3>3. k.aino \in Live(u) \ {t} /\ u.ino[k.aino].dir /\ y.aino = H(k.aino)
      BY <1>17, <1>18, <3>1, <3>2 DEF Dirs
    <3>4. OnScan(u.ino[k.aino].child, k)
      BY <1>1, <1>14, <3>1 DEF Scans
    <3>5. y.aino \in Live(v) /\ v.ino[y.aino].dir
      BY <1>4, <1>5, <1>10, <3>3
    <3>6. PICK s \in Seq(Path) : s = u.ino[k.aino].child
      BY <1>2, <3>3, UnitType
    <3>7. y.curr_file = Moved(k.curr_file, f, t) /\ y.owed = MovedSet(k.owed, f, t)
      BY <1>5, <1>14, <1>15, <3>1, <3>2 DEF N
    <3>8. Moved(Nil, f, t) = Nil
      BY <1>3 DEF N
    <3>9. PICK r : r = MovedSeq(s, f, t)
      OBVIOUS
    <3>10. OnScan(r, y)
      BY <3>4, <3>6, <3>7, <3>8, <3>9, OnScanMoved
    <3>11. v.ino[y.aino].child = r
      BY <1>5, <3>3, <3>6, <3>9
    <3> QED
      BY <1>15, <3>2, <3>5, <3>10, <3>11 DEF Dirs
  <2>2. ASSUME NEW p \in Live(v)
        PROVE  /\ v.ino[p].exnext_count = CountOf(v.exkeys, p)
               /\ v.ino[p].exnext_count = 0 => v.ino[p].locked_children = 0
               /\ v.ino[p].exnext_count > 0 =>
                     v.ino[p].locked_children >= Len(v.ino[p].child)
    <3>1. CASE p = f
      BY <1>5, <1>15, <1>20, <3>1
    <3>2. CASE p # f
      <4>1. PICK q \in Live(u) \ {t} : p = H(q)
        BY <1>4, <1>5, <3>2
      <4>2. /\ u.ino[q].exnext_count = CountOf(ks, q)
            /\ u.ino[q].exnext_count = 0 => u.ino[q].locked_children = 0
            /\ u.ino[q].exnext_count > 0 => u.ino[q].locked_children >= Len(u.ino[q].child)
        BY <1>1, <1>14, <4>1 DEF Scans
      <4>3. PICK s \in Seq(Path) : s = u.ino[q].child
        BY <1>2, <4>1, UnitType
      <4>4. PICK r : r = v.ino[p].child
        OBVIOUS
      <4>5. r = MovedSeq(s, f, t)
        BY <1>5, <4>1, <4>3, <4>4
      <4>6. Len(r) = Len(s)
        BY <4>5 DEF MovedSeq
      <4> QED
        BY <1>5, <1>15, <1>19, <4>1, <4>2, <4>3, <4>4, <4>6
    <3> QED
      BY <3>1, <3>2
  <2> QED
    BY <2>1, <2>2 DEF Scans
<1>22. Totals(v)
  <2> DEFINE F == [x \in Counted(u) |-> <<H(x[1]), x[2]>>]
  <2>1. \A p \in Live(u) \ {t} : Locked(v, H(p)) = Locked(u, p)
    <3> SUFFICES ASSUME NEW p \in Live(u) \ {t} PROVE Locked(v, H(p)) = Locked(u, p)
      OBVIOUS
    <3>1. H(p) \in Live(v) /\ v.ino[H(p)].dir = u.ino[p].dir
            /\ v.ino[H(p)].locked_children = u.ino[p].locked_children
      BY <1>4, <1>5, <1>10
    <3> QED
      BY <3>1 DEF Locked, Dirs
  <2>2. Locked(u, t) = 0 /\ Locked(v, f) = 0
    BY <1>5, <1>6 DEF Locked
  <2>3. ASSUME NEW x PROVE x \in Counted(u) <=> \E p \in Live(u) \ {t} : \E n \in 1..Locked(u, p) : x = <<p, n>>
    <3>1. x \in Counted(u) <=> \E p \in Live(u) : \E n \in 1..Locked(u, p) : x = <<p, n>>
      BY <1>1, CountedIs
    <3>2. 1..Locked(u, t) = {}
      BY <2>2
    <3> QED
      BY <3>1, <3>2
  <2>4. ASSUME NEW x PROVE x \in Counted(v) <=> \E p \in Live(u) \ {t} : \E n \in 1..Locked(u, p) : x = <<H(p), n>>
    <3>1. x \in Counted(v) <=> \E p \in Live(v) : \E n \in 1..Locked(v, p) : x = <<p, n>>
      BY <1>11, CountedIs
    <3>2. 1..Locked(v, f) = {}
      BY <2>2
    <3>3. ASSUME NEW p \in Live(v), NEW n \in 1..Locked(v, p), x = <<p, n>>
          PROVE  \E q \in Live(u) \ {t} : \E m \in 1..Locked(u, q) : x = <<H(q), m>>
      <4>1. p # f
        BY <3>2, <3>3
      <4>2. PICK q \in Live(u) \ {t} : p = H(q)
        BY <1>4, <1>5, <4>1
      <4>3. n \in 1..Locked(u, q)
        BY <2>1, <3>3, <4>2
      <4> QED
        BY <3>3, <4>2, <4>3
    <3>4. ASSUME NEW q \in Live(u) \ {t}, NEW m \in 1..Locked(u, q), x = <<H(q), m>>
          PROVE  \E p \in Live(v) : \E n \in 1..Locked(v, p) : x = <<p, n>>
      <4>1. H(q) \in Live(v) /\ m \in 1..Locked(v, H(q))
        BY <1>4, <1>5, <2>1
      <4> QED
        BY <3>4, <4>1
    <3> QED
      BY <3>1, <3>3, <3>4
  <2>5. F \in [Counted(u) -> Counted(v)] /\ \A y \in Counted(v) : \E x \in Counted(u) : F[x] = y
    <3>1. ASSUME NEW x \in Counted(u) PROVE F[x] \in Counted(v)
      <4>1a. PICK p \in Live(u) \ {t} : \E n \in 1..Locked(u, p) : x = <<p, n>>
        BY <2>3
      <4>1. PICK n \in 1..Locked(u, p) : x = <<p, n>>
        BY <4>1a
      <4>2. F[x] = <<H(p), n>>
        BY <4>1
      <4> HIDE DEF F
      <4> QED
        BY <2>4, <4>1, <4>2
    <3>2. ASSUME NEW y \in Counted(v) PROVE \E x \in Counted(u) : F[x] = y
      <4>1a. PICK p \in Live(u) \ {t} : \E n \in 1..Locked(u, p) : y = <<H(p), n>>
        BY <2>4
      <4>1. PICK n \in 1..Locked(u, p) : y = <<H(p), n>>
        BY <4>1a
      <4>2. PICK x : x = <<p, n>>
        OBVIOUS
      <4>3. x \in Counted(u)
        BY <2>3, <4>2
      <4>4. F[x] = y
        BY <4>1, <4>2, <4>3
      <4> HIDE DEF F
      <4> QED
        BY <4>3, <4>4
    <3> QED
      BY <3>1, <3>2
  <2>6. ASSUME NEW x \in Counted(u), NEW y \in Counted(u), F[x] = F[y] PROVE x = y
    <3>1a. PICK p \in Live(u) \ {t} : \E n \in 1..Locked(u, p) : x = <<p, n>>
      BY <2>3
    <3>1. PICK n \in 1..Locked(u, p) : x = <<p, n>>
      BY <3>1a
    <3>2a. PICK q \in Live(u) \ {t} : \E m \in 1..Locked(u, q) : y = <<q, m>>
      BY <2>3
    <3>2. PICK m \in 1..Locked(u, q) : y = <<q, m>>
      BY <3>2a
    <3>3. <<H(p), n>> = <<H(q), m>>
      BY <2>6, <3>1, <3>2
    <3>4. H(p) = H(q) /\ n = m
      BY <3>3
    <3> QED
      BY <1>4, <3>1, <3>2, <3>4
  <2>7. F \in Bijection(Counted(u), Counted(v))
    <3> HIDE DEF F
    <3>1. F \in Injection(Counted(u), Counted(v))
      BY <2>5, <2>6 DEF Injection, IsInjective
    <3>2. F \in Surjection(Counted(u), Counted(v))
      BY <2>5 DEF Surjection
    <3> QED
      BY <3>1, <3>2 DEF Bijection
  <2>8. ExistsBijection(Counted(u), Counted(v)) /\ IsFiniteSet(Counted(u))
    BY <1>1, <2>7, CountedIs DEF ExistsBijection
  <2>9. Cardinality(Counted(v)) = Cardinality(Counted(u))
    BY <2>8, FS_Bijection
  <2> QED
    BY <1>1, <1>5, <2>9 DEF Totals
<1> QED
  BY <1>1, <1>5, <1>11, <1>12, <1>13, <1>21, <1>22 DEF Good, Silent

\* What the a_inodes f and t become when t takes over from f.
Left(n) == [n EXCEPT !.real = FALSE, !.exnext_count = 0, !.locked_children = 0,
                     !.child = <<>>, !.unseen = {}]
Taken(n, m) == [n EXCEPT !.real = TRUE, !.exnext_count = m.exnext_count,
                         !.locked_children = m.locked_children,
                         !.child = m.child, !.unseen = m.unseen]

\* What the old a_inode keeps and what the new one takes over.
LEMMA LeftTaken ==
  ASSUME NEW n \in AinoSet, NEW m \in AinoSet
  PROVE  /\ Left(n) \in AinoSet /\ Taken(n, m) \in AinoSet
         /\ Left(n).dir = n.dir /\ Left(n).shlock = n.shlock /\ Left(n).elock = n.elock
         /\ Left(n).child = <<>> /\ Left(n).exnext_count = 0 /\ Left(n).locked_children = 0
         /\ Taken(n, m).dir = n.dir /\ Taken(n, m).shlock = n.shlock /\ Taken(n, m).elock = n.elock
         /\ Taken(n, m).child = m.child /\ Taken(n, m).exnext_count = m.exnext_count
         /\ Taken(n, m).locked_children = m.locked_children
<1>1. /\ Left(n) \in AinoSet
      /\ Left(n).dir = n.dir /\ Left(n).shlock = n.shlock /\ Left(n).elock = n.elock
      /\ Left(n).child = <<>> /\ Left(n).exnext_count = 0 /\ Left(n).locked_children = 0
  <2>1. PICK s \in Seq(Path) : s = <<>>
    BY EmptySeq
  <2>2. PICK x \in Nat : x = 0
    OBVIOUS
  <2>3. PICK b \in BOOLEAN : b = FALSE
    OBVIOUS
  <2>4. PICK o \in SUBSET (Names \X BOOLEAN) : o = {}
    OBVIOUS
  <2>5. Left(n) = [n EXCEPT !.real = b, !.exnext_count = x, !.locked_children = x,
                            !.child = s, !.unseen = o]
    BY <2>1, <2>2, <2>3, <2>4 DEF Left
  <2> QED
    BY <2>1, <2>2, <2>5 DEF AinoSet
<1>2. /\ Taken(n, m) \in AinoSet
      /\ Taken(n, m).dir = n.dir /\ Taken(n, m).shlock = n.shlock /\ Taken(n, m).elock = n.elock
      /\ Taken(n, m).child = m.child /\ Taken(n, m).exnext_count = m.exnext_count
      /\ Taken(n, m).locked_children = m.locked_children
  <2>1. PICK s \in Seq(Path) : s = m.child
    BY DEF AinoSet
  <2>2. PICK x \in Nat : x = m.exnext_count
    BY DEF AinoSet
  <2>3. PICK y \in Nat : y = m.locked_children
    BY DEF AinoSet
  <2>4. PICK b \in BOOLEAN : b = TRUE
    OBVIOUS
  <2>5. PICK o \in SUBSET (Names \X BOOLEAN) : o = m.unseen
    BY DEF AinoSet
  <2>6. Taken(n, m) = [n EXCEPT !.real = b, !.exnext_count = x, !.locked_children = y,
                                !.child = s, !.unseen = o]
    BY <2>1, <2>2, <2>3, <2>4, <2>5 DEF Taken
  <2> QED
    BY <2>1, <2>2, <2>3, <2>6 DEF AinoSet
<1> QED
  BY <1>1, <1>2

\* A directory's a_inode, and its ExKeys, after the one renamed.
TakeOver(u, f, t) == move_exkeys([u EXCEPT !.ino[t].real = TRUE, !.ino[f].real = FALSE], f, t)

\* The ExKeys and a_inodes of a Unit in which t takes over from f.
HeirKey(k, f, t) == IF k.aino = f THEN [k EXCEPT !.aino = t] ELSE k

\* An ExKey of the old directory becomes one of the new.
LEMMA HeirKeyIs ==
  ASSUME NEW k \in ExKeySet, NEW f \in Path, NEW t \in Path
  PROVE  /\ HeirKey(k, f, t) \in ExKeySet
         /\ HeirKey(k, f, t).aino = IF k.aino = f THEN t ELSE k.aino
         /\ HeirKey(k, f, t).curr_file = k.curr_file /\ HeirKey(k, f, t).owed = k.owed
BY DEF ExKeySet, HeirKey

Nodes(u, f, m, t, n) == [u.ino EXCEPT ![t] = n, ![f] = m]
Retold(u, k, ks) == [u EXCEPT !.ino = k, !.exkeys = ks]
HeirKeys(u, f, t) == [i \in DOMAIN u.exkeys |-> HeirKey(u.exkeys[i], f, t)]
Filled(q, n) == [q EXCEPT !.child = n.child, !.unseen = n.unseen]

\* move_exkeys and the first half of move_aino_children, put together.
LEMMA TakeOverIs ==
  ASSUME NEW u, Good(u), NEW f, NEW t, Replaces(u, f, t), NEW v, v = TakeOver(u, f, t),
         NEW m, m = Filled(Left(u.ino[f]), u.ino[f]),
         NEW n, n = Filled(Taken(u.ino[t], u.ino[f]), u.ino[t]),
         NEW ks, ks = HeirKeys(u, f, t)
  PROVE  v = Retold(u, Nodes(u, f, m, t, n), ks)
<1> USE DEF Nodes, Retold, HeirKeys, Filled
<1>1. Typed(u) /\ Tree(u) /\ Chain(u) /\ Scans(u) /\ Totals(u) /\ Silent(u)
  BY DEF Good
<1>2. /\ u \in UnitSet /\ u.ino \in [Live(u) -> AinoSet] /\ Live(u) \in SUBSET Path
  BY <1>1, UnitType DEF Typed
<1>3. f \in Live(u) /\ t \in Live(u) /\ f # t
  BY DEF Replaces
<1>4. PICK n1 \in AinoSet : n1 = u.ino[f]
  BY <1>2, <1>3
<1>5. PICK n2 \in AinoSet : n2 = u.ino[t]
  BY <1>2, <1>3
<1>6. PICK x : x = [u EXCEPT !.ino[t].real = TRUE, !.ino[f].real = FALSE]
  OBVIOUS
<1>7. PICK p1 \in AinoSet : p1 = [n1 EXCEPT !.real = FALSE]
  BY DEF AinoSet
<1>8. PICK p2 \in AinoSet : p2 = [n2 EXCEPT !.real = TRUE]
  BY DEF AinoSet
<1>9. PICK g : g = [u.ino EXCEPT ![t] = p2, ![f] = p1]
  OBVIOUS
<1>10. x = [u EXCEPT !.ino = g]
  <2>1. [u.ino EXCEPT ![t].real = TRUE, ![f].real = FALSE] = g
    BY <1>2, <1>3, <1>4, <1>5, <1>7, <1>8, <1>9
  <2>2. x = [u EXCEPT !.ino = [u.ino EXCEPT ![t].real = TRUE, ![f].real = FALSE]]
    BY <1>2, <1>6 DEF UnitSet
  <2> QED
    BY <2>1, <2>2
<1>11. g \in [Live(u) -> AinoSet] /\ g[f] = p1 /\ g[t] = p2
  BY <1>2, <1>3, <1>7, <1>8, <1>9
<1>12. x.ino = g /\ x.exkeys = u.exkeys /\ x.logged = u.logged /\ x \in UnitSet
  <2>1. g \in InoSet
    BY <1>2, <1>11 DEF InoSet
  <2> QED
    BY <1>2, <1>10, <2>1 DEF UnitSet
<1>13. PICK e \in Nat : e = n1.exnext_count
  BY DEF AinoSet
<1>14. PICK c \in Nat : c = n1.locked_children
  BY DEF AinoSet
<1>15. p1.exnext_count = e /\ p1.locked_children = c
  BY <1>7, <1>13, <1>14 DEF AinoSet
<1>16. Cardinality({i \in DOMAIN x.exkeys : x.exkeys[i].aino = f}) = e
  <2>1. e = CountOf(u.exkeys, f)
    BY <1>1, <1>3, <1>4, <1>13 DEF Scans
  <2> QED
    BY <1>12, <2>1 DEF CountOf
<1>17. PICK h : h = [i \in DOMAIN x.exkeys |->
                       IF i \in {j \in DOMAIN x.exkeys : x.exkeys[j].aino = f}
                       THEN [x.exkeys[i] EXCEPT !.aino = t] ELSE x.exkeys[i]]
  OBVIOUS
<1>18. h = ks
  BY <1>12, <1>17 DEF HeirKey
<1>19. v = [x EXCEPT !.exkeys = h,
              !.logged = @ \cup (IF Cardinality({i \in DOMAIN x.exkeys : x.exkeys[i].aino = f})
                                      # x.ino[f].exnext_count
                                 THEN {"Bug in ExNext bookkeeping"} ELSE {}),
              !.ino[t].exnext_count = x.ino[f].exnext_count,
              !.ino[t].locked_children = x.ino[f].locked_children,
              !.ino[f].exnext_count = 0,
              !.ino[f].locked_children = 0]
  <2>1. v = move_exkeys(x, f, t)
    BY <1>6 DEF TakeOver
  <2>2. move_exkeys(x, f, t) =
          [x EXCEPT !.exkeys = [i \in DOMAIN @ |->
                                  IF i \in {j \in DOMAIN x.exkeys : x.exkeys[j].aino = f}
                                  THEN [@[i] EXCEPT !.aino = t] ELSE @[i]],
              !.logged = @ \cup (IF Cardinality({i \in DOMAIN x.exkeys : x.exkeys[i].aino = f})
                                      # x.ino[f].exnext_count
                                 THEN {"Bug in ExNext bookkeeping"} ELSE {}),
              !.ino[t].exnext_count = x.ino[f].exnext_count,
              !.ino[t].locked_children = x.ino[f].locked_children,
              !.ino[f].exnext_count = 0,
              !.ino[f].locked_children = 0]
    BY DEF move_exkeys
  <2> QED
    BY <1>17, <2>1, <2>2
<1>20. v = [x EXCEPT !.exkeys = ks, !.logged = @ \cup {},
              !.ino[t].exnext_count = e, !.ino[t].locked_children = c,
              !.ino[f].exnext_count = 0, !.ino[f].locked_children = 0]
  BY <1>11, <1>12, <1>15, <1>16, <1>18, <1>19
<1>21. n = [p2 EXCEPT !.exnext_count = e, !.locked_children = c]
  BY <1>4, <1>5, <1>8, <1>13, <1>14 DEF Taken, AinoSet
<1>22. m = [p1 EXCEPT !.exnext_count = 0, !.locked_children = 0]
  BY <1>4, <1>7 DEF Left, AinoSet
<1>23. PICK k : k = [g EXCEPT ![t].exnext_count = e, ![t].locked_children = c,
                              ![f].exnext_count = 0, ![f].locked_children = 0]
  OBVIOUS
<1>24. k = [u.ino EXCEPT ![t] = n, ![f] = m]
  <2>1. k = [g EXCEPT ![t] = n, ![f] = m]
    BY <1>3, <1>11, <1>21, <1>22, <1>23
  <2> QED
    BY <1>2, <1>3, <1>9, <2>1
<1>25. PICK lg : lg = u.logged
  OBVIOUS
<1>26. v = [x EXCEPT !.exkeys = ks, !.logged = lg, !.ino = k]
  <2>1. v = [x EXCEPT !.exkeys = ks, !.logged = lg,
                !.ino[t].exnext_count = e, !.ino[t].locked_children = c,
                !.ino[f].exnext_count = 0, !.ino[f].locked_children = 0]
    <3>1. x.logged \cup {} = lg
      BY <1>12, <1>25
    <3> QED
      BY <1>12, <1>20, <3>1 DEF UnitSet
  <2>2. PICK w : w = [x EXCEPT !.exkeys = ks, !.logged = lg]
    OBVIOUS
  <2>3. w.ino = g
    BY <1>12, <2>2 DEF UnitSet
  <2>4. v = [w EXCEPT !.ino = [g EXCEPT ![t].exnext_count = e, ![t].locked_children = c,
                              ![f].exnext_count = 0, ![f].locked_children = 0]]
    <3>1. ks \in Seq(ExKeySet)
      <4>1. PICK z \in Nat : z = Len(u.exkeys)
        BY <1>2, UnitType
      <4>2. DOMAIN u.exkeys = 1..z /\ \A i \in 1..z : u.exkeys[i] \in ExKeySet
        BY <1>2, <4>1 DEF UnitSet
      <4>3. \A i \in 1..z : HeirKey(u.exkeys[i], f, t) \in ExKeySet
        BY <1>2, <1>3, <4>2, HeirKeyIs
      <4>4. ks \in [1..z -> ExKeySet]
        BY <4>2, <4>3
      <4> QED
        BY <4>1, <4>4
    <3>2. w = [x EXCEPT !.exkeys = ks]
      BY <1>12, <1>25, <2>2 DEF UnitSet
    <3>3. w \in UnitSet
      BY <1>12, <3>1, <3>2 DEF UnitSet
    <3>4. v = [w EXCEPT !.ino[t].exnext_count = e, !.ino[t].locked_children = c,
                        !.ino[f].exnext_count = 0, !.ino[f].locked_children = 0]
      BY <2>1, <2>2
    <3> QED
      BY <2>3, <3>3, <3>4 DEF UnitSet
  <2> QED
    BY <1>12, <1>23, <2>2, <2>4 DEF UnitSet
<1>27. v = [u EXCEPT !.ino = k, !.exkeys = ks]
  BY <1>2, <1>10, <1>25, <1>26 DEF UnitSet
<1> QED
  BY <1>24, <1>27

\* A record and an ExKey in which what lay below f lies below t.
MovedNode(n, f, t) == [n EXCEPT !.child = MovedSeq(@, f, t)]
MovedKey(k, f, t) ==
  [aino |-> Moved(k.aino, f, t), curr_file |-> Moved(k.curr_file, f, t),
   owed |-> MovedSet(k.owed, f, t)]

\* An a_inode whose children have moved.
LEMMA MovedNodeIs ==
  ASSUME NEW n \in AinoSet, NEW f \in Path, NEW t \in Path
  PROVE  /\ MovedNode(n, f, t) \in AinoSet
         /\ MovedNode(n, f, t).child = MovedSeq(n.child, f, t)
         /\ MovedNode(n, f, t).dir = n.dir /\ MovedNode(n, f, t).shlock = n.shlock
         /\ MovedNode(n, f, t).elock = n.elock
         /\ MovedNode(n, f, t).exnext_count = n.exnext_count
         /\ MovedNode(n, f, t).locked_children = n.locked_children
<1>1. PICK s \in Seq(Path) : s = n.child
  BY DEF AinoSet
<1>2. PICK l \in Nat : l = Len(s)
  OBVIOUS
<1>3. PICK r \in Seq(Path) : r = MovedSeq(s, f, t)
  <2>1. DOMAIN s = 1..l /\ \A i \in 1..l : s[i] \in Path
    BY <1>2
  <2>2. \A i \in 1..l : Moved(s[i], f, t) \in Path
    BY <2>1, MovedIs
  <2>3. MovedSeq(s, f, t) \in [1..l -> Path]
    BY <2>1, <2>2 DEF MovedSeq
  <2>4. MovedSeq(s, f, t) \in Seq(Path)
    BY <1>2, <2>3
  <2> QED
    BY <2>4
<1>4. MovedNode(n, f, t) = [n EXCEPT !.child = r]
  BY <1>1, <1>3 DEF MovedNode
<1> QED
  BY <1>1, <1>3, <1>4 DEF AinoSet

\* An ExKey whose directory has moved.
LEMMA MovedKeyIs ==
  ASSUME NEW k \in ExKeySet, NEW f \in Path, f # Root, NEW t \in Path
  PROVE  MovedKey(k, f, t) \in ExKeySet
<1>1. k.aino \in Path /\ k.curr_file \in Path \cup {Nil} /\ k.owed \in SUBSET Path
  BY DEF ExKeySet
<1>2. Moved(k.aino, f, t) \in Path
  BY <1>1, MovedIs
<1>3. Moved(k.curr_file, f, t) \in Path \cup {Nil}
  <2>1. CASE k.curr_file = Nil
    BY <2>1, NilStays
  <2>2. CASE k.curr_file # Nil
    BY <1>1, <2>2, MovedIs
  <2> QED
    BY <2>1, <2>2
<1>4. MovedSet(k.owed, f, t) \in SUBSET Path
  BY <1>1, MovedIs DEF MovedSet
<1> QED
  BY <1>2, <1>3, <1>4 DEF ExKeySet, MovedKey

\* The two moves of a rename do what Relocated says.
LEMMA RelocatedIs ==
  ASSUME NEW u, Good(u), NEW f, NEW t, Replaces(u, f, t),
         NEW y, y = move_aino_children(TakeOver(u, f, t), f, t)
  PROVE  Relocated(u, y, f, t)
<1>1. Typed(u) /\ Tree(u) /\ Chain(u) /\ Scans(u) /\ Totals(u) /\ Silent(u)
  BY DEF Good
<1>2. /\ u \in UnitSet /\ u.ino \in [Live(u) -> AinoSet] /\ Live(u) \in SUBSET Path
      /\ u.chained \in SUBSET Path
  BY <1>1, UnitType DEF Typed, UnitSet
<1>3. f \in Live(u) /\ t \in Live(u) /\ f # t /\ f # Root /\ f \in Path /\ t \in Path
  BY <1>2 DEF Replaces
<1> DEFINE N(b) == Moved(b, f, t)
<1>3a. /\ \A b \in Live(u) : N(b) \in Path
       /\ \A b \in Live(u), c \in Live(u) : N(b) = N(c) => b = c
       /\ N(f) = f /\ N(t) = t
  BY MovedPaths
<1> HIDE DEF N
<1>4. PICK n1 \in AinoSet : n1 = u.ino[f]
  BY <1>2, <1>3
<1>5. PICK n2 \in AinoSet : n2 = u.ino[t]
  BY <1>2, <1>3
<1>6. PICK q1 \in AinoSet : q1 = Left(n1)
  BY LeftTaken
<1>7. PICK q2 \in AinoSet : q2 = Taken(n2, n1)
  BY LeftTaken
<1>8. PICK s1 \in Seq(Path) : s1 = n1.child
  BY DEF AinoSet
<1>9. PICK s2 \in Seq(Path) : s2 = n2.child
  BY DEF AinoSet
<1>10. PICK o1 \in SUBSET (Names \X BOOLEAN) : o1 = n1.unseen
  BY DEF AinoSet
<1>11. PICK o2 \in SUBSET (Names \X BOOLEAN) : o2 = n2.unseen
  BY DEF AinoSet
<1>12. PICK m \in AinoSet : m = [q1 EXCEPT !.child = s1, !.unseen = o1]
  BY DEF AinoSet
<1>13. PICK n \in AinoSet : n = [q2 EXCEPT !.child = s2, !.unseen = o2]
  BY DEF AinoSet
<1>14. PICK ks : ks = [i \in DOMAIN u.exkeys |-> HeirKey(u.exkeys[i], f, t)]
  OBVIOUS
<1>15. PICK z \in Nat : z = Len(u.exkeys)
  BY <1>2, UnitType
<1>16. DOMAIN u.exkeys = 1..z /\ \A i \in 1..z : u.exkeys[i] \in ExKeySet
  BY <1>2, <1>15 DEF UnitSet
<1>17. /\ ks \in Seq(ExKeySet) /\ Len(ks) = z /\ DOMAIN ks = 1..z
       /\ \A i \in 1..z : ks[i] = HeirKey(u.exkeys[i], f, t)
  <2>1. \A i \in 1..z : HeirKey(u.exkeys[i], f, t) \in ExKeySet
    BY <1>3, <1>16, HeirKeyIs
  <2>2. ks \in [1..z -> ExKeySet]
    BY <1>14, <1>16, <2>1
  <2> QED
    BY <1>14, <1>16, <2>2
<1>18. PICK k : k = [u.ino EXCEPT ![t] = n, ![f] = m]
  OBVIOUS
<1>19. PICK v : v = TakeOver(u, f, t)
  OBVIOUS
<1>20. v = [u EXCEPT !.ino = k, !.exkeys = ks]
  <2>1. m = Filled(Left(u.ino[f]), u.ino[f])
    BY <1>4, <1>6, <1>8, <1>10, <1>12 DEF Filled
  <2>2. n = Filled(Taken(u.ino[t], u.ino[f]), u.ino[t])
    BY <1>4, <1>5, <1>7, <1>9, <1>11, <1>13 DEF Filled
  <2>3. ks = HeirKeys(u, f, t)
    BY <1>14 DEF HeirKeys
  <2>4. v = Retold(u, Nodes(u, f, m, t, n), ks)
    BY <1>19, <2>1, <2>2, <2>3, TakeOverIs
  <2> QED
    BY <1>18, <2>4 DEF Retold, Nodes
<1>21. k \in [Live(u) -> AinoSet] /\ k[f] = m /\ k[t] = n
  BY <1>2, <1>3, <1>18
<1>22. v \in UnitSet /\ v.ino = k /\ v.exkeys = ks /\ Live(v) = Live(u) /\ v.chained = u.chained
  <2>1. k \in InoSet
    BY <1>2, <1>21 DEF InoSet
  <2> QED
    BY <1>2, <1>17, <1>20, <1>21, <2>1 DEF UnitSet, Live
<1>23. m.child = s1 /\ m.unseen = o1
  BY <1>12 DEF AinoSet
<1>24. PICK x : x = [v EXCEPT !.ino[t].child = v.ino[f].child, !.ino[t].unseen = v.ino[f].unseen,
                              !.ino[f].child = <<>>, !.ino[f].unseen = {}]
  OBVIOUS
<1>25. PICK g : g = [u.ino EXCEPT ![t] = q2, ![f] = q1]
  OBVIOUS
<1>26. x = [v EXCEPT !.ino = g]
  <2>1. PICK e : e = [k EXCEPT ![t].child = s1, ![t].unseen = o1,
                               ![f].child = <<>>, ![f].unseen = {}]
    OBVIOUS
  <2>2. q2 = [n EXCEPT !.child = s1, !.unseen = o1]
    <3>1. q2.child = s1 /\ q2.unseen = o1
      BY <1>7, <1>8, <1>10 DEF Taken, AinoSet
    <3> QED
      BY <1>13, <3>1 DEF AinoSet
  <2>3. q1 = [m EXCEPT !.child = <<>>, !.unseen = {}]
    <3>1. q1.child = <<>> /\ q1.unseen = {}
      BY <1>6 DEF Left, AinoSet
    <3> QED
      BY <1>12, <3>1 DEF AinoSet
  <2>4. e = [k EXCEPT ![t] = q2, ![f] = q1]
    BY <1>3, <1>21, <2>1, <2>2, <2>3
  <2>5. e = g
    BY <1>2, <1>3, <1>18, <1>25, <2>4
  <2>6. x = [v EXCEPT !.ino[t].child = s1, !.ino[t].unseen = o1,
                      !.ino[f].child = <<>>, !.ino[f].unseen = {}]
    BY <1>21, <1>22, <1>23, <1>24
  <2>7. x = [v EXCEPT !.ino = e]
    BY <1>22, <2>1, <2>6 DEF UnitSet
  <2> QED
    BY <2>5, <2>7
<1>27. g \in [Live(u) -> AinoSet] /\ g[f] = q1 /\ g[t] = q2 /\ \A b \in Live(u) \ {f, t} : g[b] = u.ino[b]
  BY <1>2, <1>3, <1>25
<1>28. x \in UnitSet /\ x.ino = g /\ Live(x) = Live(u) /\ x.exkeys = ks /\ x.chained = u.chained
         /\ x.aino_cache_size = u.aino_cache_size /\ x.logged = u.logged
         /\ x.total_locked_ainos = u.total_locked_ainos
  <2>1. g \in InoSet
    BY <1>2, <1>27 DEF InoSet
  <2> QED
    BY <1>2, <1>20, <1>22, <1>26, <1>27, <2>1 DEF UnitSet, Live
<1>29. PICK S \in SUBSET Path : S = MovedSet(Live(u), f, t)
  <2>1. MovedSet(Live(u), f, t) \in SUBSET Path
    BY <1>3a DEF MovedSet, N
  <2> QED
    BY <2>1
<1>30. PICK C \in SUBSET Path : C = MovedSet(u.chained, f, t)
  <2>1. MovedSet(u.chained, f, t) \in SUBSET Path
    BY <1>2, <1>3, MovedIs DEF MovedSet
  <2> QED
    BY <2>1
<1> DEFINE h == [a \in S |-> MovedNode(g[CHOOSE b \in Live(u) : N(b) = a], f, t)]
           rs == [i \in 1..z |-> MovedKey(ks[i], f, t)]
<1>31. y = [x EXCEPT !.ino = h, !.chained = C, !.exkeys = rs]
  <2> DEFINE h2 == [a \in {Moved(b, f, t) : b \in Live(x)} |->
                      [x.ino[CHOOSE b \in Live(x) : Moved(b, f, t) = a] EXCEPT
                         !.child = [i \in DOMAIN @ |-> Moved(@[i], f, t)]]]
             rs2 == [i \in DOMAIN x.exkeys |->
                       [aino |-> Moved(x.exkeys[i].aino, f, t),
                        curr_file |-> Moved(x.exkeys[i].curr_file, f, t),
                        owed |-> {Moved(b, f, t) : b \in x.exkeys[i].owed}]]
  <2>1. move_aino_children(v, f, t) =
          [x EXCEPT !.ino = h2, !.chained = {Moved(b, f, t) : b \in x.chained}, !.exkeys = rs2]
    <3> DEFINE X == [v EXCEPT !.ino[t].child = v.ino[f].child,
                              !.ino[t].unseen = v.ino[f].unseen,
                              !.ino[f].child = <<>>, !.ino[f].unseen = {}]
    <3>1. move_aino_children(v, f, t) =
            [X EXCEPT !.ino = [a \in {Moved(b, f, t) : b \in Live(X)} |->
                                 [X.ino[CHOOSE b \in Live(X) : Moved(b, f, t) = a] EXCEPT
                                    !.child = [i \in DOMAIN @ |-> Moved(@[i], f, t)]]],
                      !.chained = {Moved(b, f, t) : b \in @},
                      !.exkeys = [i \in DOMAIN @ |->
                                    [aino |-> Moved(@[i].aino, f, t),
                                     curr_file |-> Moved(@[i].curr_file, f, t),
                                     owed |-> {Moved(b, f, t) : b \in @[i].owed}]]]
      BY DEF move_aino_children
    <3>2. X = x
      BY <1>24
    <3> HIDE DEF X
    <3> QED
      BY <3>1, <3>2
  <2>2. h2 = h
    <3>1. {Moved(b, f, t) : b \in Live(x)} = S
      BY <1>28, <1>29 DEF MovedSet
    <3> QED
      BY <1>28, <3>1 DEF MovedNode, MovedSeq, N
  <2>3. rs2 = rs
    BY <1>17, <1>28 DEF MovedKey, MovedSet
  <2>4. {Moved(b, f, t) : b \in x.chained} = C
    BY <1>28, <1>30 DEF MovedSet
  <2> HIDE DEF h, h2, rs, rs2
  <2>5. y = move_aino_children(v, f, t)
    BY <1>19
  <2> QED
    BY <2>1, <2>2, <2>3, <2>4, <2>5
<1>32. ASSUME NEW b \in Live(u) PROVE N(b) \in S /\ h[N(b)] = MovedNode(g[b], f, t)
  <2>1. N(b) \in S
    BY <1>29 DEF MovedSet, N
  <2>2. (CHOOSE c \in Live(u) : N(c) = N(b)) = b
    BY <1>3a
  <2> QED
    BY <2>1, <2>2
<1>33. h \in [S -> AinoSet]
  <2> SUFFICES ASSUME NEW a \in S PROVE h[a] \in AinoSet
    OBVIOUS
  <2>1. PICK b \in Live(u) : a = N(b)
    BY <1>29 DEF MovedSet, N
  <2>2. g[b] \in AinoSet
    BY <1>27
  <2>3. MovedNode(g[b], f, t) \in AinoSet
    BY <1>3, <2>2, MovedNodeIs
  <2> HIDE DEF h
  <2> QED
    BY <1>32, <2>1, <2>3
<1>34. rs \in Seq(ExKeySet) /\ Len(rs) = z /\ \A i \in 1..z : rs[i] = MovedKey(ks[i], f, t)
  <2>1. \A i \in 1..z : ks[i] \in ExKeySet
    BY <1>17
  <2>2. \A i \in 1..z : MovedKey(ks[i], f, t) \in ExKeySet
    BY <1>3, <2>1, MovedKeyIs
  <2> QED
    BY <2>2
<1> HIDE DEF h, rs
<1>35. /\ y \in UnitSet /\ y.ino = h /\ Live(y) = S /\ y.chained = C /\ y.exkeys = rs
       /\ y.aino_cache_size = u.aino_cache_size /\ y.logged = u.logged
       /\ y.total_locked_ainos = u.total_locked_ainos
  <2>1. h \in InoSet
    BY <1>33 DEF InoSet
  <2> QED
    BY <1>28, <1>31, <1>33, <1>34, <2>1 DEF UnitSet, Live
<1>36. ASSUME NEW b \in Live(u)
       PROVE  /\ y.ino[N(b)].dir = g[b].dir /\ y.ino[N(b)].shlock = g[b].shlock
              /\ y.ino[N(b)].elock = g[b].elock
              /\ y.ino[N(b)].child = MovedSeq(g[b].child, f, t)
              /\ y.ino[N(b)].exnext_count = g[b].exnext_count
              /\ y.ino[N(b)].locked_children = g[b].locked_children
  <2>1. PICK n3 \in AinoSet : n3 = g[b]
    BY <1>27
  <2>2. PICK n4 : n4 = y.ino[N(b)]
    OBVIOUS
  <2>3. n4 = MovedNode(n3, f, t)
    BY <1>32, <1>35, <2>1, <2>2
  <2>4. /\ n4.dir = n3.dir /\ n4.shlock = n3.shlock /\ n4.elock = n3.elock
        /\ n4.child = MovedSeq(n3.child, f, t) /\ n4.exnext_count = n3.exnext_count
        /\ n4.locked_children = n3.locked_children
    BY <1>3, <2>3, MovedNodeIs
  <2> QED
    BY <2>1, <2>2, <2>4
<1>37. /\ q1.dir = n1.dir /\ q1.shlock = n1.shlock /\ q1.elock = n1.elock
       /\ q1.child = <<>> /\ q1.exnext_count = 0 /\ q1.locked_children = 0
       /\ q2.dir = n2.dir /\ q2.shlock = n2.shlock /\ q2.elock = n2.elock
       /\ q2.child = n1.child /\ q2.exnext_count = n1.exnext_count
       /\ q2.locked_children = n1.locked_children
  <2>1. /\ q1.dir = n1.dir /\ q1.shlock = n1.shlock /\ q1.elock = n1.elock
        /\ q1.child = <<>> /\ q1.exnext_count = 0 /\ q1.locked_children = 0
    BY <1>6, LeftTaken
  <2>2. /\ q2.dir = n2.dir /\ q2.shlock = n2.shlock /\ q2.elock = n2.elock
        /\ q2.child = n1.child /\ q2.exnext_count = n1.exnext_count
        /\ q2.locked_children = n1.locked_children
    BY <1>7, LeftTaken
  <2> QED
    BY <2>1, <2>2
<1>38. ASSUME NEW b \in Live(u)
       PROVE  /\ y.ino[N(b)].dir = u.ino[b].dir /\ y.ino[N(b)].shlock = u.ino[b].shlock
              /\ y.ino[N(b)].elock = u.ino[b].elock
  <2>1. g[b].dir = u.ino[b].dir /\ g[b].shlock = u.ino[b].shlock /\ g[b].elock = u.ino[b].elock
    BY <1>4, <1>5, <1>27, <1>37
  <2> QED
    BY <1>36, <2>1
<1>39. ASSUME NEW b \in Live(u) \ {t}
       PROVE  /\ y.ino[Heir(b, f, t)].child = MovedSeq(u.ino[b].child, f, t)
              /\ y.ino[Heir(b, f, t)].exnext_count = u.ino[b].exnext_count
              /\ y.ino[Heir(b, f, t)].locked_children = u.ino[b].locked_children
  <2>1. CASE b = f
    <3>1. Heir(b, f, t) = N(t)
      BY <1>3a, <2>1 DEF Heir
    <3> QED
      BY <1>3, <1>4, <1>27, <1>36, <1>37, <2>1, <3>1
  <2>2. CASE b # f
    <3>1. Heir(b, f, t) = N(b)
      BY <2>2 DEF Heir, N
    <3> QED
      BY <1>27, <1>36, <2>2, <3>1
  <2> QED
    BY <2>1, <2>2
<1>40. y.ino[f].child = <<>> /\ y.ino[f].exnext_count = 0 /\ y.ino[f].locked_children = 0
  <2>1. PICK s : s = q1.child
    OBVIOUS
  <2>2. s = <<>>
    BY <1>37, <2>1
  <2>3. MovedSeq(s, f, t) = <<>>
    <3>1. DOMAIN s = {}
      BY <2>2
    <3>2. MovedSeq(s, f, t) = [i \in {} |-> Moved(s[i], f, t)]
      BY <3>1 DEF MovedSeq
    <3> QED
      BY <3>2
  <2> QED
    BY <1>3, <1>3a, <1>27, <1>36, <1>37, <2>1, <2>3
<1>41. Len(y.exkeys) = Len(u.exkeys)
  BY <1>15, <1>34, <1>35
<1>42. ASSUME NEW i \in DOMAIN u.exkeys
       PROVE  /\ y.exkeys[i].aino = Heir(u.exkeys[i].aino, f, t)
              /\ y.exkeys[i].curr_file = Moved(u.exkeys[i].curr_file, f, t)
              /\ y.exkeys[i].owed = MovedSet(u.exkeys[i].owed, f, t)
  <2>1. PICK j \in ExKeySet : j = u.exkeys[i] /\ i \in 1..z
    BY <1>16
  <2>2. PICK l : l = ks[i]
    OBVIOUS
  <2>3. l = HeirKey(j, f, t)
    BY <1>17, <2>1, <2>2
  <2>4. /\ l.aino = (IF j.aino = f THEN t ELSE j.aino)
        /\ l.curr_file = j.curr_file /\ l.owed = j.owed
    BY <1>3, <2>3, HeirKeyIs
  <2>5. y.exkeys[i] = MovedKey(l, f, t)
    BY <1>34, <1>35, <2>1, <2>2
  <2>6. Moved(l.aino, f, t) = Heir(j.aino, f, t)
    BY <1>3a, <2>4 DEF Heir, N
  <2> QED
    BY <2>1, <2>4, <2>5, <2>6 DEF MovedKey
<1> QED
  BY <1>29, <1>30, <1>35, <1>38, <1>39, <1>40, <1>41, <1>42 DEF Relocated, N

-----------------------------------------------------------------------------
(* Locks and files, and the users of a_inodes.                             *)

\* How often a bag holds something.
LEMMA CopiesIs ==
  ASSUME NEW L, IsABag(L), NEW a
  PROVE  Copies(a, L) \in Nat /\ (Copies(a, L) = 0 <=> a \notin DOMAIN L)
BY DEF Copies, IsABag, BagToSet

\* Uses looks at shlock and elock only.
LEMMA UsesSame ==
  ASSUME NEW u, NEW v, NEW L, NEW K, NEW X, Uses(u, L, K, X), SameUses(u, v)
  PROVE  Uses(v, L, K, X)
BY DEF Uses, SameUses

\* What is locked or open is in memory and in use.
LEMMA UsesLive ==
  ASSUME NEW u, Good(u), NEW L, NEW K, NEW X, Uses(u, L, K, X),
         NEW a \in DOMAIN L \cup DOMAIN K \cup DOMAIN X
  PROVE  /\ a \in Live(u) /\ InUse(u, a) /\ a \notin u.chained
         /\ Copies(a, L) + Copies(a, K) + Copies(a, X) >= 1
<1>1. a \in Path /\ IsABag(L) /\ IsABag(K) /\ IsABag(X)
  BY DEF Uses
<1>2. PICK m \in Nat : m = Copies(a, L)
  BY <1>1, CopiesIs
<1>3. PICK n \in Nat : n = Copies(a, K)
  BY <1>1, CopiesIs
<1>9. PICK x \in Nat : x = Copies(a, X)
  BY <1>1, CopiesIs
<1>4. m + n + x >= 1
  <2>1. CASE a \in DOMAIN L
    <3>1. m # 0
      BY <1>1, <1>2, <2>1, CopiesIs
    <3> QED
      BY <3>1
  <2>2. CASE a \in DOMAIN K
    <3>1. n # 0
      BY <1>1, <1>3, <2>2, CopiesIs
    <3> QED
      BY <3>1
  <2>3. CASE a \in DOMAIN X
    <3>1. x # 0
      BY <1>1, <1>9, <2>3, CopiesIs
    <3> QED
      BY <3>1
  <2> QED
    BY <2>1, <2>2, <2>3
<1>5. IF Exclusive(u, a) THEN m + n + x = 1 ELSE Shared(u, a) = m + n + x
  BY <1>1, <1>2, <1>3, <1>9 DEF Uses
<1>6. a \in Live(u)
  BY <1>4, <1>5 DEF Shared, Exclusive
<1>7. InUse(u, a)
  BY <1>4, <1>5, <1>6 DEF Shared, Exclusive, InUse
<1>8. a \notin u.chained
  BY <1>7 DEF Good, Chain
<1> QED
  BY <1>2, <1>3, <1>4, <1>6, <1>7, <1>8, <1>9

\* A bag with one more or one less.
MoreOf(L, a) == L (+) One(a)
LessOf(L, a) == L (-) One(a)

\* A bag with one more.
LEMMA MoreIs ==
  ASSUME NEW L, IsABag(L), DOMAIN L \subseteq Path, NEW a \in Path, NEW M, M = MoreOf(L, a)
  PROVE  /\ IsABag(M) /\ DOMAIN M \subseteq Path /\ Copies(a, M) = Copies(a, L) + 1
         /\ \A b \in Path : b # a => Copies(b, M) = Copies(b, L)
<1>1. M = [e \in DOMAIN L \cup {a} |-> (IF e \in DOMAIN L THEN L[e] ELSE 0)
                                         + (IF e \in {a} THEN 1 ELSE 0)]
  BY DEF MoreOf, One, SetToBag, (+)
<1>2. \A e \in DOMAIN L : L[e] \in Nat /\ L[e] > 0
  BY DEF IsABag
<1>3. ASSUME NEW e \in DOMAIN M PROVE M[e] \in Nat /\ M[e] > 0
  BY <1>1, <1>2
<1>4. IsABag(M)
  BY <1>1, <1>3 DEF IsABag
<1>5. Copies(a, M) = Copies(a, L) + 1
  BY <1>1, <1>2 DEF Copies, BagToSet
<1>6. ASSUME NEW b \in Path, b # a PROVE Copies(b, M) = Copies(b, L)
  BY <1>1, <1>2, <1>6 DEF Copies, BagToSet
<1>7. DOMAIN M \subseteq Path
  BY <1>1
<1> QED
  BY <1>4, <1>5, <1>6, <1>7

\* A bag with one less.
LEMMA LessIs ==
  ASSUME NEW L, IsABag(L), DOMAIN L \subseteq Path, NEW a \in DOMAIN L, NEW M, M = LessOf(L, a)
  PROVE  /\ IsABag(M) /\ DOMAIN M \subseteq Path /\ Copies(a, M) = Copies(a, L) - 1
         /\ \A b \in Path : b # a => Copies(b, M) = Copies(b, L)
<1> DEFINE B == [e \in DOMAIN L |-> IF e \in {a} THEN L[e] - 1 ELSE L[e]]
<1>1. M = [e \in {d \in DOMAIN B : B[d] > 0} |-> B[e]]
  BY DEF LessOf, One, SetToBag, (-)
<1>2. \A e \in DOMAIN L : L[e] \in Nat /\ L[e] > 0
  BY DEF IsABag
<1>3. DOMAIN M = {d \in DOMAIN L : B[d] > 0}
  BY <1>1
<1>4. ASSUME NEW e \in DOMAIN M PROVE M[e] \in Nat /\ M[e] > 0 /\ M[e] = B[e]
  BY <1>1, <1>2
<1>5. IsABag(M)
  <2>1. M = [e \in DOMAIN M |-> M[e]]
    BY <1>1
  <2> QED
    BY <1>4, <2>1 DEF IsABag
<1>6. Copies(a, M) = Copies(a, L) - 1
  <2>1. B[a] = L[a] - 1
    OBVIOUS
  <2>2. a \in DOMAIN M <=> L[a] - 1 > 0
    BY <1>3
  <2>3. a \in DOMAIN M => M[a] = L[a] - 1
    BY <1>4
  <2> QED
    BY <1>2, <2>2, <2>3 DEF Copies, BagToSet
<1>7. ASSUME NEW b \in Path, b # a PROVE Copies(b, M) = Copies(b, L)
  <2>1. b \in DOMAIN L => B[b] = L[b]
    BY <1>7
  <2>2. b \in DOMAIN M <=> b \in DOMAIN L
    BY <1>2, <1>3, <2>1
  <2>3. b \in DOMAIN M => M[b] = L[b]
    BY <1>3, <1>4, <2>1
  <2> QED
    BY <2>2, <2>3 DEF Copies, BagToSet
<1>8. DOMAIN M \subseteq Path
  BY <1>3
<1> QED
  BY <1>5, <1>6, <1>7, <1>8

\* A bag whose elements become others, all different.
Carried(L, F) == [a \in {F[b] : b \in DOMAIN L} |-> L[CHOOSE b \in DOMAIN L : F[b] = a]]

\* What a bag's members are renamed to.
Image(L, F) == {F[b] : b \in DOMAIN L}

\* A bag whose members are renamed, no two to the same.
LEMMA CarriedIs ==
  ASSUME NEW L, IsABag(L), NEW F, F \in [DOMAIN L -> Path],
         \A b \in DOMAIN L, c \in DOMAIN L : F[b] = F[c] => b = c,
         NEW M, M = Carried(L, F)
  PROVE  /\ IsABag(M) /\ DOMAIN M = Image(L, F) /\ DOMAIN M \subseteq Path
         /\ \A b \in DOMAIN L : M[F[b]] = L[b]
         /\ \A b \in DOMAIN L : Copies(F[b], M) = Copies(b, L)
<1> USE DEF Image
<1>1. DOMAIN M = {F[b] : b \in DOMAIN L}
  BY DEF Carried
<1>2. ASSUME NEW b \in DOMAIN L PROVE M[F[b]] = L[b]
  <2>1. (CHOOSE c \in DOMAIN L : F[c] = F[b]) = b
    OBVIOUS
  <2> QED
    BY <2>1 DEF Carried
<1>3. ASSUME NEW e \in DOMAIN M PROVE M[e] \in Nat /\ M[e] > 0
  <2>1. PICK b \in DOMAIN L : e = F[b]
    BY <1>1
  <2>2. L[b] \in Nat /\ L[b] > 0
    BY DEF IsABag
  <2> QED
    BY <1>2, <2>1, <2>2
<1>4. IsABag(M)
  <2>1. M = [e \in DOMAIN M |-> M[e]]
    BY DEF Carried
  <2> QED
    BY <1>3, <2>1 DEF IsABag
<1>5. \A b \in DOMAIN L : Copies(F[b], M) = Copies(b, L)
  BY <1>1, <1>2 DEF Copies, BagToSet
<1> QED
  BY <1>1, <1>2, <1>4, <1>5

\* The locks and open files after a rename, as in RenameTo.
LocksMoved(L, f, t) == MovedBag(L, LAMBDA b : IF b = f THEN t ELSE Moved(b, f, t))
KeysMoved(K, f, t) == MovedBag(K, LAMBDA b : Moved(b, f, t))

\* What is locked or open moves; f itself is neither.
LEMMA BagMoves ==
  ASSUME NEW u, Good(u), NEW f, NEW t, Replaces(u, f, t), NEW L, IsABag(L),
         DOMAIN L \subseteq Live(u) \ {f}
  PROVE  /\ LocksMoved(L, f, t) = KeysMoved(L, f, t)
         /\ IsABag(KeysMoved(L, f, t))
         /\ DOMAIN KeysMoved(L, f, t) = MovedSet(DOMAIN L, f, t)
         /\ DOMAIN KeysMoved(L, f, t) \subseteq Path
         /\ \A b \in DOMAIN L : Copies(Moved(b, f, t), KeysMoved(L, f, t)) = Copies(b, L)
<1> DEFINE N(b) == Moved(b, f, t)
           F == [b \in DOMAIN L |-> N(b)]
<1>1. /\ \A b \in Live(u) : N(b) \in Path
      /\ \A b \in Live(u), c \in Live(u) : N(b) = N(c) => b = c
  BY MovedPaths
<1> HIDE DEF N
<1>2. F \in [DOMAIN L -> Path] /\ \A b \in DOMAIN L, c \in DOMAIN L : F[b] = F[c] => b = c
  BY <1>1
<1>3. PICK M : M = Carried(L, F)
  OBVIOUS
<1>4. /\ IsABag(M) /\ DOMAIN M = Image(L, F) /\ DOMAIN M \subseteq Path
      /\ \A b \in DOMAIN L : M[F[b]] = L[b]
      /\ \A b \in DOMAIN L : Copies(F[b], M) = Copies(b, L)
  <2> HIDE DEF F
  <2>1. IsABag(M)
    BY <1>2, <1>3, CarriedIs
  <2>2. DOMAIN M = Image(L, F) /\ DOMAIN M \subseteq Path
    BY <1>2, <1>3, CarriedIs
  <2>3. \A b \in DOMAIN L : M[F[b]] = L[b]
    BY <1>2, <1>3, CarriedIs
  <2>4. \A b \in DOMAIN L : Copies(F[b], M) = Copies(b, L)
    BY <1>2, <1>3, CarriedIs
  <2> QED
    BY <2>1, <2>2, <2>3, <2>4
<1>4a. M = [a \in DOMAIN M |-> M[a]]
  BY <1>3 DEF Carried
<1>4b. DOMAIN M = {N(b) : b \in DOMAIN L} /\ \A b \in DOMAIN L : M[N(b)] = L[b]
  BY <1>4 DEF Image
<1> HIDE DEF F
<1>6. KeysMoved(L, f, t) = M
  <2> DEFINE O == [a \in {N(b) : b \in DOMAIN L} |-> L[CHOOSE b \in DOMAIN L : N(b) = a]]
  <2>1. KeysMoved(L, f, t) = O
    BY DEF KeysMoved, MovedBag, BagToSet, N
  <2>2. ASSUME NEW b \in DOMAIN L PROVE O[N(b)] = L[b]
    <3>1. (CHOOSE c \in DOMAIN L : N(c) = N(b)) = b
      BY <1>1
    <3> QED
      BY <3>1
  <2>3. DOMAIN O = {N(b) : b \in DOMAIN L} /\ O = [a \in DOMAIN O |-> O[a]]
    OBVIOUS
  <2> HIDE DEF O
  <2> QED
    BY <1>4a, <1>4b, <2>1, <2>2, <2>3
<1>7. LocksMoved(L, f, t) = M
  <2> DEFINE H(b) == IF b = f THEN t ELSE N(b)
             O == [a \in {H(b) : b \in DOMAIN L} |-> L[CHOOSE b \in DOMAIN L : H(b) = a]]
  <2>2. LocksMoved(L, f, t) = O
    BY DEF LocksMoved, MovedBag, BagToSet, N
  <2>1. \A b \in DOMAIN L : H(b) = N(b)
    OBVIOUS
  <2> HIDE DEF H
  <2>3. DOMAIN O = {N(b) : b \in DOMAIN L}
    BY <2>1
  <2>4. ASSUME NEW b \in DOMAIN L PROVE O[N(b)] = L[b]
    <3>1. (CHOOSE c \in DOMAIN L : H(c) = N(b)) = b
      BY <1>1, <2>1
    <3>2. N(b) \in DOMAIN O
      BY <2>3
    <3> QED
      BY <3>1, <3>2
  <2>5. O = [a \in DOMAIN O |-> O[a]]
    OBVIOUS
  <2> HIDE DEF O
  <2> QED
    BY <1>4a, <1>4b, <2>2, <2>3, <2>4, <2>5
<1>8. Image(L, F) = MovedSet(DOMAIN L, f, t)
  BY DEF MovedSet, Image, N, F
<1>9. \A b \in DOMAIN L : F[b] = Moved(b, f, t)
  BY DEF N, F
<1> QED
  BY <1>4, <1>6, <1>7, <1>8, <1>9

\* After a rename the users of each a_inode are those it had before.
LEMMA RelocatedUses ==
  ASSUME NEW u, Good(u), NEW f, NEW t, Replaces(u, f, t), ~InUse(u, f),
         NEW L, NEW K, NEW X, Uses(u, L, K, X), NEW v, Relocated(u, v, f, t)
  PROVE  Uses(v, LocksMoved(L, f, t), KeysMoved(K, f, t), KeysMoved(X, f, t))
<1>1. IsABag(L) /\ IsABag(K) /\ IsABag(X)
      /\ DOMAIN L \subseteq Path /\ DOMAIN K \subseteq Path /\ DOMAIN X \subseteq Path
  BY DEF Uses
<1>2. /\ DOMAIN L \subseteq Live(u) \ {f} /\ DOMAIN K \subseteq Live(u) \ {f}
      /\ DOMAIN X \subseteq Live(u) \ {f}
  BY UsesLive
<1>3. PICK P : P = LocksMoved(L, f, t)
  OBVIOUS
<1>4. PICK R : R = KeysMoved(K, f, t)
  OBVIOUS
<1>12. PICK Z : Z = KeysMoved(X, f, t)
  OBVIOUS
<1>5. /\ IsABag(P) /\ DOMAIN P = MovedSet(DOMAIN L, f, t) /\ DOMAIN P \subseteq Path
      /\ \A b \in DOMAIN L : Copies(Moved(b, f, t), P) = Copies(b, L)
  BY <1>1, <1>2, <1>3, BagMoves
<1>6. /\ IsABag(R) /\ DOMAIN R = MovedSet(DOMAIN K, f, t) /\ DOMAIN R \subseteq Path
      /\ \A b \in DOMAIN K : Copies(Moved(b, f, t), R) = Copies(b, K)
  BY <1>1, <1>2, <1>4, BagMoves
<1>13. /\ IsABag(Z) /\ DOMAIN Z = MovedSet(DOMAIN X, f, t) /\ DOMAIN Z \subseteq Path
       /\ \A b \in DOMAIN X : Copies(Moved(b, f, t), Z) = Copies(b, X)
  BY <1>1, <1>2, <1>12, BagMoves
<1> DEFINE N(b) == Moved(b, f, t)
<1>7. \A b \in Live(u), c \in Live(u) : N(b) = N(c) => b = c
  BY MovedPaths
<1>8. /\ Live(v) = MovedSet(Live(u), f, t)
      /\ \A b \in Live(u) : /\ v.ino[N(b)].shlock = u.ino[b].shlock
                            /\ v.ino[N(b)].elock = u.ino[b].elock
  BY DEF Relocated
<1>9. ASSUME NEW b \in Live(u)
      PROVE  /\ Copies(N(b), P) = Copies(b, L) /\ Copies(N(b), R) = Copies(b, K)
             /\ Copies(N(b), Z) = Copies(b, X)
  <2>1. Copies(N(b), P) = Copies(b, L)
    <3>1. CASE b \in DOMAIN L
      BY <1>5, <3>1
    <3>2. CASE b \notin DOMAIN L
      <4>1. N(b) \notin DOMAIN P
        BY <1>2, <1>5, <1>7, <3>2 DEF MovedSet
      <4> HIDE DEF N
      <4> QED
        BY <1>1, <1>5, <3>2, <4>1, CopiesIs
    <3> QED
      BY <3>1, <3>2
  <2>2. Copies(N(b), R) = Copies(b, K)
    <3>1. CASE b \in DOMAIN K
      BY <1>6, <3>1
    <3>2. CASE b \notin DOMAIN K
      <4>1. N(b) \notin DOMAIN R
        BY <1>2, <1>6, <1>7, <3>2 DEF MovedSet
      <4> HIDE DEF N
      <4> QED
        BY <1>1, <1>6, <3>2, <4>1, CopiesIs
    <3> QED
      BY <3>1, <3>2
  <2>3. Copies(N(b), Z) = Copies(b, X)
    <3>1. CASE b \in DOMAIN X
      BY <1>13, <3>1
    <3>2. CASE b \notin DOMAIN X
      <4>1. N(b) \notin DOMAIN Z
        BY <1>2, <1>13, <1>7, <3>2 DEF MovedSet
      <4> HIDE DEF N
      <4> QED
        BY <1>1, <1>13, <3>2, <4>1, CopiesIs
    <3> QED
      BY <3>1, <3>2
  <2> QED
    BY <2>1, <2>2, <2>3
<1>10. ASSUME NEW a \in Path
       PROVE  IF Exclusive(v, a)
              THEN Copies(a, P) + Copies(a, R) + Copies(a, Z) = 1 /\ Shared(v, a) = 0
              ELSE Shared(v, a) = Copies(a, P) + Copies(a, R) + Copies(a, Z)
  <2>1. CASE a \in Live(v)
    <3>1. PICK b \in Live(u) : a = N(b)
      BY <1>8, <2>1 DEF MovedSet
    <3>2. b \in Path
      BY UnitType DEF Good, Typed
    <3>3. Exclusive(v, a) = Exclusive(u, b) /\ Shared(v, a) = Shared(u, b)
      BY <1>8, <2>1, <3>1 DEF Shared, Exclusive
    <3>4. /\ Copies(a, P) = Copies(b, L) /\ Copies(a, R) = Copies(b, K)
          /\ Copies(a, Z) = Copies(b, X)
      BY <1>9, <3>1
    <3>5. IF Exclusive(u, b)
          THEN Copies(b, L) + Copies(b, K) + Copies(b, X) = 1 /\ Shared(u, b) = 0
          ELSE Shared(u, b) = Copies(b, L) + Copies(b, K) + Copies(b, X)
      BY <3>2 DEF Uses
    <3> QED
      BY <3>3, <3>4, <3>5
  <2>2. CASE a \notin Live(v)
    <3>1. a \notin DOMAIN P /\ a \notin DOMAIN R /\ a \notin DOMAIN Z
      BY <1>2, <1>5, <1>6, <1>13, <1>8, <2>2 DEF MovedSet
    <3>2. Copies(a, P) = 0 /\ Copies(a, R) = 0 /\ Copies(a, Z) = 0
      BY <1>5, <1>6, <1>13, <3>1, CopiesIs
    <3> QED
      BY <2>2, <3>2 DEF Shared, Exclusive
  <2> QED
    BY <2>1, <2>2
<1>11. Uses(v, P, R, Z)
  BY <1>5, <1>6, <1>13, <1>10 DEF Uses
<1> QED
  BY <1>3, <1>4, <1>12, <1>11

\* A rename, once a2 has been made, keeps the tree and the scans.
LEMMA RenameKeeps ==
  ASSUME NEW u, Good(u), NEW f, NEW t, Replaces(u, f, t), ~InUse(u, f),
         NEW L, NEW K, NEW X, Uses(u, L, K, X), NEW v, v = Renamed(u, f, t)
  PROVE  Good(v) /\ Uses(v, LocksMoved(L, f, t), KeysMoved(K, f, t), KeysMoved(X, f, t))
<1>1. PICK y : y = move_aino_children(TakeOver(u, f, t), f, t)
  OBVIOUS
<1>2. v = delete_aino(y, f)
  BY <1>1 DEF Renamed, TakeOver
<1>3. Relocated(u, y, f, t)
  BY <1>1, RelocatedIs
<1>4. Good(y)
  BY <1>3, RelocatedKeeps
<1>5. Uses(y, LocksMoved(L, f, t), KeysMoved(K, f, t), KeysMoved(X, f, t))
  BY <1>3, RelocatedUses
<1>6. f \in Live(u) /\ f # Root /\ Moved(f, f, t) = f
  BY MovedPaths DEF Replaces
<1>7. f \in Live(y) /\ ~InUse(y, f) /\ y.ino[f].child = <<>> /\ y.ino[f].exnext_count = 0
  <2>1. f \in MovedSet(Live(u), f, t)
    BY <1>6 DEF MovedSet
  <2> QED
    BY <1>3, <1>6, <2>1 DEF Relocated, InUse
<1>8. Good(v) /\ SameUses(y, v)
  BY <1>2, <1>4, <1>6, <1>7, DeleteKeeps
<1> QED
  BY <1>5, <1>8, UsesSame

\* The uses of a become shared ones, or an exclusive one.
Used(u, a, s, e) == [u EXCEPT !.ino[a] = [@ EXCEPT !.shlock = s, !.elock = e]]

\* de_recycle_aino after the counts of users have been set.
LEMMA UsedKeeps ==
  ASSUME NEW u, Good(u), NEW a \in Live(u), NEW s \in Nat, NEW e \in BOOLEAN,
         NEW v, v = de_recycle_aino(Used(u, a, s, e), a)
  PROVE  /\ Good(v) /\ Live(v) = Live(u) /\ a \notin v.chained
         /\ Shared(v, a) = s /\ Exclusive(v, a) = e
         /\ \A b \in Path : b # a =>
              Shared(v, b) = Shared(u, b) /\ Exclusive(v, b) = Exclusive(u, b)
<1>1. u \in UnitSet
  BY DEF Good, Typed
<1>2. PICK m \in AinoSet : m = u.ino[a]
  BY <1>1, UnitType
<1>3. PICK n : n = [m EXCEPT !.shlock = s, !.elock = e]
  OBVIOUS
<1>4. /\ n \in AinoSet /\ n.dir = m.dir /\ n.child = m.child
      /\ n.locked_children = m.locked_children /\ n.exnext_count = m.exnext_count
      /\ n.shlock = s /\ n.elock = e
  BY <1>3 DEF AinoSet
<1>5. v = de_recycle_aino(Changed(u, a, n), a)
  BY <1>1, <1>2, <1>3 DEF Used, Changed, UnitSet
<1> QED
  BY <1>2, <1>4, <1>5, Untie

\* The ways in which the code changes the counts of users.
LEMMA UsedIs ==
  ASSUME NEW u \in UnitSet, NEW a \in Live(u)
  PROVE  /\ u.ino[a].shlock \in Nat /\ u.ino[a].elock \in BOOLEAN
         /\ [u EXCEPT !.ino[a].shlock = @ + 1]
              = Used(u, a, u.ino[a].shlock + 1, u.ino[a].elock)
         /\ [u EXCEPT !.ino[a].shlock = @ - 1]
              = Used(u, a, u.ino[a].shlock - 1, u.ino[a].elock)
         /\ [u EXCEPT !.ino[a].elock = TRUE] = Used(u, a, u.ino[a].shlock, TRUE)
         /\ [u EXCEPT !.ino[a].elock = FALSE] = Used(u, a, u.ino[a].shlock, FALSE)
         /\ [u EXCEPT !.ino[a].elock = FALSE, !.ino[a].shlock = @ + 1]
              = Used(u, a, u.ino[a].shlock + 1, FALSE)
         /\ [u EXCEPT !.ino[a].elock = TRUE, !.ino[a].shlock = 0] = Used(u, a, 0, TRUE)
         /\ u = Used(u, a, u.ino[a].shlock, u.ino[a].elock)
<1>1. PICK m \in AinoSet : m = u.ino[a]
  BY UnitType
<1>2. PICK f : f = u.ino
  OBVIOUS
<1>3. f \in [Live(u) -> AinoSet] /\ f[a] = m
  BY <1>1, <1>2, UnitType
<1>4. PICK s \in Nat : s = m.shlock
  BY DEF AinoSet
<1>5. PICK e \in BOOLEAN : e = m.elock
  BY DEF AinoSet
<1> DEFINE Put(z) == [u EXCEPT !.ino = [f EXCEPT ![a] = z]]
           E(x, y) == [m EXCEPT !.shlock = x, !.elock = y]
<1>6. ASSUME NEW x, NEW y PROVE Used(u, a, x, y) = Put(E(x, y))
  BY <1>1, <1>2 DEF Used, UnitSet
<1>7. ASSUME NEW x, NEW z, z = [m EXCEPT !.shlock = x] PROVE z = E(x, e)
  BY <1>5, <1>7 DEF AinoSet
<1>8. ASSUME NEW y, NEW z, z = [m EXCEPT !.elock = y] PROVE z = E(s, y)
  BY <1>4, <1>8 DEF AinoSet
<1>9. ASSUME NEW x, NEW y, NEW z, z = [m EXCEPT !.elock = y, !.shlock = x] PROVE z = E(x, y)
  BY <1>9 DEF AinoSet
<1> HIDE DEF E
<1>10. ASSUME NEW x
       PROVE  [u EXCEPT !.ino[a].shlock = x] = Used(u, a, x, e)
  <2>0. PICK z : z = [m EXCEPT !.shlock = x]
    OBVIOUS
  <2>1. [u EXCEPT !.ino[a].shlock = x] = Put(z)
    BY <1>1, <1>2, <2>0 DEF UnitSet
  <2>2. z = E(x, e)
    BY <1>7, <2>0
  <2> HIDE DEF Put
  <2>3. Used(u, a, x, e) = Put(E(x, e))
    BY <1>6
  <2> QED
    BY <2>1, <2>2, <2>3
<1>11. ASSUME NEW y
       PROVE  [u EXCEPT !.ino[a].elock = y] = Used(u, a, s, y)
  <2>0. PICK z : z = [m EXCEPT !.elock = y]
    OBVIOUS
  <2>1. [u EXCEPT !.ino[a].elock = y] = Put(z)
    BY <1>1, <1>2, <2>0 DEF UnitSet
  <2>2. z = E(s, y)
    BY <1>8, <2>0
  <2> HIDE DEF Put
  <2>3. Used(u, a, s, y) = Put(E(s, y))
    BY <1>6
  <2> QED
    BY <2>1, <2>2, <2>3
<1>12. ASSUME NEW x, NEW y
       PROVE  [u EXCEPT !.ino[a].elock = y, !.ino[a].shlock = x] = Used(u, a, x, y)
  <2>0. PICK q : q = [m EXCEPT !.elock = y, !.shlock = x]
    OBVIOUS
  <2>1. [f EXCEPT ![a].elock = y, ![a].shlock = x] = [f EXCEPT ![a] = q]
    BY <1>3, <2>0
  <2>2. [u EXCEPT !.ino[a].elock = y, !.ino[a].shlock = x]
          = [u EXCEPT !.ino = [f EXCEPT ![a].elock = y, ![a].shlock = x]]
    BY <1>2 DEF UnitSet
  <2>3. [u EXCEPT !.ino[a].elock = y, !.ino[a].shlock = x] = Put(q)
    BY <2>1, <2>2
  <2>4. q = E(x, y)
    BY <1>9, <2>0
  <2> HIDE DEF Put
  <2>5. Used(u, a, x, y) = Put(E(x, y))
    BY <1>6
  <2> QED
    BY <2>3, <2>4, <2>5
<1>13. [u EXCEPT !.ino[a].shlock = @ + 1] = Used(u, a, s + 1, e)
  <2>1. [u EXCEPT !.ino[a].shlock = @ + 1] = [u EXCEPT !.ino[a].shlock = s + 1]
    BY <1>1, <1>4 DEF UnitSet
  <2> QED
    BY <1>10, <2>1
<1>14. [u EXCEPT !.ino[a].shlock = @ - 1] = Used(u, a, s - 1, e)
  <2>1. [u EXCEPT !.ino[a].shlock = @ - 1] = [u EXCEPT !.ino[a].shlock = s - 1]
    BY <1>1, <1>4 DEF UnitSet
  <2> QED
    BY <1>10, <2>1
<1>15. [u EXCEPT !.ino[a].elock = FALSE, !.ino[a].shlock = @ + 1] = Used(u, a, s + 1, FALSE)
  <2>1. [u EXCEPT !.ino[a].elock = FALSE, !.ino[a].shlock = @ + 1]
          = [u EXCEPT !.ino[a].elock = FALSE, !.ino[a].shlock = s + 1]
    BY <1>1, <1>2, <1>3, <1>4 DEF UnitSet, AinoSet
  <2> QED
    BY <1>12, <2>1
<1>16. u = Used(u, a, s, e)
  <2>1. E(s, e) = m
    BY <1>4, <1>5 DEF AinoSet, E
  <2>2. [f EXCEPT ![a] = m] = f
    BY <1>3
  <2>3. Put(m) = u
    BY <1>2, <2>2 DEF UnitSet
  <2>4. Used(u, a, s, e) = Put(E(s, e))
    BY <1>6
  <2> HIDE DEF Put
  <2> QED
    BY <2>1, <2>3, <2>4
<1>17. u.ino[a].shlock = s /\ u.ino[a].elock = e
  BY <1>1, <1>4, <1>5
<1>18. [u EXCEPT !.ino[a].elock = TRUE] = Used(u, a, s, TRUE)
  BY <1>11
<1>19. [u EXCEPT !.ino[a].elock = FALSE] = Used(u, a, s, FALSE)
  BY <1>11
<1>20. [u EXCEPT !.ino[a].elock = TRUE, !.ino[a].shlock = 0] = Used(u, a, 0, TRUE)
  BY <1>12
<1> QED
  BY <1>13, <1>14, <1>15, <1>16, <1>17, <1>18, <1>19, <1>20

\* A use of a more, or less: its counts follow what programs hold.
LEMMA MoreUses ==
  ASSUME NEW u, NEW v, NEW L, NEW K, NEW X, Uses(u, L, K, X), NEW a \in Path,
         \A b \in Path : b # a => Shared(v, b) = Shared(u, b) /\ Exclusive(v, b) = Exclusive(u, b),
         IF Exclusive(v, a) THEN Shared(u, a) = 0 /\ Shared(v, a) = 0
         ELSE Shared(v, a) = Shared(u, a) + 1,
         ~Exclusive(u, a)
  PROVE  /\ Uses(v, MoreOf(L, a), K, X) /\ Uses(v, L, MoreOf(K, a), X)
         /\ Uses(v, L, K, MoreOf(X, a))
<1>1. IsABag(L) /\ IsABag(K) /\ IsABag(X)
      /\ DOMAIN L \subseteq Path /\ DOMAIN K \subseteq Path /\ DOMAIN X \subseteq Path
  BY DEF Uses
<1>2. PICK M : M = MoreOf(L, a)
  OBVIOUS
<1>3. PICK N : N = MoreOf(K, a)
  OBVIOUS
<1>4. /\ IsABag(M) /\ DOMAIN M \subseteq Path /\ Copies(a, M) = Copies(a, L) + 1
      /\ \A b \in Path : b # a => Copies(b, M) = Copies(b, L)
  BY <1>1, <1>2, MoreIs
<1>5. /\ IsABag(N) /\ DOMAIN N \subseteq Path /\ Copies(a, N) = Copies(a, K) + 1
      /\ \A b \in Path : b # a => Copies(b, N) = Copies(b, K)
  BY <1>1, <1>3, MoreIs
<1>10. PICK Z : Z = MoreOf(X, a)
  OBVIOUS
<1>11. /\ IsABag(Z) /\ DOMAIN Z \subseteq Path /\ Copies(a, Z) = Copies(a, X) + 1
       /\ \A b \in Path : b # a => Copies(b, Z) = Copies(b, X)
  BY <1>1, <1>10, MoreIs
<1>6. /\ Copies(a, L) \in Nat /\ Copies(a, K) \in Nat /\ Copies(a, X) \in Nat
      /\ Shared(u, a) = Copies(a, L) + Copies(a, K) + Copies(a, X)
  BY <1>1, CopiesIs DEF Uses
<1>7. \A b \in Path : b # a =>
         IF Exclusive(v, b) THEN Copies(b, L) + Copies(b, K) + Copies(b, X) = 1 /\ Shared(v, b) = 0
         ELSE Shared(v, b) = Copies(b, L) + Copies(b, K) + Copies(b, X)
  BY DEF Uses
<1>8. Uses(v, M, K, X)
  <2>1. IF Exclusive(v, a) THEN Copies(a, M) + Copies(a, K) + Copies(a, X) = 1 /\ Shared(v, a) = 0
        ELSE Shared(v, a) = Copies(a, M) + Copies(a, K) + Copies(a, X)
    BY <1>4, <1>6
  <2> QED
    BY <1>1, <1>4, <1>7, <2>1 DEF Uses
<1>9. Uses(v, L, N, X)
  <2>1. IF Exclusive(v, a) THEN Copies(a, L) + Copies(a, N) + Copies(a, X) = 1 /\ Shared(v, a) = 0
        ELSE Shared(v, a) = Copies(a, L) + Copies(a, N) + Copies(a, X)
    BY <1>5, <1>6
  <2> QED
    BY <1>1, <1>5, <1>7, <2>1 DEF Uses
<1>12. Uses(v, L, K, Z)
  <2>1. IF Exclusive(v, a) THEN Copies(a, L) + Copies(a, K) + Copies(a, Z) = 1 /\ Shared(v, a) = 0
        ELSE Shared(v, a) = Copies(a, L) + Copies(a, K) + Copies(a, Z)
    BY <1>6, <1>11
  <2> QED
    BY <1>1, <1>7, <1>11, <2>1 DEF Uses
<1> QED
  BY <1>2, <1>3, <1>8, <1>9, <1>10, <1>12

\* One user less, of locks or of files.
LEMMA LessUses ==
  ASSUME NEW u, NEW v, NEW L, NEW K, NEW X, Uses(u, L, K, X), NEW a \in Path,
         \A b \in Path : b # a => Shared(v, b) = Shared(u, b) /\ Exclusive(v, b) = Exclusive(u, b),
         ~Exclusive(v, a),
         Shared(v, a) = IF Exclusive(u, a) THEN Shared(u, a) ELSE Shared(u, a) - 1
  PROVE  /\ a \in DOMAIN L => Uses(v, LessOf(L, a), K, X)
         /\ a \in DOMAIN K => Uses(v, L, LessOf(K, a), X)
<1>1. IsABag(L) /\ IsABag(K) /\ IsABag(X)
      /\ DOMAIN L \subseteq Path /\ DOMAIN K \subseteq Path /\ DOMAIN X \subseteq Path
  BY DEF Uses
<1>2. PICK M : M = LessOf(L, a)
  OBVIOUS
<1>3. PICK N : N = LessOf(K, a)
  OBVIOUS
<1>6. /\ Copies(a, L) \in Nat /\ Copies(a, K) \in Nat /\ Copies(a, X) \in Nat
      /\ IF Exclusive(u, a) THEN Copies(a, L) + Copies(a, K) + Copies(a, X) = 1 /\ Shared(u, a) = 0
         ELSE Shared(u, a) = Copies(a, L) + Copies(a, K) + Copies(a, X)
  BY <1>1, CopiesIs DEF Uses
<1>7. \A b \in Path : b # a =>
         IF Exclusive(v, b) THEN Copies(b, L) + Copies(b, K) + Copies(b, X) = 1 /\ Shared(v, b) = 0
         ELSE Shared(v, b) = Copies(b, L) + Copies(b, K) + Copies(b, X)
  BY DEF Uses
<1>8. ASSUME a \in DOMAIN L PROVE Uses(v, M, K, X)
  <2>1. /\ IsABag(M) /\ DOMAIN M \subseteq Path /\ Copies(a, M) = Copies(a, L) - 1
        /\ \A b \in Path : b # a => Copies(b, M) = Copies(b, L)
    BY <1>1, <1>2, <1>8, LessIs
  <2>2. Shared(v, a) = Copies(a, M) + Copies(a, K) + Copies(a, X)
    BY <1>6, <2>1
  <2> QED
    BY <1>1, <1>7, <2>1, <2>2 DEF Uses
<1>9. ASSUME a \in DOMAIN K PROVE Uses(v, L, N, X)
  <2>1. /\ IsABag(N) /\ DOMAIN N \subseteq Path /\ Copies(a, N) = Copies(a, K) - 1
        /\ \A b \in Path : b # a => Copies(b, N) = Copies(b, K)
    BY <1>1, <1>3, <1>9, LessIs
  <2>2. Shared(v, a) = Copies(a, L) + Copies(a, N) + Copies(a, X)
    BY <1>6, <2>1
  <2> QED
    BY <1>1, <1>7, <2>1, <2>2 DEF Uses
<1> QED
  BY <1>2, <1>3, <1>8, <1>9

\* A use passes from a lock to a file.
LEMMA UsePasses ==
  ASSUME NEW u, NEW L, NEW K, NEW X, Uses(u, L, K, X), NEW a \in DOMAIN L
  PROVE  Uses(u, LessOf(L, a), MoreOf(K, a), X)
<1>1. IsABag(L) /\ IsABag(K) /\ IsABag(X)
      /\ DOMAIN L \subseteq Path /\ DOMAIN K \subseteq Path /\ DOMAIN X \subseteq Path /\ a \in Path
  BY DEF Uses
<1>2. PICK M : M = LessOf(L, a)
  OBVIOUS
<1>3. PICK N : N = MoreOf(K, a)
  OBVIOUS
<1>4. /\ IsABag(M) /\ DOMAIN M \subseteq Path /\ Copies(a, M) = Copies(a, L) - 1
      /\ \A b \in Path : b # a => Copies(b, M) = Copies(b, L)
  BY <1>1, <1>2, LessIs
<1>5. /\ IsABag(N) /\ DOMAIN N \subseteq Path /\ Copies(a, N) = Copies(a, K) + 1
      /\ \A b \in Path : b # a => Copies(b, N) = Copies(b, K)
  BY <1>1, <1>3, MoreIs
<1>6. Copies(a, L) \in Nat /\ Copies(a, K) \in Nat
  BY <1>1, CopiesIs
<1>7. \A b \in Path : Copies(b, M) + Copies(b, N) = Copies(b, L) + Copies(b, K)
  BY <1>4, <1>5, <1>6
<1> QED
  BY <1>2, <1>3, <1>4, <1>5, <1>7 DEF Uses

\* A use that excludes no other and is excluded by none.
Grantable(u, a, mode) == ~u.ino[a].elock /\ (mode # "SHARED" => u.ino[a].shlock = 0)

\* A use that may begin, begins.
LEMMA TakeKeeps ==
  ASSUME NEW u, Good(u), NEW L, NEW K, NEW X, Uses(u, L, K, X), NEW a \in Live(u), NEW mode,
         Grantable(u, a, mode), NEW v, v = Take(u, a, mode)
  PROVE  Good(v) /\ Uses(v, MoreOf(L, a), K, X) /\ Uses(v, L, MoreOf(K, a), X)
<1>1. u \in UnitSet /\ a \in Path
  BY UnitType DEF Good, Typed
<1>2. PICK s \in Nat : s = u.ino[a].shlock
  BY <1>1, UnitType
<1>3. PICK e \in BOOLEAN : e = u.ino[a].elock
  BY <1>1, UnitType
<1>4. e = FALSE /\ (mode # "SHARED" => s = 0)
  BY <1>2, <1>3 DEF Grantable
<1>5. Shared(u, a) = s /\ ~Exclusive(u, a)
  BY <1>2, <1>3, <1>4 DEF Shared, Exclusive
<1>6. CASE mode = "SHARED"
  <2>1. v = de_recycle_aino(Used(u, a, s + 1, e), a)
    <3>1. [u EXCEPT !.ino[a].shlock = @ + 1] = Used(u, a, s + 1, e)
      BY <1>1, <1>2, <1>3, UsedIs
    <3> QED
      BY <1>6, <3>1 DEF Take
  <2>2. PICK n \in Nat : n = s + 1
    OBVIOUS
  <2>3. /\ Good(v) /\ Shared(v, a) = n /\ Exclusive(v, a) = e
        /\ \A b \in Path : b # a =>
              Shared(v, b) = Shared(u, b) /\ Exclusive(v, b) = Exclusive(u, b)
    BY <2>1, <2>2, UsedKeeps
  <2> QED
    BY <1>1, <1>4, <1>5, <2>2, <2>3, MoreUses
<1>7. CASE mode # "SHARED"
  <2>0. PICK x \in BOOLEAN : x = TRUE
    OBVIOUS
  <2>1. v = de_recycle_aino(Used(u, a, s, x), a)
    <3>1. [u EXCEPT !.ino[a].elock = TRUE] = Used(u, a, s, TRUE)
      BY <1>1, <1>2, UsedIs
    <3> QED
      BY <1>7, <2>0, <3>1 DEF Take
  <2>3. /\ Good(v) /\ Shared(v, a) = s /\ Exclusive(v, a) = x
        /\ \A b \in Path : b # a =>
              Shared(v, b) = Shared(u, b) /\ Exclusive(v, b) = Exclusive(u, b)
    BY <2>1, UsedKeeps
  <2> QED
    BY <1>1, <1>4, <1>5, <1>7, <2>0, <2>3, MoreUses
<1> QED
  BY <1>6, <1>7

\* UnLock and close: the a_inode may become one of those to be reaped.
LEMMA ReleaseKeeps ==
  ASSUME NEW u, Good(u), NEW L, NEW K, NEW X, Uses(u, L, K, X),
         NEW a \in DOMAIN L \cup DOMAIN K \cup DOMAIN X,
         NEW v \in Release(u, a)
  PROVE  /\ Good(v)
         /\ a \in DOMAIN L => Uses(v, LessOf(L, a), K, X)
         /\ a \in DOMAIN K => Uses(v, L, LessOf(K, a), X)
<1>1. /\ a \in Live(u) /\ InUse(u, a) /\ a \notin u.chained
      /\ Copies(a, L) + Copies(a, K) + Copies(a, X) >= 1
  BY UsesLive
<1>2. u \in UnitSet /\ a \in Path
  BY <1>1, UnitType DEF Good, Typed
<1>3. PICK s \in Nat : s = u.ino[a].shlock
  BY <1>1, <1>2, UnitType
<1>4. PICK e \in BOOLEAN : e = u.ino[a].elock
  BY <1>1, <1>2, UnitType
<1>5. Shared(u, a) = s /\ (Exclusive(u, a) <=> e = TRUE)
  BY <1>1, <1>3, <1>4 DEF Shared, Exclusive
<1>6. e = FALSE => s >= 1
  BY <1>1, <1>3, <1>4 DEF InUse
<1>7. PICK n \in Nat : n = IF e THEN s ELSE s - 1
  BY <1>6
<1>8. PICK x \in BOOLEAN : x = FALSE
  OBVIOUS
<1>9. PICK w : w = Used(u, a, n, x)
  OBVIOUS
<1>10. v \in recycle_aino(w, a)
  <2>1. CASE e = TRUE
    <3>1. [u EXCEPT !.ino[a].elock = FALSE] = Used(u, a, s, FALSE)
      <4>1. u \in UnitSet /\ a \in Live(u)
        BY <1>1, <1>2
      <4>2. [u EXCEPT !.ino[a].elock = FALSE] = Used(u, a, u.ino[a].shlock, FALSE)
        BY <4>1, UsedIs
      <4> QED
        BY <1>3, <4>2
    <3> QED
      BY <1>4, <1>7, <1>8, <1>9, <2>1, <3>1 DEF Release
  <2>2. CASE e = FALSE
    <3>1. [u EXCEPT !.ino[a].shlock = @ - 1] = Used(u, a, s - 1, e)
      <4>1. u \in UnitSet /\ a \in Live(u)
        BY <1>1, <1>2
      <4>2. [u EXCEPT !.ino[a].shlock = @ - 1]
              = Used(u, a, u.ino[a].shlock - 1, u.ino[a].elock)
        BY <4>1, UsedIs
      <4> QED
        BY <1>3, <1>4, <4>2
    <3>2. w = [u EXCEPT !.ino[a].shlock = @ - 1]
      BY <1>7, <1>8, <1>9, <2>2, <3>1
    <3> QED
      BY <1>4, <2>2, <3>2 DEF Release
  <2> QED
    BY <2>1, <2>2
<1>11. w = de_recycle_aino(w, a)
  <2>1. w.chained = u.chained
    BY <1>2, <1>9 DEF Used, UnitSet
  <2> QED
    BY <1>1, <2>1 DEF de_recycle_aino
<1>12. /\ Good(w) /\ Live(w) = Live(u) /\ a \notin w.chained
       /\ Shared(w, a) = n /\ Exclusive(w, a) = x
       /\ \A b \in Path : b # a =>
              Shared(w, b) = Shared(u, b) /\ Exclusive(w, b) = Exclusive(u, b)
  <2>1. w = de_recycle_aino(Used(u, a, n, x), a)
    BY <1>9, <1>11
  <2> QED
    BY <1>1, <2>1, UsedKeeps
<1>13. Good(v) /\ SameUses(w, v)
  BY <1>1, <1>10, <1>12, RecycleKeeps
<1>14. /\ a \in DOMAIN L => Uses(w, LessOf(L, a), K, X)
       /\ a \in DOMAIN K => Uses(w, L, LessOf(K, a), X)
  <2>1. Shared(w, a) = IF Exclusive(u, a) THEN Shared(u, a) ELSE Shared(u, a) - 1
    BY <1>5, <1>7, <1>12
  <2> QED
    BY <1>2, <1>8, <1>12, <2>1, LessUses
<1> QED
  BY <1>13, <1>14, UsesSame

\* Whether the host has the object; only the tree of the host changes.
WithReal(u, a, b) == [u EXCEPT !.ino[a].real = b]

\* The host object of an a_inode appears or vanishes.
LEMMA RealKeeps ==
  ASSUME NEW u, Good(u), NEW a \in Live(u), NEW b \in BOOLEAN, NEW v, v = WithReal(u, a, b)
  PROVE  /\ Good(v) /\ SameUses(u, v) /\ Live(v) = Live(u)
         /\ \A p \in Live(u) : /\ v.ino[p].child = u.ino[p].child
                               /\ v.ino[p].exnext_count = u.ino[p].exnext_count
                               /\ v.ino[p].locked_children = u.ino[p].locked_children
                               /\ v.ino[p].dir = u.ino[p].dir
                               /\ v.ino[p].shlock = u.ino[p].shlock
                               /\ v.ino[p].elock = u.ino[p].elock
<1>1. u \in UnitSet /\ u.ino \in [Live(u) -> AinoSet] /\ Live(u) \in SUBSET Path /\ Chain(u)
  BY UnitType DEF Good, Typed
<1>2. PICK m \in AinoSet : m = u.ino[a]
  BY <1>1
<1>3. PICK n : n = [m EXCEPT !.real = b]
  OBVIOUS
<1>4. /\ n \in AinoSet /\ n.dir = m.dir /\ n.child = m.child
      /\ n.locked_children = m.locked_children /\ n.exnext_count = m.exnext_count
      /\ n.shlock = m.shlock /\ n.elock = m.elock
  BY <1>3 DEF AinoSet
<1>5. PICK f : f = [u.ino EXCEPT ![a] = n]
  OBVIOUS
<1>6. f \in [Live(u) -> AinoSet] /\ f[a] = n /\ \A p \in Live(u) : p # a => f[p] = u.ino[p]
  BY <1>1, <1>4, <1>5
<1>7. v = [u EXCEPT !.ino = f]
  BY <1>1, <1>2, <1>3, <1>5 DEF WithReal, UnitSet
<1>8. v \in UnitSet /\ Live(v) = Live(u) /\ v.ino = f
  BY <1>1, <1>6, <1>7, UnitOf
<1>9. /\ v.chained = u.chained /\ v.aino_cache_size = u.aino_cache_size
      /\ v.exkeys = u.exkeys /\ v.logged = u.logged
      /\ v.total_locked_ainos = u.total_locked_ainos
  BY <1>1, <1>7 DEF UnitSet
<1>10. \A p \in Live(u) : /\ v.ino[p].child = u.ino[p].child
                          /\ v.ino[p].exnext_count = u.ino[p].exnext_count
                          /\ v.ino[p].locked_children = u.ino[p].locked_children
                          /\ v.ino[p].dir = u.ino[p].dir
                          /\ v.ino[p].shlock = u.ino[p].shlock
                          /\ v.ino[p].elock = u.ino[p].elock
  BY <1>2, <1>4, <1>6, <1>8
<1>11. SameUses(u, v)
  BY <1>8, <1>10 DEF SameUses, Shared, Exclusive
<1>12. Chain(v)
  <2>1. Dirs(v) = Dirs(u)
    BY <1>8, <1>10 DEF Dirs
  <2>2. u.chained \subseteq Live(u)
    BY <1>1 DEF Chain
  <2> QED
    BY <1>1, <1>8, <1>9, <1>10, <2>1, <2>2 DEF Chain, InUse
<1>13. Good(v)
  BY <1>8, <1>9, <1>10, <1>12, GoodFrame
<1> QED
  BY <1>8, <1>10, <1>11, <1>13

\* A use of a becomes another kind of use, or a shared one is counted again.
ModeChanged(u, a, mode) ==
  LET v == IF mode = "SHARED"
           THEN [u EXCEPT !.ino[a].elock = FALSE, !.ino[a].shlock = @ + 1]
           ELSE [u EXCEPT !.ino[a].elock = TRUE, !.ino[a].shlock = 0]
  IN IF mode # "SHARED" /\ u.ino[a].shlock > 1 THEN u ELSE de_recycle_aino(v, a)

\* A shared use becomes the exclusive one or the other way, or stays what it is
\* but for the count: a shared use that is to be shared is counted once more.
Recounts(u, a, mode) == mode = "SHARED" /\ ~u.ino[a].elock
LEMMA ModeKeeps ==
  ASSUME NEW u, Good(u), NEW L, NEW K, NEW X, Uses(u, L, K, X),
         NEW a \in DOMAIN L \cup DOMAIN K \cup DOMAIN X, NEW mode,
         NEW v, v = ModeChanged(u, a, mode)
  PROVE  /\ Good(v)
         /\ Recounts(u, a, mode) => Uses(v, L, K, MoreOf(X, a))
         /\ ~Recounts(u, a, mode) => Uses(v, L, K, X)
<1>1. /\ a \in Live(u) /\ InUse(u, a) /\ Copies(a, L) + Copies(a, K) + Copies(a, X) >= 1
  BY UsesLive
<1>2. u \in UnitSet /\ a \in Path
  BY <1>1, UnitType DEF Good, Typed
<1>3. PICK s \in Nat : s = u.ino[a].shlock
  BY <1>1, <1>2, UnitType
<1>14. PICK e \in BOOLEAN : e = u.ino[a].elock
  BY <1>1, <1>2, UnitType
<1>4. Shared(u, a) = s /\ (Exclusive(u, a) <=> e = TRUE)
  BY <1>1, <1>3, <1>14 DEF Shared, Exclusive
<1>5. PICK r \in Int : r = Copies(a, L) + Copies(a, K) + Copies(a, X)
  BY CopiesIs DEF Uses
<1>6. IF e THEN r = 1 /\ s = 0 ELSE s = r
  BY <1>2, <1>4, <1>5 DEF Uses
<1>7. r >= 1
  BY <1>1, <1>5
<1>8. ASSUME NEW w, Shared(w, a) = (IF Exclusive(w, a) THEN 0 ELSE 1), r = 1,
             \A b \in Path : b # a =>
                Shared(w, b) = Shared(u, b) /\ Exclusive(w, b) = Exclusive(u, b)
      PROVE  Uses(w, L, K, X)
  <2>1. \A b \in Path : b # a =>
         IF Exclusive(w, b) THEN Copies(b, L) + Copies(b, K) + Copies(b, X) = 1 /\ Shared(w, b) = 0
         ELSE Shared(w, b) = Copies(b, L) + Copies(b, K) + Copies(b, X)
    BY <1>8 DEF Uses
  <2>2. IF Exclusive(w, a) THEN Copies(a, L) + Copies(a, K) + Copies(a, X) = 1 /\ Shared(w, a) = 0
         ELSE Shared(w, a) = Copies(a, L) + Copies(a, K) + Copies(a, X)
    BY <1>5, <1>8
  <2> QED
    BY <2>1, <2>2 DEF Uses
<1>9. PICK t \in BOOLEAN : t = TRUE
  OBVIOUS
<1>10. PICK x \in BOOLEAN : x = FALSE
  OBVIOUS
<1>11. CASE mode = "SHARED"
  <2>1. [u EXCEPT !.ino[a].elock = FALSE, !.ino[a].shlock = @ + 1]
          = Used(u, a, u.ino[a].shlock + 1, FALSE)
    <3>1. u \in UnitSet /\ a \in Live(u)
      BY <1>1, <1>2
    <3> QED
      BY <3>1, UsedIs
  <2>2. v = de_recycle_aino(Used(u, a, s + 1, FALSE), a)
    BY <1>3, <1>11, <2>1 DEF ModeChanged
  <2>3. PICK n \in Nat : n = s + 1
    OBVIOUS
  <2>4. v = de_recycle_aino(Used(u, a, n, x), a)
    BY <1>10, <2>2, <2>3
  <2>5. /\ Good(v) /\ Shared(v, a) = n /\ Exclusive(v, a) = x
        /\ \A b \in Path : b # a =>
              Shared(v, b) = Shared(u, b) /\ Exclusive(v, b) = Exclusive(u, b)
    BY <1>1, <2>4, UsedKeeps
  <2>6. CASE e = TRUE
    <3>1. r = 1 /\ n = 1
      BY <1>6, <2>3, <2>6
    <3>2. Uses(v, L, K, X)
      BY <1>8, <1>10, <2>5, <3>1
    <3> QED
      BY <1>14, <2>5, <2>6, <3>2 DEF Recounts
  <2>7. CASE e = FALSE
    <3>1. Uses(v, L, K, MoreOf(X, a))
      BY <1>2, <1>4, <1>10, <2>3, <2>5, <2>7, MoreUses
    <3> QED
      BY <1>11, <1>14, <2>5, <2>7, <3>1 DEF Recounts
  <2> QED
    BY <2>6, <2>7
<1>12. CASE mode # "SHARED" /\ s > 1
  <2>1. v = u
    BY <1>3, <1>12 DEF ModeChanged
  <2> QED
    BY <1>12, <2>1 DEF Recounts
<1>13. CASE mode # "SHARED" /\ ~(s > 1)
  <2>1. [u EXCEPT !.ino[a].elock = TRUE, !.ino[a].shlock = 0] = Used(u, a, 0, TRUE)
    <3>1. u \in UnitSet /\ a \in Live(u)
      BY <1>1, <1>2
    <3> QED
      BY <3>1, UsedIs
  <2>2. v = de_recycle_aino(Used(u, a, 0, TRUE), a)
    BY <1>3, <1>13, <2>1 DEF ModeChanged
  <2>3. PICK n \in Nat : n = 0
    OBVIOUS
  <2>4. v = de_recycle_aino(Used(u, a, n, t), a)
    BY <1>9, <2>2, <2>3
  <2>5. /\ Good(v) /\ Shared(v, a) = n /\ Exclusive(v, a) = t
        /\ \A b \in Path : b # a =>
              Shared(v, b) = Shared(u, b) /\ Exclusive(v, b) = Exclusive(u, b)
    BY <1>1, <2>4, UsedKeeps
  <2>6. r = 1
    BY <1>6, <1>7, <1>13
  <2>7. Uses(v, L, K, X)
    BY <1>8, <1>9, <2>3, <2>5, <2>6
  <2> QED
    BY <1>13, <2>5, <2>7 DEF Recounts
<1> QED
  BY <1>11, <1>12, <1>13

-----------------------------------------------------------------------------
(* The packets keep the invariant.                                         *)

\* A lock is granted, or the object is in use.
LEMMA LockObjectKeeps ==
  ASSUME NEW u, Good(u), Uses(u, locks, keys, spares), NEW a \in Live(u), NEW mode,
         LockObject(u, a, mode), UNCHANGED <<keys, spares>>
  PROVE  IInv'
<1>1. CASE u.ino[a].elock \/ (mode # "SHARED" /\ u.ino[a].shlock > 0)
  BY <1>1 DEF LockObject, IInv
<1>2. CASE ~(u.ino[a].elock \/ (mode # "SHARED" /\ u.ino[a].shlock > 0))
  <2>1. unit' = Take(u, a, mode) /\ locks' = MoreOf(locks, a)
    BY <1>2 DEF LockObject, make_lock, MoreOf
  <2>2. Grantable(u, a, mode)
    <3>1. u.ino[a].shlock \in Nat
      BY UnitType DEF Good, Typed
    <3> QED
      BY <1>2, <3>1 DEF Grantable
  <2>3. Good(unit') /\ Uses(unit', MoreOf(locks, a), keys, spares)
    BY <2>1, <2>2, TakeKeeps
  <2> QED
    BY <2>1, <2>3 DEF IInv
<1> QED
  BY <1>1, <1>2

\* lookup_aino changes no use and no a_inode.
LEMMA LookUpKeeps ==
  ASSUME IInv, NEW a \in Live(unit), NEW u \in lookup_aino(unit, a)
  PROVE  Good(u) /\ Uses(u, locks, keys, spares) /\ Looked(unit, u) /\ Live(u) = Live(unit)
         /\ Dirs(u) = Dirs(unit)
<1>1. Good(u) /\ Looked(unit, u)
  BY LookupIs DEF IInv
<1>2. Grown(unit, u) /\ Live(u) = Live(unit) /\ Dirs(u) = Dirs(unit)
  BY <1>1, LookedIsGrown
<1> QED
  BY <1>1, <1>2, UsesSame DEF IInv, Grown

\* What programs name in packets is in memory.
LEMMA HeldIs ==
  ASSUME IInv
  PROVE  /\ \A a \in Held : a \in DOMAIN locks /\ a \in Live(unit)
         /\ \A a \in Opened : a \in DOMAIN keys /\ a \in Live(unit)
         /\ Root \in Live(unit) /\ Root \in Dirs(unit) /\ Live(unit) \subseteq Path
<1>1. Good(unit)
  BY DEF IInv
<1>2. Root \in Live(unit) /\ Root \in Dirs(unit)
  BY <1>1 DEF Good, Tree, Dirs
<1>3. Live(unit) \subseteq Path
  BY <1>1, UnitType DEF Good, Typed
<1> QED
  BY <1>2, <1>3 DEF Held, Opened, BagToSet

\* The Unit after the look-up of a name is Good, and the name is found or not.
LEMMA ReachedKeeps ==
  ASSUME IInv, NEW d \in Dirs(unit), NEW name \in Names, NEW r \in Reached(d, name)
  PROVE  /\ Good(r[1]) /\ Uses(r[1], locks, keys, spares) /\ d \in Dirs(r[1])
         /\ Dirs(unit) \subseteq Dirs(r[1])
         /\ \/ r[2] = Nil /\ ChildPath(d, name) \notin Live(r[1])
            \/ r[2] = ChildPath(d, name) /\ r[2] \in Live(r[1]) \ {Root}
<1>1. /\ Grown(unit, r[1]) /\ d \in Dirs(r[1])
      /\ \/ r[2] = Nil /\ ChildPath(d, name) \notin Live(r[1])
         \/ r[2] = ChildPath(d, name) /\ r[2] \in Live(r[1]) \ {Root}
  BY ReachedIs DEF IInv
<1> QED
  BY <1>1, UsesSame DEF IInv, Grown

\* A packet that is refused after its look-up.
LEMMA LookedUpKeeps ==
  ASSUME IInv, NEW d \in Dirs(unit), NEW name \in Names, NEW r \in Reached(d, name), looked_up(r)
  PROVE  IInv'
<1>1. Good(r[1]) /\ Uses(r[1], locks, keys, spares)
  BY ReachedKeeps
<1> QED
  BY <1>1 DEF looked_up, IInv

\* action_lock of a name.
LEMMA ActionLockKeeps ==
  ASSUME IInv, NEW d \in Dirs(unit), NEW name \in Names, NEW r \in Reached(d, name),
         NEW mode, action_lock(r, mode)
  PROVE  IInv'
<1>1. Good(r[1]) /\ Uses(r[1], locks, keys, spares) /\ (r[2] # Nil => r[2] \in Live(r[1]))
  BY ReachedKeeps
<1>2. r[2] \in Live(r[1]) /\ LockObject(r[1], r[2], mode) /\ UNCHANGED <<keys, spares>>
  BY <1>1 DEF action_lock
<1> QED
  BY <1>1, <1>2, LockObjectKeeps

\* action_lock with an empty name.
LEMMA LockSelfKeeps ==
  ASSUME IInv, NEW mode, action_lock_self(mode)
  PROVE  IInv'
<1>1. PICK a \in Held \cup {Root} : \E u \in lookup_aino(unit, a) : LockObject(u, a, mode)
  BY DEF action_lock_self
<1>2. PICK u \in lookup_aino(unit, a) : LockObject(u, a, mode)
  BY <1>1
<1>3. a \in Live(unit)
  BY <1>1, HeldIs
<1>4. Good(u) /\ Uses(u, locks, keys, spares) /\ Live(u) = Live(unit)
  BY <1>2, <1>3, LookUpKeeps
<1>5. UNCHANGED <<keys, spares>>
  BY DEF action_lock_self
<1> QED
  BY <1>2, <1>3, <1>4, <1>5, LockObjectKeeps

\* action_dup_lock.
LEMMA DupLockKeeps ==
  ASSUME IInv, NEW a \in Held, action_dup_lock(a)
  PROVE  IInv'
<1>1. PICK u \in lookup_aino(unit, a) : LockObject(u, a, "SHARED")
  BY DEF action_dup_lock
<1>2. a \in Live(unit)
  BY HeldIs
<1>3. Good(u) /\ Uses(u, locks, keys, spares) /\ Live(u) = Live(unit)
  BY <1>1, <1>2, LookUpKeeps
<1>4. UNCHANGED <<keys, spares>>
  BY DEF action_dup_lock
<1> QED
  BY <1>1, <1>2, <1>3, <1>4, LockObjectKeeps

\* action_parent and action_parent_fh.
LEMMA ParentKeeps ==
  ASSUME IInv, NEW a \in Held \cup Opened, action_parent(a)
  PROVE  IInv'
<1>1. PICK u \in lookup_aino(unit, a) :
         IF a = Root THEN unit' = u /\ UNCHANGED locks ELSE LockObject(u, parent(a), "SHARED")
  BY DEF action_parent
<1>2. a \in Live(unit)
  BY HeldIs
<1>3. Good(u) /\ Uses(u, locks, keys, spares) /\ Live(u) = Live(unit)
  BY <1>1, <1>2, LookUpKeeps
<1>4. UNCHANGED <<keys, spares>>
  BY DEF action_parent
<1>5. CASE a = Root
  BY <1>1, <1>3, <1>4, <1>5 DEF IInv
<1>6. CASE a # Root
  <2>1. parent(a) \in Live(u)
    BY <1>2, <1>3, <1>6 DEF Good, Tree
  <2> QED
    BY <1>1, <1>3, <1>4, <1>6, <2>1, LockObjectKeeps
<1> QED
  BY <1>5, <1>6

\* action_free_lock.
LEMMA FreeLockKeeps ==
  ASSUME IInv, NEW a \in Held, action_free_lock(a)
  PROVE  IInv'
<1>1. PICK u \in lookup_aino(unit, a) : unit' \in Release(u, a)
  BY DEF action_free_lock
<1>2. a \in Live(unit) /\ a \in DOMAIN locks
  BY HeldIs
<1>3. Good(u) /\ Uses(u, locks, keys, spares)
  BY <1>1, <1>2, LookUpKeeps
<1>4. locks' = LessOf(locks, a) /\ keys' = keys /\ spares' = spares
  BY DEF action_free_lock, LessOf
<1>5. Good(unit') /\ Uses(unit', LessOf(locks, a), keys, spares)
  BY <1>1, <1>2, <1>3, ReleaseKeeps
<1> QED
  BY <1>4, <1>5 DEF IInv

\* action_end.
LEMMA EndKeeps ==
  ASSUME IInv, NEW a \in Opened, action_end(a)
  PROVE  IInv'
<1>1. unit' \in Release(unit, a)
  BY DEF action_end
<1>2. a \in DOMAIN keys
  BY HeldIs
<1>3. keys' = LessOf(keys, a) /\ locks' = locks /\ spares' = spares
  BY DEF action_end, LessOf
<1>4. Good(unit') /\ Uses(unit', locks, LessOf(keys, a), spares)
  BY <1>1, <1>2, ReleaseKeeps DEF IInv
<1> QED
  BY <1>3, <1>4 DEF IInv

\* action_change_mode.
LEMMA ChangeModeKeeps ==
  ASSUME IInv, NEW a \in Held \cup Opened, NEW mode, action_change_mode(a, mode)
  PROVE  IInv'
<1>1. PICK u \in lookup_aino(unit, a) : unit' = ModeChanged(u, a, mode)
  BY DEF action_change_mode, ModeChanged
<1>2. a \in Live(unit) /\ a \in DOMAIN locks \cup DOMAIN keys
  BY HeldIs
<1>3. Good(u) /\ Uses(u, locks, keys, spares) /\ Looked(unit, u)
  BY <1>1, <1>2, LookUpKeeps
<1>4. u.ino[a].elock = unit.ino[a].elock
  BY <1>2, <1>3 DEF Looked
<1>5. /\ UNCHANGED <<locks, keys>>
      /\ spares' = IF Recounts(u, a, mode) THEN MoreOf(spares, a) ELSE spares
  BY <1>4 DEF action_change_mode, Recounts, MoreOf
<1>6. /\ Good(unit')
      /\ Recounts(u, a, mode) => Uses(unit', locks, keys, MoreOf(spares, a))
      /\ ~Recounts(u, a, mode) => Uses(unit', locks, keys, spares)
  BY <1>1, <1>2, <1>3, ModeKeeps
<1> QED
  BY <1>5, <1>6 DEF IInv

\* action_fh_from_lock: a lock less and a file more of the same object.
LEMMA FhFromLockKeeps ==
  ASSUME IInv, NEW a \in Held, action_fh_from_lock(a)
  PROVE  IInv'
<1>1. PICK u \in lookup_aino(unit, a) : unit' = de_recycle_aino(u, a)
  BY DEF action_fh_from_lock
<1>2. a \in Live(unit) /\ a \in DOMAIN locks
  BY HeldIs
<1>3. Good(u) /\ Uses(u, locks, keys, spares)
  BY <1>1, <1>2, LookUpKeeps
<1>4. a \notin u.chained
  BY <1>2, <1>3, UsesLive
<1>5. unit' = u
  BY <1>1, <1>4 DEF de_recycle_aino
<1>6. keys' = MoreOf(keys, a) /\ locks' = LessOf(locks, a) /\ spares' = spares
  BY DEF action_fh_from_lock, MoreOf, LessOf
<1>7. Uses(u, LessOf(locks, a), MoreOf(keys, a), spares)
  BY <1>2, <1>3, UsePasses
<1> QED
  BY <1>3, <1>5, <1>6, <1>7 DEF IInv

\* A Unit that has logged something fatal is lost.
LEMMA LoggingLoses ==
  ASSUME NEW w, "logged" \in DOMAIN w, NEW S, NEW m \in S, m \in Fatal,
         NEW z, z = Logging(w, S)
  PROVE  Lost(z)
BY DEF Logging, Lost

\* What opendir fails for is a Unit whose ExKey has been made and counted.
LEMMA FirstKeyLogs ==
  ASSUME NEW u, Good(u), NEW d \in Dirs(u), NEW v, v = new_exkey(u, d),
         NEW w, w = [v EXCEPT !.ino[d].exnext_count = @ + 1]
  PROVE  "logged" \in DOMAIN w
<1>1. PICK y : y = IF Len(u.exkeys) = EXKEYS THEN free_exkey(u, 1) ELSE u
  OBVIOUS
<1>2. Good(y)
  <2>1. CASE Len(u.exkeys) = EXKEYS
    <3>1. 1 \in DOMAIN u.exkeys
      <4>1. DOMAIN u.exkeys = 1..Len(u.exkeys)
        BY UnitType DEF Good, Typed
      <4> QED
        BY <2>1, <4>1, BoundsAssumption
    <3>2. y = free_exkey(u, 1)
      BY <1>1, <2>1
    <3> QED
      BY <3>1, <3>2, FreeKeyKeeps
  <2>2. CASE Len(u.exkeys) # EXKEYS
    BY <1>1, <2>2
  <2> QED
    BY <2>1, <2>2
<1>3. DOMAIN w = DOMAIN y
  <2>1. v = [y EXCEPT !.exkeys = Append(@, NewKey(d))]
    BY <1>1 DEF new_exkey, NewKey
  <2>2. PICK ks : ks = Append(y.exkeys, NewKey(d))
    OBVIOUS
  <2>3. "exkeys" \in DOMAIN y
    BY <1>2 DEF Good, Typed, UnitSet
  <2>4. v = [y EXCEPT !.exkeys = ks]
    BY <2>1, <2>2, <2>3
  <2> QED
    BY <2>4
<1>4. "logged" \in DOMAIN y
  BY <1>2 DEF Good, Typed, UnitSet
<1> QED
  BY <1>3, <1>4

\* The first ExNext of a scan.
LEMMA ExamineNextKeeps ==
  ASSUME IInv, NEW d \in Held \cup {Root}, action_examine_next(d)
  PROVE  Lost(unit') \/ IInv'
<1>1. PICK u \in lookup_aino(unit, d) :
        LET v == new_exkey(u, d)
            w == [v EXCEPT !.ino[d].exnext_count = @ + 1]
            first == v.ino[d].exnext_count = 0
        IN \/ \E x \in IF first THEN populate_directory(w, d) ELSE {w} :
                  unit' = do_examine(start_scan(x), Len(x.exkeys))
           \/ unit' = Logging(w, {"readdir without a directory"})
  BY DEF action_examine_next
<1>2. PICK v : v = new_exkey(u, d)
  OBVIOUS
<1>3. PICK w : w = [v EXCEPT !.ino[d].exnext_count = @ + 1]
  OBVIOUS
<1>4. \/ \E x \in IF v.ino[d].exnext_count = 0 THEN populate_directory(w, d) ELSE {w} :
            unit' = do_examine(start_scan(x), Len(x.exkeys))
      \/ unit' = Logging(w, {"readdir without a directory"})
  BY <1>1, <1>2, <1>3
<1>5. d \in Live(unit) /\ unit.ino[d].dir
  BY HeldIs DEF action_examine_next
<1>6. Good(u) /\ Uses(u, locks, keys, spares) /\ Dirs(u) = Dirs(unit)
  BY <1>1, <1>5, LookUpKeeps
<1>7. d \in Dirs(u)
  BY <1>5, <1>6 DEF Dirs
<1>8. CASE \E x \in IF v.ino[d].exnext_count = 0 THEN populate_directory(w, d) ELSE {w} :
               unit' = do_examine(start_scan(x), Len(x.exkeys))
  <2>1. PICK x \in IF v.ino[d].exnext_count = 0 THEN populate_directory(w, d) ELSE {w} :
               unit' = do_examine(start_scan(x), Len(x.exkeys))
    BY <1>8
  <2>2. Good(unit') /\ SameUses(u, unit')
    BY <1>2, <1>3, <1>6, <1>7, <2>1, ExamineFirstKeeps
  <2>3. UNCHANGED <<locks, keys, spares>>
    BY DEF action_examine_next
  <2> QED
    BY <1>6, <2>2, <2>3, UsesSame DEF IInv
<1>9. CASE unit' = Logging(w, {"readdir without a directory"})
  <2>1. "logged" \in DOMAIN w
    BY <1>2, <1>3, <1>6, <1>7, FirstKeyLogs
  <2> QED
    BY <1>9, <2>1, LoggingLoses DEF Fatal
<1> QED
  BY <1>4, <1>8, <1>9

\* A later ExNext.
LEMMA ExamineMoreKeeps ==
  ASSUME IInv, NEW i \in DOMAIN unit.exkeys, action_examine_next_more(i)
  PROVE  IInv'
<1>1. PICK u \in Found : unit' = do_examine(u, i)
  BY DEF action_examine_next_more
<1>2. Good(u) /\ Looked(unit, u)
  BY <1>1, FoundIs DEF IInv
<1>3. Uses(u, locks, keys, spares) /\ i \in DOMAIN u.exkeys
  <2>1. SameUses(unit, u)
    BY <1>2, LookedIsGrown DEF Grown
  <2> QED
    BY <1>2, <2>1, UsesSame DEF IInv, Looked
<1>4. Good(unit') /\ SameUses(u, unit')
  BY <1>1, <1>2, <1>3, ExamineKeeps
<1>5. UNCHANGED <<locks, keys, spares>>
  BY DEF action_examine_next_more
<1> QED
  BY <1>3, <1>4, <1>5, UsesSame DEF IInv

\* do_find opens an object nobody uses in a way that excludes it.
LEMMA OpenKeeps ==
  ASSUME NEW u, Good(u), Uses(u, locks, keys, spares), NEW a \in Live(u), NEW create,
         ~u.ino[a].elock, create = 2 => u.ino[a].shlock = 0,
         OpenAino(u, a, create), UNCHANGED <<locks, spares>>
  PROVE  IInv'
<1>1. PICK b \in BOOLEAN : b = TRUE
  OBVIOUS
<1>2. PICK v : v = WithReal(u, a, b)
  OBVIOUS
<1>3. PICK mode : mode = IF create = 2 THEN "EXCLUSIVE" ELSE "SHARED"
  OBVIOUS
<1>4. unit' = Take(v, a, mode) /\ keys' = MoreOf(keys, a)
  BY <1>1, <1>2, <1>3 DEF OpenAino, WithReal, MoreOf
<1>5. Good(v) /\ SameUses(u, v) /\ Live(v) = Live(u)
  BY <1>2, RealKeeps
<1>6. v.ino[a].shlock = u.ino[a].shlock /\ v.ino[a].elock = u.ino[a].elock
  BY <1>2, RealKeeps
<1>7. Uses(v, locks, keys, spares)
  BY <1>5, UsesSame
<1>8. Grantable(v, a, mode)
  BY <1>3, <1>6 DEF Grantable
<1>9. Good(unit') /\ Uses(unit', locks, MoreOf(keys, a), spares)
  BY <1>4, <1>5, <1>7, <1>8, TakeKeeps
<1> QED
  BY <1>4, <1>9 DEF IInv

\* An a_inode just made, of an object that does not exist yet.
Unborn(v, a, dir) == Fresh(v, a, dir, FALSE)

\* create_child_aino, and what the locks and files are to the new Unit.
LEMMA CreateKeeps ==
  ASSUME NEW u, Good(u), NEW L, NEW K, NEW X, Uses(u, L, K, X), NEW base \in Dirs(u), NEW name \in Names,
         ChildPath(base, name) \notin Live(u), NEW dir \in BOOLEAN,
         NEW s \in create_child_aino(u, base, name, dir)
  PROVE  /\ s[2] = ChildPath(base, name) /\ Good(s[1]) /\ Uses(s[1], L, K, X)
         /\ Dirs(u) \subseteq Dirs(s[1])
         /\ Unborn(s[1], s[2], dir) /\ Others(u, s[1], s[2])
         /\ s[2] \in Live(s[1]) \ {Root} /\ s[2] \in Path
<1>1. PICK b \in BOOLEAN : b = FALSE
  OBVIOUS
<1>2. PICK a : a = ChildPath(base, name)
  OBVIOUS
<1>3. s \in new_child_aino(u, base, name, dir, b)
  BY <1>1 DEF create_child_aino
<1>4. s[2] = a /\ Grown(u, s[1]) /\ Fresh(s[1], a, dir, b) /\ Others(u, s[1], a)
  BY <1>2, <1>3, NewChildKeeps
<1>5. Good(s[1]) /\ Uses(s[1], L, K, X) /\ Dirs(u) \subseteq Dirs(s[1])
  BY <1>4, UsesSame DEF Grown
<1>6. base \in Path
  BY UnitType DEF Good, Typed, Dirs
<1>7. a \in Path /\ a # Root
  BY <1>2, <1>6, PathDown DEF ChildPath
<1> QED
  BY <1>1, <1>2, <1>4, <1>5, <1>7 DEF Fresh, Unborn

\* Nobody uses an a_inode just made.
LEMMA FreshIsFree ==
  ASSUME NEW v, NEW a, NEW dir, Unborn(v, a, dir)
  PROVE  /\ a \in Live(v) /\ ~InUse(v, a) /\ v.ino[a].shlock = 0 /\ ~v.ino[a].elock
         /\ v.ino[a].child = <<>> /\ v.ino[a].exnext_count = 0
BY DEF Fresh, Unborn, InUse

\* do_find: an object there is, one that is made, and one the host refuses.
LEMMA FindKeeps ==
  ASSUME IInv, NEW d \in Dirs(unit), NEW name \in Names, NEW r \in Reached(d, name),
         do_find(r, d, name)
  PROVE  IInv'
<1>1. /\ Good(r[1]) /\ Uses(r[1], locks, keys, spares) /\ d \in Dirs(r[1])
      /\ \/ r[2] = Nil /\ ChildPath(d, name) \notin Live(r[1])
         \/ r[2] = ChildPath(d, name) /\ r[2] \in Live(r[1]) \ {Root}
  BY ReachedKeeps
<1>2. UNCHANGED <<locks, spares>>
  BY DEF do_find
<1>3. PICK create \in 0..2 :
          \/ /\ r[2] # Nil /\ ~r[1].ino[r[2]].elock
             /\ create = 2 => r[1].ino[r[2]].shlock = 0
             /\ OpenAino(r[1], r[2], create)
          \/ /\ r[2] = Nil
             /\ \E s \in create_child_aino(r[1], d, name, FALSE) :
                   \/ unit' = delete_aino(s[1], s[2]) /\ UNCHANGED keys
                   \/ r[1].ino[d].real /\ OpenAino(s[1], s[2], create)
  BY DEF do_find
<1>4. CASE /\ r[2] # Nil /\ ~r[1].ino[r[2]].elock
           /\ create = 2 => r[1].ino[r[2]].shlock = 0
           /\ OpenAino(r[1], r[2], create)
  <2>1. r[2] \in Live(r[1])
    BY <1>1, <1>4
  <2> QED
    BY <1>1, <1>2, <1>4, <2>1, OpenKeeps
<1>5. CASE /\ r[2] = Nil
           /\ \E s \in create_child_aino(r[1], d, name, FALSE) :
                 \/ unit' = delete_aino(s[1], s[2]) /\ UNCHANGED keys
                 \/ r[1].ino[d].real /\ OpenAino(s[1], s[2], create)
  <2>1. PICK b \in BOOLEAN : b = FALSE
    OBVIOUS
  <2>2. PICK s \in create_child_aino(r[1], d, name, b) :
                 \/ unit' = delete_aino(s[1], s[2]) /\ UNCHANGED keys
                 \/ r[1].ino[d].real /\ OpenAino(s[1], s[2], create)
    BY <1>5, <2>1
  <2>3. ChildPath(d, name) \notin Live(r[1])
    <3>1. Nil \notin Live(r[1])
      BY <1>1, NilIsNoPath, UnitType DEF Good, Typed
    <3> QED
      BY <1>1, <1>5, <3>1
  <2>4. /\ Good(s[1]) /\ Uses(s[1], locks, keys, spares) /\ s[2] \in Live(s[1]) \ {Root}
        /\ Unborn(s[1], s[2], b)
    BY <1>1, <2>2, <2>3, CreateKeeps
  <2>5. /\ ~InUse(s[1], s[2]) /\ s[1].ino[s[2]].shlock = 0 /\ ~s[1].ino[s[2]].elock
        /\ s[1].ino[s[2]].child = <<>> /\ s[1].ino[s[2]].exnext_count = 0
    BY <2>4, FreshIsFree
  <2>6. CASE unit' = delete_aino(s[1], s[2]) /\ UNCHANGED keys
    <3>1. Good(unit') /\ SameUses(s[1], unit')
      BY <2>4, <2>5, <2>6, DeleteKeeps
    <3> QED
      BY <1>2, <2>4, <2>6, <3>1, UsesSame DEF IInv
  <2>7. CASE OpenAino(s[1], s[2], create)
    BY <1>2, <2>4, <2>5, <2>7, OpenKeeps
  <2> QED
    BY <2>2, <2>6, <2>7
<1> QED
  BY <1>3, <1>4, <1>5

\* action_create_dir, also when mkdir fails.
LEMMA CreateDirKeeps ==
  ASSUME IInv, NEW d \in Dirs(unit), NEW name \in Names, NEW r \in Reached(d, name),
         action_create_dir(r, d, name)
  PROVE  IInv'
<1>1. /\ Good(r[1]) /\ Uses(r[1], locks, keys, spares) /\ d \in Dirs(r[1])
      /\ \/ r[2] = Nil /\ ChildPath(d, name) \notin Live(r[1])
         \/ r[2] = ChildPath(d, name) /\ r[2] \in Live(r[1]) \ {Root}
  BY ReachedKeeps
<1>2. UNCHANGED <<keys, spares>> /\ r[2] = Nil
  BY DEF action_create_dir
<1>3. ChildPath(d, name) \notin Live(r[1])
  <2>1. Nil \notin Live(r[1])
    BY <1>1, NilIsNoPath, UnitType DEF Good, Typed
  <2> QED
    BY <1>1, <1>2, <2>1
<1>4. PICK b \in BOOLEAN : b = TRUE
  OBVIOUS
<1>5. PICK s \in create_child_aino(r[1], d, name, b) :
          \/ unit' = s[1] /\ UNCHANGED locks
          \/ /\ unit' = Take([s[1] EXCEPT !.ino[s[2]].real = TRUE], s[2], "SHARED")
             /\ make_lock(s[2])
  BY <1>4 DEF action_create_dir
<1>6. /\ Good(s[1]) /\ Uses(s[1], locks, keys, spares) /\ s[2] \in Live(s[1])
      /\ Unborn(s[1], s[2], b)
  BY <1>1, <1>3, <1>5, CreateKeeps
<1>7. CASE unit' = s[1] /\ UNCHANGED locks
  BY <1>2, <1>6, <1>7 DEF IInv
<1>8. CASE /\ unit' = Take([s[1] EXCEPT !.ino[s[2]].real = TRUE], s[2], "SHARED")
           /\ make_lock(s[2])
  <2>1. PICK v : v = WithReal(s[1], s[2], b)
    OBVIOUS
  <2>2. PICK mode : mode = "SHARED"
    OBVIOUS
  <2>3. unit' = Take(v, s[2], mode) /\ locks' = MoreOf(locks, s[2])
    BY <1>4, <1>8, <2>1, <2>2 DEF WithReal, make_lock, MoreOf
  <2>4. Good(v) /\ SameUses(s[1], v) /\ Live(v) = Live(s[1])
    BY <1>6, <2>1, RealKeeps
  <2>5. v.ino[s[2]].elock = s[1].ino[s[2]].elock
    BY <1>6, <2>1, RealKeeps
  <2>6. Grantable(v, s[2], mode)
    BY <1>6, <2>2, <2>5, FreshIsFree DEF Grantable
  <2>7. Uses(v, locks, keys, spares)
    BY <1>6, <2>4, UsesSame
  <2>8. Good(unit') /\ Uses(unit', MoreOf(locks, s[2]), keys, spares)
    BY <1>6, <2>3, <2>4, <2>6, <2>7, TakeKeeps
  <2> QED
    BY <1>2, <2>3, <2>8 DEF IInv
<1> QED
  BY <1>5, <1>7, <1>8

\* delete_object finds that a_inodes of vanished objects are in the way.
Complained(u) == Logging(u, {"Serious error"})

\* Its message changes nothing else.
LEMMA ComplaintKeeps ==
  ASSUME NEW u, Good(u), NEW v, v = Complained(u)
  PROVE  Good(v) /\ SameUses(u, v)
<1>1. u \in UnitSet
  BY DEF Good, Typed
<1>2. PICK l \in SUBSET Messages : l = u.logged \cup {"Serious error"}
  <2>1. u.logged \cup {"Serious error"} \in SUBSET Messages
    <3>1. "Serious error" \in Messages
      BY DEF Messages
    <3>2. u.logged \in SUBSET Messages
      BY <1>1 DEF UnitSet
    <3> QED
      BY <3>1, <3>2
  <2> QED
    BY <2>1
<1>3. v = [u EXCEPT !.logged = l]
  BY <1>1, <1>2 DEF Complained, Logging, UnitSet
<1>4. /\ v \in UnitSet /\ v.ino = u.ino /\ v.chained = u.chained /\ v.exkeys = u.exkeys
      /\ v.aino_cache_size = u.aino_cache_size /\ v.logged = l
      /\ v.total_locked_ainos = u.total_locked_ainos
  BY <1>1, <1>3 DEF UnitSet
<1>5. Live(v) = Live(u) /\ Dirs(v) = Dirs(u)
  BY <1>4 DEF Live, Dirs
<1>6. Typed(v) /\ Tree(v)
  BY <1>4, <1>5 DEF Good, Typed, Tree
<1>7. Chain(v)
  BY <1>4, <1>5 DEF Good, Chain, InUse
<1>8. Scans(v)
  BY <1>4, <1>5 DEF Good, Scans
<1>9. Totals(v)
  BY <1>4, <1>5 DEF Good, Totals, Counted
<1>10. Silent(v)
  BY <1>2, <1>4 DEF Good, Silent
<1>11. SameUses(u, v)
  BY <1>4, <1>5 DEF SameUses, Shared, Exclusive
<1> QED
  BY <1>6, <1>7, <1>8, <1>9, <1>10, <1>11 DEF Good

\* A log to which nothing is added.
LEMMA LoggingNone ==
  ASSUME NEW u, Good(u), NEW v, v = Logging(u, {})
  PROVE  v = u
<1>1. u \in UnitSet
  BY DEF Good, Typed
<1>2. PICK l : l = u.logged
  OBVIOUS
<1>3. l \cup {} = l
  OBVIOUS
<1>4. v = [u EXCEPT !.logged = l]
  BY <1>1, <1>2, <1>3 DEF Logging, UnitSet
<1> QED
  BY <1>1, <1>2, <1>4 DEF UnitSet

\* delete_aino makes no other record of a Unit.
LEMMA DeleteLogs ==
  ASSUME NEW u, "logged" \in DOMAIN u, NEW a, NEW v, v = delete_aino(u, a)
  PROVE  "logged" \in DOMAIN v
<1>1. "logged" \in DOMAIN u
  OBVIOUS
<1> DEFINE Advance(k) ==
             IF k.aino # parent(a) THEN k
             ELSE [k EXCEPT !.curr_file = IF @ = a THEN sibling(u, a) ELSE @,
                            !.owed = @ \ {a}]
           Ks == [i \in DOMAIN u.exkeys |-> Advance(u.exkeys[i])]
<1>6. v = dispose_aino(de_recycle_aino(IF u.ino[parent(a)].exnext_count = 0 THEN u
                                       ELSE [u EXCEPT !.exkeys = Ks], a), a)
  BY DEF delete_aino
<1>7. PICK ks : ks = Ks
  OBVIOUS
<1>8. v = dispose_aino(de_recycle_aino(IF u.ino[parent(a)].exnext_count = 0 THEN u
                                       ELSE [u EXCEPT !.exkeys = ks], a), a)
  BY <1>6, <1>7
<1> HIDE DEF Ks, Advance
<1>9. PICK y : y = IF u.ino[parent(a)].exnext_count = 0 THEN u ELSE [u EXCEPT !.exkeys = ks]
  OBVIOUS
<1>10. DOMAIN y = DOMAIN u
  BY <1>9
<1>2. v = dispose_aino(de_recycle_aino(y, a), a) /\ DOMAIN y = DOMAIN u
  BY <1>8, <1>9, <1>10
<1>3. PICK z : z = de_recycle_aino(y, a)
  OBVIOUS
<1>4. DOMAIN z = DOMAIN y
  BY <1>3 DEF de_recycle_aino
<1>5. DOMAIN v = DOMAIN z
  BY <1>2, <1>3 DEF dispose_aino
<1> QED
  BY <1>1, <1>2, <1>4, <1>5

\* action_delete_object; a directory that is being scanned is lost.
LEMMA DeleteObjectKeeps ==
  ASSUME IInv, NEW d \in Dirs(unit), NEW name \in Names, NEW r \in Reached(d, name),
         action_delete_object(r)
  PROVE  Lost(unit') \/ IInv'
<1>1. /\ Good(r[1]) /\ Uses(r[1], locks, keys, spares)
      /\ r[2] # Nil => r[2] \in Live(r[1]) \ {Root}
  BY ReachedKeeps
<1>2. PICK b \in BOOLEAN : b = FALSE
  OBVIOUS
<1>3. PICK gone : gone = WithReal(r[1], r[2], b)
  OBVIOUS
<1>4. /\ r[2] # Nil /\ ~InUse(r[1], r[2])
      /\ unit' = IF gone.ino[r[2]].child # <<>> THEN Complained(gone)
                 ELSE Logging(delete_aino(gone, r[2]),
                              IF gone.ino[r[2]].exnext_count = 0 THEN {}
                              ELSE {"delete of a directory being scanned"})
      /\ UNCHANGED <<locks, keys, spares>>
  BY <1>2, <1>3 DEF action_delete_object, WithReal, Complained
<1>5. r[2] \in Live(r[1]) /\ r[2] # Root
  BY <1>1, <1>4
<1>6. /\ Good(gone) /\ SameUses(r[1], gone) /\ Live(gone) = Live(r[1])
      /\ gone.ino[r[2]].exnext_count = r[1].ino[r[2]].exnext_count
      /\ gone.ino[r[2]].shlock = r[1].ino[r[2]].shlock
      /\ gone.ino[r[2]].elock = r[1].ino[r[2]].elock
  BY <1>1, <1>3, <1>5, RealKeeps
<1>9. ASSUME gone.ino[r[2]].child = <<>>, gone.ino[r[2]].exnext_count # 0
      PROVE  Lost(unit')
  <2>1. PICK w : w = delete_aino(gone, r[2])
    OBVIOUS
  <2>2. unit' = Logging(w, {"delete of a directory being scanned"})
    BY <1>4, <1>9, <2>1
  <2>4. "logged" \in DOMAIN gone
    BY <1>6 DEF Good, Typed, UnitSet
  <2>3. "logged" \in DOMAIN w
    BY <2>1, <2>4, DeleteLogs
  <2> QED
    BY <2>2, <2>3, LoggingLoses DEF Fatal
<1>7. ASSUME gone.ino[r[2]].child # <<>> \/ gone.ino[r[2]].exnext_count = 0
      PROVE  Good(unit') /\ SameUses(gone, unit')
  <2>1. CASE gone.ino[r[2]].child = <<>>
    <3>1. ~InUse(gone, r[2])
      BY <1>4, <1>6 DEF InUse
    <3>2. PICK v : v = delete_aino(gone, r[2])
      OBVIOUS
    <3>3. Good(v) /\ SameUses(gone, v)
      BY <1>5, <1>6, <1>7, <2>1, <3>1, <3>2, DeleteKeeps
    <3>4. unit' = Logging(v, {})
      BY <1>4, <1>7, <2>1, <3>2
    <3> QED
      BY <3>3, <3>4, LoggingNone
  <2>2. CASE gone.ino[r[2]].child # <<>>
    <3>1. unit' = Complained(gone)
      BY <1>4, <2>2
    <3> QED
      BY <1>6, <3>1, ComplaintKeeps
  <2> QED
    BY <2>1, <2>2
<1>8. ASSUME gone.ino[r[2]].child # <<>> \/ gone.ino[r[2]].exnext_count = 0
      PROVE  Uses(unit', locks, keys, spares)
  BY <1>1, <1>6, <1>7, <1>8, UsesSame
<1> QED
  BY <1>4, <1>7, <1>8, <1>9 DEF IInv

\* Nor does a rename.
LEMMA RenameLogs ==
  ASSUME NEW u, Good(u), NEW f, NEW t, NEW v, v = Renamed(u, f, t)
  PROVE  "logged" \in DOMAIN v
<1>1. "logged" \in DOMAIN u
  BY DEF Good, Typed, UnitSet
<1>2. PICK x : x = [u EXCEPT !.ino[t].real = TRUE, !.ino[f].real = FALSE]
  OBVIOUS
<1>3. DOMAIN x = DOMAIN u
  BY <1>2
<1>4. PICK y : y = move_exkeys(x, f, t)
  OBVIOUS
<1>5. DOMAIN y = DOMAIN x
  BY <1>4 DEF move_exkeys
<1>6. PICK z : z = move_aino_children(y, f, t)
  OBVIOUS
<1>7. DOMAIN z = DOMAIN y
  BY <1>6 DEF move_aino_children
<1>8. v = delete_aino(z, f)
  BY <1>2, <1>4, <1>6 DEF Renamed
<1>9. "logged" \in DOMAIN z
  BY <1>1, <1>3, <1>5, <1>7
<1> QED
  BY <1>8, <1>9, DeleteLogs

\* What RenameTo does with one a2: a1 has been reaped to make room for it, the
\* host refuses, or it takes over from a1.
RenameReaped(w, a1) ==
  a1 \notin Live(w) /\ unit' = Logging(w, {"use of a freed a_inode"})
RenameRefused(w) == unit' = w /\ UNCHANGED <<locks, keys, spares>>
RenameDone(u, w, a1, d2, a2) ==
  /\ a1 \in Live(w) \ Lineage(d2)
  /\ unit' = Logging(Renamed(w, a1, a2),
                     IF InUse(u, a1) THEN {"rename of an object in use"} ELSE {})
  /\ locks' = LocksMoved(locks, a1, a2) /\ keys' = KeysMoved(keys, a1, a2)
  /\ spares' = KeysMoved(spares, a1, a2)

\* action_rename_object; what was in use, or has been reaped, is lost.
LEMMA RenameObjectKeeps ==
  ASSUME IInv, NEW d \in Dirs(unit), NEW name \in Names, NEW r \in Reached(d, name),
         action_rename_object(r)
  PROVE  Lost(unit') \/ IInv'
<1>1. /\ Good(r[1]) /\ Uses(r[1], locks, keys, spares) /\ Dirs(unit) \subseteq Dirs(r[1])
      /\ r[2] # Nil => r[2] \in Live(r[1]) \ {Root}
  BY ReachedKeeps
<1>2. r[2] # Nil
  BY DEF action_rename_object
<1>3. PICK u : u = r[1]
  OBVIOUS
<1>4. PICK a1 : a1 = r[2]
  OBVIOUS
<1>5. Good(u) /\ Uses(u, locks, keys, spares) /\ a1 \in Live(u) \ {Root}
  BY <1>1, <1>2, <1>3, <1>4
<1>11. PICK d2 \in Dirs(unit), name2 \in Names : \E r2 \in lookup_child_aino(u, d2, name2) :
         \/ r2[2] = Nil /\ RenameTo(r2[1], a1, d2, name2)
         \/ r2[2] # Nil /\ unit' = r2[1] /\ UNCHANGED <<locks, keys, spares>>
  BY <1>3, <1>4 DEF action_rename_object
<1>6. PICK r2 \in lookup_child_aino(u, d2, name2) :
         \/ r2[2] = Nil /\ RenameTo(r2[1], a1, d2, name2)
         \/ r2[2] # Nil /\ unit' = r2[1] /\ UNCHANGED <<locks, keys, spares>>
  BY <1>11
<1>7. d2 \in Dirs(u)
  BY <1>1, <1>3, <1>11
<1>8. /\ Grown(u, r2[1])
      /\ \/ r2[2] = Nil /\ r2[1] = u /\ ChildPath(d2, name2) \notin Live(u)
         \/ r2[2] = ChildPath(d2, name2) /\ r2[2] \in Live(r2[1]) \ {Root}
  BY <1>5, <1>6, <1>7, <1>11, LookupChildKeeps
<1>9. CASE r2[2] # Nil /\ unit' = r2[1] /\ UNCHANGED <<locks, keys, spares>>
  BY <1>5, <1>8, <1>9, UsesSame DEF IInv, Grown
<1>10. CASE r2[2] = Nil /\ RenameTo(r2[1], a1, d2, name2)
  <2>1. r2[1] = u /\ ChildPath(d2, name2) \notin Live(u)
    <3>1. Nil \notin Live(r2[1])
      BY <1>8, NilIsNoPath, UnitType DEF Grown, Good, Typed
    <3> QED
      BY <1>8, <1>10, <3>1
  <2>2. PICK a2 : a2 = ChildPath(d2, name2)
    OBVIOUS
  <2>3. PICK dir \in BOOLEAN : dir = u.ino[a1].dir
    BY <1>5, UnitType DEF Good, Typed
  <2>4. \E s \in create_child_aino(u, d2, name2, u.ino[a1].dir) :
          \/ RenameReaped(s[1], a1)
          \/ RenameRefused(s[1])
          \/ RenameDone(u, s[1], a1, d2, Append(d2, name2))
    <3>1. RenameTo(u, a1, d2, name2)
      BY <1>10, <2>1
    <3> QED
      BY <3>1 DEF RenameTo, LocksMoved, KeysMoved, RenameReaped, RenameRefused, RenameDone
  <2>5. PICK s \in create_child_aino(u, d2, name2, dir) :
          \/ RenameReaped(s[1], a1)
          \/ RenameRefused(s[1])
          \/ RenameDone(u, s[1], a1, d2, a2)
    BY <2>2, <2>3, <2>4 DEF ChildPath
  <2>6. /\ s[2] = a2 /\ Good(s[1]) /\ Uses(s[1], locks, keys, spares)
        /\ Dirs(u) \subseteq Dirs(s[1])
        /\ Unborn(s[1], a2, dir) /\ Others(u, s[1], a2)
    <3>1. s \in create_child_aino(u, d2, name2, dir)
      BY <2>5
    <3>2. /\ s[2] = ChildPath(d2, name2) /\ Good(s[1]) /\ Uses(s[1], locks, keys, spares)
          /\ Dirs(u) \subseteq Dirs(s[1])
          /\ Unborn(s[1], s[2], dir) /\ Others(u, s[1], s[2])
      BY <1>5, <1>7, <1>11, <2>1, <3>1, CreateKeeps
    <3> QED
      BY <2>2, <3>2
  <2>7. CASE RenameReaped(s[1], a1)
    <3>1. "logged" \in DOMAIN s[1]
      BY <2>6 DEF Good, Typed, UnitSet
    <3>2. unit' = Logging(s[1], {"use of a freed a_inode"})
      BY <2>7 DEF RenameReaped
    <3> QED
      BY <3>1, <3>2, LoggingLoses DEF Fatal
  <2>8. CASE RenameRefused(s[1])
    BY <2>6, <2>8 DEF IInv, RenameRefused
  <2>9. CASE RenameDone(u, s[1], a1, d2, a2) /\ InUse(u, a1)
    <3>1. PICK w : w = Renamed(s[1], a1, a2)
      OBVIOUS
    <3>2. unit' = Logging(w, {"rename of an object in use"})
      BY <2>9, <3>1 DEF RenameDone
    <3>3. "logged" \in DOMAIN w
      BY <2>6, <3>1, RenameLogs
    <3> QED
      BY <3>2, <3>3, LoggingLoses DEF Fatal
  <2>10. CASE RenameDone(u, s[1], a1, d2, a2) /\ ~InUse(u, a1)
    <3>1. a2 # a1 /\ a2 \in Live(s[1]) /\ a1 \in Live(s[1]) \ Lineage(d2)
      BY <1>5, <2>1, <2>2, <2>6, <2>10 DEF Fresh, Unborn, RenameDone
    <3>2. a1 \in Path /\ d2 \in Path
      BY <1>5, <1>7, UnitType DEF Good, Typed, Dirs
    <3>3. ~Under(a1, a2)
      BY <1>5, <1>11, <2>2, <3>1, <3>2, NotAbove
    <3>4. s[1].ino[a1].dir = dir /\ ~InUse(s[1], a1)
      BY <1>5, <2>3, <2>6, <2>10, <3>1 DEF Others, InUse
    <3>5. Replaces(s[1], a1, a2)
      BY <1>5, <2>6, <3>1, <3>3, <3>4 DEF Replaces, Fresh, Unborn
    <3>6. PICK w : w = Renamed(s[1], a1, a2)
      OBVIOUS
    <3>7. Good(w) /\ Uses(w, LocksMoved(locks, a1, a2), KeysMoved(keys, a1, a2),
                          KeysMoved(spares, a1, a2))
      BY <2>6, <3>4, <3>5, <3>6, RenameKeeps
    <3>8. unit' = Logging(w, {})
      BY <2>10, <3>6 DEF RenameDone
    <3>9. unit' = w
      BY <3>7, <3>8, LoggingNone
    <3> QED
      BY <2>10, <3>7, <3>9 DEF IInv, RenameDone
  <2> QED
    BY <2>5, <2>7, <2>8, <2>9, <2>10
<1> QED
  BY <1>6, <1>9, <1>10

\* What holds of every state: the invariant, until the emulator is lost.
SInv == Lost(unit) \/ IInv

\* Every packet keeps the invariant, but for those the emulator does not survive.
LEMMA NextKeeps ==
  ASSUME IInv, [Next]_vars
  PROVE  Lost(unit') \/ IInv'
<1>1. ASSUME UNCHANGED vars PROVE IInv'
  BY <1>1 DEF vars, IInv
<1>2. ASSUME NEW d \in Dirs(unit), NEW name \in Names, NEW r \in Reached(d, name),
             \/ looked_up(r)
             \/ \E mode \in Modes : action_lock(r, mode)
             \/ do_find(r, d, name)
             \/ action_create_dir(r, d, name)
             \/ action_delete_object(r)
             \/ action_rename_object(r)
      PROVE  Lost(unit') \/ IInv'
  <2>1. CASE looked_up(r)
    BY <2>1, LookedUpKeeps
  <2>2. CASE \E mode \in Modes : action_lock(r, mode)
    BY <2>2, ActionLockKeeps
  <2>3. CASE do_find(r, d, name)
    BY <2>3, FindKeeps
  <2>4. CASE action_create_dir(r, d, name)
    BY <2>4, CreateDirKeeps
  <2>5. CASE action_delete_object(r)
    BY <2>5, DeleteObjectKeeps
  <2>6. CASE action_rename_object(r)
    BY <2>6, RenameObjectKeeps
  <2> QED
    BY <1>2, <2>1, <2>2, <2>3, <2>4, <2>5, <2>6
<1>3. ASSUME NEW mode \in Modes, action_lock_self(mode) PROVE IInv'
  BY <1>3, LockSelfKeeps
<1>4. ASSUME NEW a \in Held,
             action_free_lock(a) \/ action_dup_lock(a) \/ action_fh_from_lock(a)
      PROVE  IInv'
  BY <1>4, FreeLockKeeps, DupLockKeeps, FhFromLockKeeps
<1>5. ASSUME NEW d \in Held \cup {Root}, action_examine_next(d) PROVE Lost(unit') \/ IInv'
  BY <1>5, ExamineNextKeeps
<1>6. ASSUME NEW a \in Held \cup Opened,
             action_parent(a) \/ \E mode \in Modes : action_change_mode(a, mode)
      PROVE  IInv'
  BY <1>6, ParentKeeps, ChangeModeKeeps
<1>7. ASSUME NEW a \in Opened, action_end(a) PROVE IInv'
  BY <1>7, EndKeeps
<1>8. ASSUME NEW i \in DOMAIN unit.exkeys, action_examine_next_more(i) PROVE IInv'
  BY <1>8, ExamineMoreKeeps
<1> QED
  BY <1>1, <1>2, <1>3, <1>4, <1>5, <1>6, <1>7, <1>8 DEF Next, handle_packet

\* Where the emulator is lost nothing more is modelled.
LEMMA StepKeeps == SInv /\ [Next]_vars => SInv'
<1> SUFFICES ASSUME SInv, [Next]_vars PROVE SInv'
  OBVIOUS
<1>1. CASE Lost(unit)
  <2>1. unit' = unit
    BY <1>1 DEF Next, vars
  <2> QED
    BY <1>1, <2>1 DEF SInv, Lost
<1>2. CASE ~Lost(unit)
  <2>1. IInv
    BY <1>2 DEF SInv
  <2>2. Lost(unit') \/ IInv'
    BY <2>1, NextKeeps
  <2> QED
    BY <2>2 DEF SInv
<1> QED
  BY <1>1, <1>2

\* The a_inode that startup_handler makes.
RootAino == [Aino(TRUE, TRUE) EXCEPT !.unseen = HostObjects]

\* A directory just mounted has it.
LEMMA InitKeeps == Init => IInv
<1> SUFFICES ASSUME Init PROVE IInv
  OBVIOUS
<1>1. PICK y \in BOOLEAN : y = TRUE
  OBVIOUS
<1>2. PICK n : n = RootAino
  OBVIOUS
<1>3. /\ n \in AinoSet /\ n.dir = y /\ n.child = <<>> /\ n.shlock = 0 /\ n.elock = FALSE
      /\ n.locked_children = 0 /\ n.exnext_count = 0
  <2>1. HostObjects \in SUBSET (Names \X BOOLEAN)
    BY HostAssumption
  <2>2. <<>> \in Seq(Path)
    OBVIOUS
  <2> QED
    BY <1>1, <1>2, <2>1, <2>2 DEF RootAino, Aino, AinoSet
<1>4. PICK f : f = [x \in {Root} |-> n]
  OBVIOUS
<1>5. /\ unit = [ino |-> f, chained |-> {}, aino_cache_size |-> 0, total_locked_ainos |-> 0,
                 exkeys |-> <<>>, logged |-> {}]
      /\ locks = EmptyBag /\ keys = EmptyBag /\ spares = EmptyBag
  <2>1. /\ unit = [ino |-> [a \in {Root} |-> RootAino], chained |-> {}, aino_cache_size |-> 0,
                   total_locked_ainos |-> 0, exkeys |-> <<>>, logged |-> {}]
        /\ locks = EmptyBag /\ keys = EmptyBag /\ spares = EmptyBag
    BY DEF Init, RootAino
  <2>2. [a \in {Root} |-> RootAino] = f
    BY <1>2, <1>4
  <2> QED
    BY <2>1, <2>2
<1>6. Root \in Path
  BY RootIsPath
<1>7. f \in InoSet
  <2>1. f \in [{Root} -> AinoSet] /\ {Root} \in SUBSET Path
    BY <1>3, <1>4, <1>6
  <2> QED
    BY <2>1 DEF InoSet
<1>8. unit \in UnitSet
  BY <1>5, <1>7 DEF UnitSet
<1>9. Live(unit) = {Root} /\ unit.ino = f /\ f[Root] = n
  BY <1>4, <1>5 DEF Live
<1>10. Typed(unit)
  BY <1>8, <1>9, FS_Singleton DEF Typed
<1>11. Dirs(unit) = {Root}
  BY <1>1, <1>3, <1>9 DEF Dirs
<1>12. Tree(unit)
  <2>1. IsInjective(n.child) /\ ToSet(n.child) = {}
    BY <1>3 DEF IsInjective, ToSet
  <2> QED
    BY <1>3, <1>9, <1>11, <2>1 DEF Tree
<1>13. Chain(unit)
  BY <1>5, FS_EmptySet DEF Chain
<1>14. unit.exkeys = <<>>
  BY <1>5
<1>15. CountOf(unit.exkeys, Root) = 0
  <2>1. {i \in DOMAIN unit.exkeys : unit.exkeys[i].aino = Root} = {}
    BY <1>14
  <2> QED
    BY <2>1, FS_EmptySet DEF CountOf
<1>16. Scans(unit)
  <2>1. \A p \in Live(unit) :
          /\ unit.ino[p].exnext_count = CountOf(unit.exkeys, p)
          /\ unit.ino[p].locked_children = 0 /\ unit.ino[p].exnext_count = 0
    BY <1>3, <1>9, <1>15
  <2>2. DOMAIN unit.exkeys = {}
    BY <1>14
  <2> QED
    BY <2>1, <2>2 DEF Scans
<1>17. Totals(unit)
  <2>1. unit.ino[Root].locked_children = 0
    BY <1>3, <1>9
  <2>2. \A x : x \notin Counted(unit)
    BY <1>11, <2>1 DEF Counted
  <2>3. Counted(unit) = {}
    BY <2>2
  <2>4. unit.total_locked_ainos = 0
    BY <1>5
  <2> QED
    BY <2>3, <2>4, FS_EmptySet DEF Totals
<1>18. Silent(unit)
  BY <1>5 DEF Silent
<1>19. Uses(unit, locks, keys, spares)
  <2>1. /\ IsABag(locks) /\ IsABag(keys) /\ IsABag(spares)
        /\ DOMAIN locks = {} /\ DOMAIN keys = {} /\ DOMAIN spares = {}
    BY <1>5 DEF IsABag, EmptyBag, SetToBag
  <2>2. ASSUME NEW a \in Path
        PROVE  /\ Copies(a, locks) = 0 /\ Copies(a, keys) = 0 /\ Copies(a, spares) = 0
               /\ ~Exclusive(unit, a) /\ Shared(unit, a) = 0
    BY <1>3, <1>9, <2>1, CopiesIs DEF Exclusive, Shared
  <2> QED
    BY <2>1, <2>2 DEF Uses
<1> QED
  BY <1>10, <1>12, <1>13, <1>16, <1>17, <1>18, <1>19 DEF IInv, Good

\* What the runs check follows from the invariant.
LEMMA InvHolds == IInv => Inv
<1> SUFFICES ASSUME IInv PROVE Inv
  OBVIOUS
<1>1. TypeOK
  BY DEF IInv, Good, Tree, Chain, TypeOK
<1>2. CountsExact
  <2>1. Live(unit) \subseteq Path
    BY UnitType DEF IInv, Good, Typed
  <2> QED
    BY <2>1 DEF IInv, Uses, Shared, Exclusive, CountsExact
<1> QED
  BY <1>1, <1>2 DEF Inv

\* A user of an a_inode makes it one in use, so in memory and not in the list.
LEMMA InUseExistsHolds == IInv => InUseExists
<1> SUFFICES ASSUME IInv PROVE InUseExists
  OBVIOUS
<1>1. \A a \in DOMAIN locks \cup DOMAIN keys : a \in Live(unit) \ unit.chained
  BY UsesLive DEF IInv
<1>2. \A i \in DOMAIN unit.exkeys : unit.exkeys[i].aino \in Dirs(unit)
  BY DEF IInv, Good, Scans
<1> QED
  BY <1>1, <1>2 DEF InUseExists, BagToSet

\* What ScanComplete says of one scan.
Whole(k, s) ==
  k.owed = IF k.curr_file = Nil THEN {}
           ELSE {s[j] : j \in {j \in DOMAIN s : \E m \in 1..j : s[m] = k.curr_file}}

\* What is owed is what lies ahead, in the form of ScanComplete.
LEMMA WholeScan ==
  ASSUME NEW s \in Seq(Path), IsInjective(s), NEW k, OnScan(s, k)
  PROVE  Whole(k, s)
<1>2. s \in Seq(Path) /\ IsInjective(s)
  OBVIOUS
<1>3. CASE k.curr_file = Nil /\ k.owed = {}
  BY <1>3 DEF Whole
<1>4. CASE \E n \in DOMAIN s : k.curr_file = s[n] /\ k.owed = {s[j] : j \in n..Len(s)}
  <2>1. PICK n \in DOMAIN s : k.curr_file = s[n] /\ k.owed = {s[j] : j \in n..Len(s)}
    BY <1>4
  <2>2. k.curr_file # Nil
    BY <1>2, <2>1, NilIsNoPath
  <2>3. DOMAIN s = 1..Len(s) /\ Len(s) \in Nat /\ n \in 1..Len(s)
    BY <1>2, <2>1
  <2>4. ASSUME NEW j \in DOMAIN s
        PROVE  (\E m \in 1..j : s[m] = k.curr_file) <=> j \in n..Len(s)
    <3>1. ASSUME NEW m \in 1..j, s[m] = k.curr_file PROVE j \in n..Len(s)
      BY <1>2, <2>1, <2>3, <3>1 DEF IsInjective
    <3>2. ASSUME j \in n..Len(s) PROVE n \in 1..j /\ s[n] = k.curr_file
      BY <2>1, <2>3, <3>2
    <3> QED
      BY <3>1, <3>2
  <2>5. {j \in DOMAIN s : \E m \in 1..j : s[m] = k.curr_file} = n..Len(s)
    <3>1. n..Len(s) \subseteq DOMAIN s
      BY <2>3
    <3> QED
      BY <2>4, <3>1
  <2> QED
    BY <2>1, <2>2, <2>5 DEF Whole
<1> QED
  BY <1>3, <1>4 DEF OnScan

\* Every ExKey is on its scan.
LEMMA ScanCompleteHolds == IInv => ScanComplete
<1> SUFFICES ASSUME IInv PROVE ScanComplete
  OBVIOUS
<1>1. ASSUME NEW i \in DOMAIN unit.exkeys
      PROVE  Whole(unit.exkeys[i], unit.ino[unit.exkeys[i].aino].child)
  <2>1. PICK k : k = unit.exkeys[i]
    OBVIOUS
  <2>2. PICK s : s = unit.ino[k.aino].child
    OBVIOUS
  <2>3. k.aino \in Live(unit) /\ OnScan(s, k)
    BY <2>1, <2>2 DEF IInv, Good, Scans, Dirs
  <2>4. s \in Seq(Path) /\ IsInjective(s)
    BY <2>2, <2>3, UnitType DEF IInv, Good, Typed, Tree
  <2> QED
    BY <2>1, <2>2, <2>3, <2>4, WholeScan
<1> QED
  BY <1>1 DEF ScanComplete, Whole

\* No other message comes.
LEMMA ChecksHoldHolds == IInv => ChecksHold
BY DEF IInv, Good, Silent, ChecksHold

\* What is cached of directories being scanned is counted, each once.
LEMMA ReaperEndsHolds == IInv => ReaperEnds
<1> SUFFICES ASSUME IInv PROVE ReaperEnds
  OBVIOUS
<1> DEFINE C == unit.chained
           N(a) == unit.ino[parent(a)].locked_children
           Free == {a \in C : N(a) = 0}
           Busy == C \ Free
           F == [a \in Busy |-> <<parent(a), Place(unit.ino[parent(a)].child, a)>>]
<1>1. Good(unit) /\ Typed(unit) /\ Tree(unit) /\ Chain(unit) /\ Scans(unit) /\ Totals(unit)
  BY DEF IInv, Good
<1>2. \A p \in Live(unit) : Len(unit.ino[p].child) \in Nat /\ unit.ino[p].child \in Seq(Path)
         /\ unit.ino[p].locked_children \in Nat /\ unit.ino[p].exnext_count \in Nat
  BY <1>1, UnitType DEF Typed
<1>3. /\ \A p \in Dirs(unit) :
            /\ unit.ino[p].exnext_count = Count(unit, p)
            /\ unit.ino[p].exnext_count > 0 =>
                  unit.ino[p].locked_children >= Len(unit.ino[p].child)
      /\ unit.total_locked_ainos = Cardinality(Counted(unit))
  BY <1>1 DEF Scans, Totals, Count, CountOf, Dirs
<1>4. ASSUME NEW a \in C, N(a) # 0
      PROVE  /\ parent(a) \in Dirs(unit)
             /\ \E j \in 1..N(a) : /\ Place(unit.ino[parent(a)].child, a) = j
                                   /\ unit.ino[parent(a)].child[j] = a
  <2>1. PICK p : p = parent(a)
    OBVIOUS
  <2>2. a \in Live(unit) \ {Root} /\ p \in Live(unit)
    BY <1>1, <2>1 DEF Chain, Tree, Dirs
  <2>3. PICK s : s = unit.ino[p].child
    OBVIOUS
  <2>4. s \in Seq(Path) /\ IsInjective(s) /\ a \in ToSet(s) /\ p \in Dirs(unit)
    <3>1. s \in Seq(Path) /\ IsInjective(s)
      BY <1>1, <1>2, <2>2, <2>3 DEF Tree
    <3>2. a \in ToSet(s)
      BY <1>1, <2>1, <2>2, <2>3 DEF Tree
    <3>3. s # <<>>
      BY <3>2 DEF ToSet
    <3> QED
      BY <1>1, <2>2, <2>3, <3>1, <3>2, <3>3 DEF Tree, Dirs
  <2>5. PICK j \in 1..Len(s) : s[j] = a
    BY <2>4 DEF ToSet
  <2>6. Place(s, a) = j
    BY <2>4, <2>5, PlaceIs
  <2>7. N(a) >= Len(s)
    <3>1. unit.ino[p].exnext_count # 0
      BY <1>1, <1>4, <2>1, <2>2 DEF Scans
    <3> QED
      BY <1>1, <1>2, <2>1, <2>2, <2>3, <3>1 DEF Scans
  <2>8. j \in 1..N(a)
    BY <1>2, <2>1, <2>2, <2>3, <2>5, <2>7
  <2> QED
    BY <2>1, <2>3, <2>4, <2>5, <2>6, <2>8
<1>5. F \in Injection(Busy, Counted(unit))
  <2>1. ASSUME NEW a \in Busy PROVE F[a] \in Counted(unit)
    <3>1. a \in C /\ N(a) # 0
      OBVIOUS
    <3>2. PICK j \in 1..N(a) : Place(unit.ino[parent(a)].child, a) = j
      BY <1>4, <3>1
    <3>3. F[a] = <<parent(a), j>>
      BY <3>2
    <3>4. <<parent(a), j>> \in {parent(a)} \X (1..unit.ino[parent(a)].locked_children)
      BY <3>2
    <3> QED
      BY <1>4, <3>1, <3>3, <3>4 DEF Counted
  <2>2. ASSUME NEW a \in Busy, NEW b \in Busy, F[a] = F[b] PROVE a = b
    <3>1. a \in C /\ N(a) # 0 /\ b \in C /\ N(b) # 0
      OBVIOUS
    <3>2. parent(a) = parent(b)
      BY <2>2
    <3>3. Place(unit.ino[parent(a)].child, a) = Place(unit.ino[parent(a)].child, b)
      BY <2>2
    <3> HIDE DEF F, N, Busy, C
    <3>4. /\ unit.ino[parent(a)].child[Place(unit.ino[parent(a)].child, a)] = a
          /\ unit.ino[parent(b)].child[Place(unit.ino[parent(b)].child, b)] = b
      BY <1>4, <3>1
    <3> QED
      BY <3>2, <3>3, <3>4
  <2>3. DOMAIN F = Busy
    OBVIOUS
  <2>4. F = [a \in Busy |-> F[a]]
    OBVIOUS
  <2> HIDE DEF F, Busy
  <2>5. F \in [Busy -> Counted(unit)]
    BY <2>1, <2>3, <2>4
  <2> QED
    BY <2>2, <2>3, <2>5 DEF Injection, IsInjective
<1>6. IsFiniteSet(Counted(unit)) /\ Cardinality(Counted(unit)) \in Nat
  BY <1>1, CountedIs
<1>7. IsFiniteSet(C)
  <2>1. C \subseteq Live(unit) /\ IsFiniteSet(Live(unit))
    BY <1>1 DEF Typed, Chain
  <2> QED
    BY <2>1, FS_Subset
<1>8. IsFiniteSet(Busy) /\ IsFiniteSet(Free)
  BY <1>7, FS_Subset
<1>9. Cardinality(Busy) <= Cardinality(Counted(unit))
  <2> HIDE DEF F, Busy
  <2> QED
    BY <1>5, <1>6, FS_Injection
<1>10. Cardinality(C) = Cardinality(Free) + Cardinality(Busy)
  <2>1. C = Free \cup Busy /\ Free \cap Busy = {}
    OBVIOUS
  <2> HIDE DEF C, Free, Busy
  <2> QED
    <3>1. Cardinality(Free \cup Busy)
             = Cardinality(Free) + Cardinality(Busy) - Cardinality(Free \cap Busy)
      BY <1>8, FS_Union
    <3>2. Cardinality(Free \cap Busy) = 0
      BY <2>1, FS_EmptySet
    <3>3. Cardinality(Free) \in Nat /\ Cardinality(Busy) \in Nat
      BY <1>8, FS_CardinalityType
    <3> QED
      BY <2>1, <3>1, <3>2, <3>3
<1>11. CacheFull(unit) => Reap <= Cardinality(Free)
  <2>1. unit.aino_cache_size = Cardinality(C) /\ unit.total_locked_ainos = Cardinality(Counted(unit))
    BY <1>1 DEF Chain, Totals
  <2> HIDE DEF C, Free, Busy
  <2>2. Cardinality(Free) \in Nat /\ Cardinality(Busy) \in Nat
    BY <1>8, FS_CardinalityType
  <2>3. Limit \in Nat /\ Reap \in Nat /\ Reap <= Limit
    BY CacheAssumption
  <2> QED
    BY <1>6, <1>9, <1>10, <2>1, <2>2, <2>3 DEF CacheFull
<1> QED
  BY <1>3, <1>11 DEF ReaperEnds

-----------------------------------------------------------------------------
\* The inductive invariant holds of every tree, number of names and packets,
\* at every limit of the cache, as long as no program renames what is in use,
\* deletes a directory it scans, renames a file that is reaped for its own new
\* name, or scans a directory the host does not open (Fatal).
THEOREM Invariance == Spec => []SInv
<1>1. Init => SInv
  BY InitKeeps DEF SInv
<1> QED
  BY <1>1, StepKeeps, PTL DEF Spec

\* The tree is one, the list of recyclable a_inodes has files only and the
\* size it is said to have, and the counts of locks and files are exact but for
\* the shared uses that were made shared again (every packet of filesys.c that
\* changes them).
THEOREM TreeIsRight == Spec => []Inv
<1>1. SInv => Inv
  BY InvHolds DEF SInv, Inv
<1> QED
  BY <1>1, Invariance, PTL

\* What a program holds, has open or scans is in memory, and not in the list
\* to be reaped (recycle_aino, de_recycle_aino, delete_aino), until something
\* in use is renamed or deleted.
THEOREM UsedIsKept == Spec => []InUseExists
<1>1. SInv => InUseExists
  BY InUseExistsHolds DEF SInv, InUseExists
<1> QED
  BY <1>1, Invariance, PTL

\* A scan returns once each object that was in the directory when it began
\* and still is under the same name (do_examine, populate_directory,
\* delete_aino, lookup_sub).
THEOREM ScansAreComplete == Spec => []ScanComplete
<1>1. SInv => ScanComplete
  BY ScanCompleteHolds DEF SInv, ScanComplete
<1> QED
  BY <1>1, Invariance, PTL

\* The loop of recycle_aino finds enough to free, because the counts of
\* scans and of counted children are exact.
THEOREM ReaperAlwaysEnds == Spec => []ReaperEnds
<1>1. SInv => ReaperEnds
  BY ReaperEndsHolds DEF SInv, ReaperEnds
<1> QED
  BY <1>1, Invariance, PTL

\* Of the code's own checks those of recycle_aino and of move_exkeys never fail.
THEOREM ChecksNeverFail == Spec => []ChecksHold
<1>1. SInv => ChecksHold
  BY ChecksHoldHolds DEF SInv, ChecksHold
<1> QED
  BY <1>1, Invariance, PTL

=============================================================================
