-------------------------- MODULE PathNamesProofs ---------------------------
(* str_replace(), for every string, substring and replacement: one pass from *)
(* the left replaces the occurrences that overlap no earlier one, and what   *)
(* the loop has in its buffer at each turn is that result so far.            *)
EXTENDS PathNames, DataLemmas

-----------------------------------------------------------------------------
(* Occurrences.                                                              *)

\* Where sub occurs, character by character.
LEMMA Occurs ==
  ASSUME NEW T, NEW s \in Seq(T), NEW sub \in Seq(T), NEW i \in Int
  PROVE  i \in Matches(s, sub) <=>
           i \in 0 .. Len(s) - Len(sub) /\ \A p \in 1 .. Len(sub) : s[i + p] = sub[p]
<1>1. Len(s) \in Nat /\ Len(sub) \in Nat
  OBVIOUS
<1>2. SUFFICES ASSUME i \in 0 .. Len(s) - Len(sub)
               PROVE  SubSeq(s, i + 1, i + Len(sub)) = sub <=> \A p \in 1 .. Len(sub) : s[i + p] = sub[p]
  BY DEF Matches
<1> DEFINE u == SubSeq(s, i + 1, i + Len(sub))
<1>3. u \in Seq(T) /\ Len(u) = Len(sub) /\ \A p \in 1 .. Len(sub) : u[p] = s[i + p]
  <2>1. \A x \in i + 1 .. i + Len(sub) : s[x] \in T
    BY <1>1, <1>2
  <2>2. /\ u \in Seq(T)
        /\ Len(u) = IF i + 1 <= i + Len(sub) THEN i + Len(sub) - (i + 1) + 1 ELSE 0
        /\ \A p \in 1 .. i + Len(sub) - (i + 1) + 1 : u[p] = s[i + 1 + p - 1]
    BY <1>1, <2>1, SubSeqProperties
  <2> HIDE DEF u
  <2>3. Len(u) = Len(sub)
    BY <1>1, <2>2
  <2>4. ASSUME NEW p \in 1 .. Len(sub) PROVE u[p] = s[i + p]
    <3>1. p \in 1 .. i + Len(sub) - (i + 1) + 1 /\ i + 1 + p - 1 = i + p
      BY <1>1
    <3> QED  BY <2>2, <3>1
  <2> QED  BY <2>2, <2>3, <2>4
<1> HIDE DEF u
<1>4. (\A p \in 1 .. Len(sub) : s[i + p] = sub[p]) => u = sub
  BY <1>3, SeqEqual
<1> QED  BY <1>3, <1>4 DEF u

\* What occurs in the second part occurs in the whole.
LEMMA OccursBehind ==
  ASSUME NEW T, NEW a \in Seq(T), NEW b \in Seq(T), NEW sub \in Seq(T), NEW i \in Nat
  PROVE  Len(a) + i \in Matches(Cat(a, b), sub) <=> i \in Matches(b, sub)
<1>1. /\ Len(a) \in Nat /\ Len(b) \in Nat /\ Len(sub) \in Nat
      /\ Cat(a, b) \in Seq(T) /\ Len(Cat(a, b)) = Len(a) + Len(b)
  <2>1. Len(a) \in Nat /\ Len(b) \in Nat /\ Len(sub) \in Nat
    OBVIOUS
  <2> QED  BY <2>1, CatType
<1>2. PICK m \in Nat : m = Len(a) + i
  BY <1>1
<1>3. m \in 0 .. Len(Cat(a, b)) - Len(sub) <=> i \in 0 .. Len(b) - Len(sub)
  BY <1>1, <1>2
<1>4. ASSUME i \in 0 .. Len(b) - Len(sub), NEW p \in 1 .. Len(sub)
      PROVE  Cat(a, b)[m + p] = b[i + p]
  <2>1. PICK x \in Nat : x = m + p
    BY <1>2
  <2>2. x \in 1 .. Len(a) + Len(b) /\ ~ (x <= Len(a)) /\ x - Len(a) = i + p
    BY <1>1, <1>2, <1>4, <2>1
  <2>3. Cat(a, b)[x] = b[x - Len(a)]
    BY <2>2, ConcatProperties DEF Cat
  <2> QED  BY <2>1, <2>2, <2>3
<1>5. m \in Matches(Cat(a, b), sub) <=>
        m \in 0 .. Len(Cat(a, b)) - Len(sub) /\ \A p \in 1 .. Len(sub) : Cat(a, b)[m + p] = sub[p]
  <2>1. m \in Int /\ Cat(a, b) \in Seq(T)
    BY <1>1, <1>2
  <2> DEFINE c == Cat(a, b)
  <2>2. c \in Seq(T)
    BY <2>1
  <2> HIDE DEF c
  <2>3. m \in Matches(c, sub) <=>
          m \in 0 .. Len(c) - Len(sub) /\ \A p \in 1 .. Len(sub) : c[m + p] = sub[p]
    BY ONLY <2>1, <2>2, sub \in Seq(T), Occurs
  <2> QED  BY <2>3 DEF c
<1>6. i \in Matches(b, sub) <=>
        i \in 0 .. Len(b) - Len(sub) /\ \A p \in 1 .. Len(sub) : b[i + p] = sub[p]
  BY Occurs
<1> QED  BY <1>2, <1>3, <1>4, <1>5, <1>6

\* What occurs in a prefix occurs in the whole.
LEMMA OccursAhead ==
  ASSUME NEW T, NEW s \in Seq(T), NEW sub \in Seq(T), NEW k \in 0 .. Len(s), NEW i \in Int
  PROVE  i \in Matches(Ahead(s, k), sub) <=> i \in Matches(s, sub) /\ i + Len(sub) <= k
<1>1. Len(s) \in Nat /\ Len(sub) \in Nat /\ k \in Nat
  OBVIOUS
<1>2. /\ Ahead(s, k) \in Seq(T) /\ Len(Ahead(s, k)) = k
  BY Cut
<1>3. ASSUME NEW x \in 1 .. k PROVE Ahead(s, k)[x] = s[x]
  <2>1. \A y \in 1 .. k : s[y] \in T
    BY <1>1
  <2>2. x \in 1 .. k - 1 + 1 /\ 1 + x - 1 = x
    BY <1>1
  <2>3. SubSeq(s, 1, k)[x] = s[1 + x - 1]
    BY <1>1, <2>1, <2>2, SubSeqProperties
  <2> QED  BY <2>2, <2>3 DEF Ahead
<1>4. i \in 0 .. k - Len(sub) <=> i \in 0 .. Len(s) - Len(sub) /\ i + Len(sub) <= k
  BY <1>1
<1>5. ASSUME i \in 0 .. k - Len(sub), NEW p \in 1 .. Len(sub) PROVE Ahead(s, k)[i + p] = s[i + p]
  <2>1. i + p \in 1 .. k
    BY <1>1, <1>5
  <2> QED  BY <1>3, <2>1
<1>6. i \in Matches(s, sub) <=>
        i \in 0 .. Len(s) - Len(sub) /\ \A p \in 1 .. Len(sub) : s[i + p] = sub[p]
  BY Occurs
<1>7. i \in Matches(Ahead(s, k), sub) <=>
        i \in 0 .. k - Len(sub) /\ \A p \in 1 .. Len(sub) : Ahead(s, k)[i + p] = sub[p]
  BY <1>2, Occurs
<1> QED  BY <1>4, <1>5, <1>6, <1>7

-----------------------------------------------------------------------------
(* The occurrences that one pass replaces.                                   *)

Greedy(P, t, sub) ==
  /\ P \in SUBSET Matches(t, sub)
  /\ \A i \in Matches(t, sub) : i \in P <=> \A j \in P : j < i => j + Len(sub) <= i

\* There is one such set only.
LEMMA ChosenIs ==
  ASSUME NEW T, NEW t \in Seq(T), NEW sub \in Seq(T), NEW P, Greedy(P, t, sub)
  PROVE  Chosen(t, sub) = P
<1> DEFINE M == Matches(t, sub)
           Q == Chosen(t, sub)
<1>1. Greedy(Q, t, sub)
  BY DEF Greedy, Chosen
<1>2. M \in SUBSET Nat
  BY DEF Matches
<1>3. P \in SUBSET M /\ Q \in SUBSET M
  BY <1>1 DEF Greedy
<1> HIDE DEF M, Q
<1> DEFINE D == {i \in M : ~ (i \in P <=> i \in Q)}
<1>4. SUFFICES ASSUME D # {} PROVE FALSE
  BY <1>3 DEF Q
<1>5. PICK m \in D : \A j \in D : m <= j
  <2>1. D \in SUBSET Nat
    BY <1>2
  <2> QED  BY <1>4, <2>1, MinOfNats
<1>6. m \in M /\ m \in Nat /\ ~ (m \in P <=> m \in Q)
  BY <1>2, <1>5
<1>7. \A j \in M : j < m => (j \in P <=> j \in Q)
  BY <1>2, <1>5, <1>6
<1>8. m \in P <=> \A j \in P : j < m => j + Len(sub) <= m
  BY <1>6 DEF Greedy, M
<1>9. m \in Q <=> \A j \in Q : j < m => j + Len(sub) <= m
  BY <1>1, <1>6 DEF Greedy, M
<1> QED  BY <1>3, <1>6, <1>7, <1>8, <1>9

-----------------------------------------------------------------------------
(* The result, put together from one piece per character.                    *)

\* What is put in the place of a character when the occurrences P are replaced.
Put(P, s, n, rep, i) ==
  IF i - 1 \in P THEN rep
  ELSE IF \E j \in P : j < i - 1 /\ i - 1 < j + n THEN <<>> ELSE <<s[i]>>

AllPut(P, s, n, rep, k) == [i \in 1 .. k |-> Put(P, s, n, rep, i)]

\* The first k characters with the occurrences P, of length n, replaced.
With(P, s, n, rep, k) == FlattenSeq(AllPut(P, s, n, rep, k))

\* What is put in is of the same characters;
LEMMA PutType ==
  ASSUME NEW T, NEW s \in Seq(T), NEW rep \in Seq(T), NEW P, NEW n, NEW i \in 1 .. Len(s)
  PROVE  Put(P, s, n, rep, i) \in Seq(T)
<1>1. s[i] \in T
  OBVIOUS
<1>2. <<s[i]>> \in Seq(T) /\ <<>> \in Seq(T)
  BY <1>1
<1> QED  BY <1>2 DEF Put

\* so are the pieces,
LEMMA AllPutType ==
  ASSUME NEW T, NEW s \in Seq(T), NEW rep \in Seq(T), NEW P, NEW n, NEW k \in 0 .. Len(s)
  PROVE  AllPut(P, s, n, rep, k) \in Seq(Seq(T))
<1>1. \A i \in 1 .. k : i \in 1 .. Len(s)
  OBVIOUS
<1>2. \A i \in 1 .. k : Put(P, s, n, rep, i) \in Seq(T)
  BY <1>1, PutType
<1> QED  BY <1>2 DEF AllPut

\* one for every character,
LEMMA AllPutLen ==
  ASSUME NEW P, NEW s, NEW n, NEW rep, NEW k \in Nat
  PROVE  /\ Len(AllPut(P, s, n, rep, k)) = k
         /\ \A i \in 1 .. k : AllPut(P, s, n, rep, k)[i] = Put(P, s, n, rep, i)
  BY DEF AllPut

\* and the result.
LEMMA WithType ==
  ASSUME NEW T, NEW s \in Seq(T), NEW rep \in Seq(T), NEW P, NEW n, NEW k \in 0 .. Len(s)
  PROVE  With(P, s, n, rep, k) \in Seq(T)
<1> DEFINE u == AllPut(P, s, n, rep, k)
<1>1. u \in Seq(Seq(T))
  BY AllPutType
<1> HIDE DEF u
<1>2. FlattenSeq(u) \in Seq(T)
  BY <1>1, FlattenType
<1> QED  BY <1>2 DEF With, u

\* One more character.
LEMMA WithNext ==
  ASSUME NEW T, NEW s \in Seq(T), NEW rep \in Seq(T), NEW P, NEW n, NEW k \in 0 .. Len(s) - 1
  PROVE  With(P, s, n, rep, k + 1) = Cat(With(P, s, n, rep, k), Put(P, s, n, rep, k + 1))
<1>1. PICK m \in 1 .. Len(s) : m = k + 1
  OBVIOUS
<1> DEFINE u == AllPut(P, s, n, rep, k)
           t == AllPut(P, s, n, rep, m)
<1>2. k \in 0 .. Len(s) /\ m \in 0 .. Len(s) /\ k \in Nat /\ m \in Nat
  OBVIOUS
<1>3. u \in Seq(Seq(T)) /\ t \in Seq(Seq(T))
  BY <1>2, AllPutType
<1>4. Len(u) = k /\ Len(t) = m
  BY <1>2, AllPutLen
<1>5. \A i \in 1 .. Len(u) : t[i] = u[i]
  BY <1>1, <1>2, <1>4, AllPutLen
<1>6. t[m] = Put(P, s, n, rep, m)
  BY <1>1, <1>2, AllPutLen
<1> HIDE DEF u, t
<1>7. FlattenSeq(t) = Cat(FlattenSeq(u), t[Len(t)])
  <2>1. Len(t) = Len(u) + 1
    BY <1>1, <1>4
  <2> QED  BY ONLY <1>3, <1>5, <2>1, FlattenSnoc
<1>8. With(P, s, n, rep, m) = Cat(With(P, s, n, rep, k), Put(P, s, n, rep, m))
  BY <1>4, <1>6, <1>7, Zenon DEF With, u, t
<1> QED  BY <1>1, <1>8

\* Of no characters, nothing.
LEMMA WithNone ==
  ASSUME NEW P, NEW s, NEW n, NEW rep
  PROVE  With(P, s, n, rep, 0) = <<>>
<1>1. AllPut(P, s, n, rep, 0) = <<>>
  BY DEF AllPut
<1> QED  BY <1>1, FlattenEmpty DEF With

\* A prefix does not depend on what is behind it.
LEMMA WithSame ==
  ASSUME NEW P, NEW Q, NEW s, NEW t, NEW n, NEW rep, NEW k \in Nat,
         \A i \in 1 .. k : Put(P, s, n, rep, i) = Put(Q, t, n, rep, i)
  PROVE  With(P, s, n, rep, k) = With(Q, t, n, rep, k)
<1>1. [i \in 1 .. k |-> Put(P, s, n, rep, i)] = [i \in 1 .. k |-> Put(Q, t, n, rep, i)]
  OBVIOUS
<1> QED  BY <1>1 DEF With, AllPut

\* Where no occurrence is, the characters stay.
LEMMA WithPlain ==
  ASSUME NEW T, NEW s \in Seq(T), NEW rep \in Seq(T), NEW P, NEW n,
         NEW k \in 0 .. Len(s), NEW l \in 0 .. Len(s), k <= l,
         \A i \in k + 1 .. l : Put(P, s, n, rep, i) = <<s[i]>>
  PROVE  With(P, s, n, rep, l) = Cat(With(P, s, n, rep, k), SubSeq(s, k + 1, l))
<1> DEFINE W(i) == With(P, s, n, rep, i)
           G == {x \in 0 .. l - k : W(k + x) = Cat(W(k), SubSeq(s, k + 1, k + x))}
<1>1. k \in Nat /\ l \in Nat /\ Len(s) \in Nat /\ l - k \in Nat /\ \A i \in 1 .. Len(s) : s[i] \in T
  OBVIOUS
<1>2. W(k) \in Seq(T)
  BY WithType
<1>3. 0 \in G
  <2>1. SubSeq(s, k + 1, k + 0) = <<>> /\ k + 0 = k /\ 0 \in 0 .. l - k
    BY <1>1, SubSeqEmpty
  <2> HIDE DEF W
  <2> QED  BY <1>2, <2>1, CatEmpty
<1>4. ASSUME NEW x \in 0 .. (l - k) - 1, x \in G PROVE x + 1 \in G
  <2>1. PICK y \in Nat : y = k + x
    BY <1>1
  <2>2. /\ y \in 0 .. Len(s) - 1 /\ y + 1 \in k + 1 .. l /\ y + 1 = k + (x + 1)
        /\ x + 1 \in 0 .. l - k /\ k <= y /\ y + 1 \in 1 .. Len(s)
    BY <1>1, <2>1
  <2>3. W(y + 1) = Cat(W(y), <<s[y + 1]>>)
    <3>1. Put(P, s, n, rep, y + 1) = <<s[y + 1]>>
      BY <2>2
    <3> QED  BY <2>2, <3>1, WithNext
  <2>4. W(y) = Cat(W(k), SubSeq(s, k + 1, y))
    BY <1>4, <2>1
  <2>5. SubSeq(s, k + 1, y) \in Seq(T) /\ <<s[y + 1]>> \in Seq(T)
    <3>1. \A z \in k + 1 .. y : s[z] \in T
      BY <1>1, <2>2
    <3>2. SubSeq(s, k + 1, y) \in Seq(T)
      BY <1>1, <2>2, <3>1, SubSeqProperties
    <3>3. s[y + 1] \in T
      BY <1>1, <2>2
    <3> QED  BY <3>2, <3>3
  <2>6. SubSeq(s, k + 1, y + 1) = Cat(SubSeq(s, k + 1, y), <<s[y + 1]>>)
    <3>1. SubSeq(s, k + 1, y) \o SubSeq(s, y + 1, y + 1) = SubSeq(s, k + 1, y + 1)
      <4>1. /\ k + 1 \in 1 .. Len(s) + 1 /\ y \in (k + 1) - 1 .. Len(s)
            /\ y + 1 \in y .. Len(s)
        BY <1>1, <2>2
      <4> QED  BY <4>1, ConcatAdjacentSubSeq
    <3>2. SubSeq(s, y + 1, y + 1) = <<s[y + 1]>>
      <4> DEFINE v == SubSeq(s, y + 1, y + 1)
      <4>1. /\ v \in Seq(T) /\ Len(v) = 1 /\ v[1] = s[y + 1]
        <5>1. \A z \in y + 1 .. y + 1 : s[z] \in T
          BY <1>1, <2>2
        <5>2. /\ v \in Seq(T)
              /\ Len(v) = IF y + 1 <= y + 1 THEN y + 1 - (y + 1) + 1 ELSE 0
              /\ \A p \in 1 .. y + 1 - (y + 1) + 1 : v[p] = s[y + 1 + p - 1]
          BY <2>2, <5>1, SubSeqProperties
        <5> HIDE DEF v
        <5>3. 1 \in 1 .. y + 1 - (y + 1) + 1 /\ y + 1 + 1 - 1 = y + 1 /\ y + 1 - (y + 1) + 1 = 1
          BY <2>1
        <5> QED  BY <5>2, <5>3
      <4> HIDE DEF v
      <4>2. v = <<s[y + 1]>>
        BY <2>5, <4>1, SeqEqual
      <4> QED  BY <4>2 DEF v
    <3> QED  BY <3>1, <3>2, Zenon DEF Cat
  <2> HIDE DEF W
  <2>7. Cat(Cat(W(k), SubSeq(s, k + 1, y)), <<s[y + 1]>>) = Cat(W(k), Cat(SubSeq(s, k + 1, y), <<s[y + 1]>>))
    <3>1. PICK a \in Seq(T), b \in Seq(T), c \in Seq(T) :
            a = W(k) /\ b = SubSeq(s, k + 1, y) /\ c = <<s[y + 1]>>
      BY <1>2, <2>5
    <3>2. Cat(Cat(a, b), c) = Cat(a, Cat(b, c))
      BY CatAssociative
    <3> QED  BY <3>1, <3>2
  <2>8. W(y + 1) = Cat(W(k), SubSeq(s, k + 1, y + 1))
    BY <2>3, <2>4, <2>6, <2>7, Zenon
  <2> QED  BY <2>2, <2>8
<1> HIDE DEF W
<1>5. l - k \in G
  <2> HIDE DEF G
  <2>1. \A x \in 0 .. l - k : x \in G
    BY <1>1, <1>3, <1>4, BoundedInduction
  <2> QED  BY <1>1, <2>1
<1>6. k + (l - k) = l
  BY <1>1
<1>7. W(l) = Cat(W(k), SubSeq(s, k + 1, l))
  BY <1>5, <1>6
<1> QED  BY <1>7 DEF W

\* Inside an occurrence nothing is put.
LEMMA WithSkipped ==
  ASSUME NEW T, NEW s \in Seq(T), NEW rep \in Seq(T), NEW P, NEW n,
         NEW k \in 0 .. Len(s), NEW l \in 0 .. Len(s), k <= l,
         \A i \in k + 1 .. l : Put(P, s, n, rep, i) = <<>>
  PROVE  With(P, s, n, rep, l) = With(P, s, n, rep, k)
<1> DEFINE W(i) == With(P, s, n, rep, i)
           G == {x \in 0 .. l - k : W(k + x) = W(k)}
<1>1. k \in Nat /\ l \in Nat /\ Len(s) \in Nat /\ l - k \in Nat
  OBVIOUS
<1>2. 0 \in G
  BY <1>1
<1>3. ASSUME NEW x \in 0 .. (l - k) - 1, x \in G PROVE x + 1 \in G
  <2>1. PICK y \in Nat : y = k + x
    BY <1>1
  <2>2. /\ y \in 0 .. Len(s) - 1 /\ y \in 0 .. Len(s) /\ y + 1 \in k + 1 .. l /\ y + 1 = k + (x + 1)
        /\ x + 1 \in 0 .. l - k
    BY <1>1, <2>1
  <2>3. W(y + 1) = Cat(W(y), <<>>)
    <3>1. Put(P, s, n, rep, y + 1) = <<>>
      BY <2>2
    <3> QED  BY <2>2, <3>1, WithNext
  <2>4. W(y) \in Seq(T)
    BY <2>2, WithType
  <2> HIDE DEF W
  <2>5. W(y + 1) = W(k)
    BY <1>3, <2>1, <2>3, <2>4, CatEmpty
  <2> QED  BY <2>2, <2>5
<1> HIDE DEF W
<1>4. l - k \in G
  <2> HIDE DEF G
  <2>1. \A x \in 0 .. l - k : x \in G
    BY <1>1, <1>2, <1>3, BoundedInduction
  <2> QED  BY <1>1, <2>1
<1>5. k + (l - k) = l
  BY <1>1
<1>6. W(l) = W(k)
  BY <1>4, <1>5
<1> QED  BY <1>6 DEF W

-----------------------------------------------------------------------------
(* The pass.                                                                 *)

\* The pass has come to k and replaces the occurrences P to its left.
Passed(P, s, sub, k) ==
  /\ P \in SUBSET Matches(s, sub)
  /\ \A i \in P : i + Len(sub) <= k
  /\ \A i \in Matches(s, sub) :
       i + Len(sub) <= k => (i \in P <=> \A j \in P : j < i => j + Len(sub) <= i)
  /\ k = 0 \/ k - Len(sub) \in P

\* The first occurrence from k on.
FirstFrom(m, s, sub, k) ==
  /\ m \in Matches(s, sub) /\ m >= k
  /\ \A j \in Matches(s, sub) : j >= k => m <= j

\* Before its first turn the pass has replaced nothing.
LEMMA PassStarts ==
  ASSUME NEW T, NEW s \in Seq(T), NEW sub \in Seq(T), sub # <<>>
  PROVE  Passed({}, s, sub, 0)
<1>1. Len(sub) \in Nat /\ Len(sub) # 0
  BY EmptySeq
<1>2. Matches(s, sub) \in SUBSET Nat
  BY DEF Matches
<1> QED  BY <1>1, <1>2 DEF Passed

\* An occurrence that begins before k and ends behind it overlaps a chosen one.
LEMMA PassGoesOn ==
  ASSUME NEW T, NEW s \in Seq(T), NEW sub \in Seq(T), sub # <<>>,
         NEW k \in Nat, NEW P, Passed(P, s, sub, k), NEW m, FirstFrom(m, s, sub, k)
  PROVE  Passed(P \cup {m}, s, sub, m + Len(sub))
<1> DEFINE M == Matches(s, sub)
           Q == P \cup {m}
<1>1. PICK L \in Nat : L = Len(sub) /\ L > 0
  BY EmptySeq
<1>2. M \in SUBSET Nat
  BY DEF Matches
<1>3. P \in SUBSET M /\ m \in M /\ m \in Nat /\ m >= k
  BY <1>2 DEF Passed, FirstFrom
<1>4. \A i \in P : i + L <= k
  BY <1>1 DEF Passed
<1>5. \A i \in M : i + L <= k => (i \in P <=> \A j \in P : j < i => j + L <= i)
  BY <1>1 DEF Passed
<1>6. k = 0 \/ k - L \in P
  BY <1>1 DEF Passed
<1>7. \A j \in M : j >= k => m <= j
  BY DEF FirstFrom
<1> HIDE DEF M
<1>8. \A i \in Q : i + L <= m + L
  BY <1>2, <1>3, <1>4
<1>9. ASSUME NEW i \in M, i + L <= m + L PROVE i \in Q <=> \A j \in Q : j < i => j + L <= i
  <2>1. i \in Nat /\ i <= m
    BY <1>2, <1>3, <1>9
  <2>2. CASE i = m
    BY <1>2, <1>3, <1>4, <2>1, <2>2
  <2>3. CASE i # m /\ i + L <= k
    <3>1. i \in Q <=> i \in P
      BY <2>3
    <3>2. ~ (m < i)
      BY <1>3, <2>1
    <3> QED  BY <1>5, <2>3, <3>1, <3>2
  <2>4. CASE i # m /\ ~ (i + L <= k)
    <3>1. i \notin Q
      BY <1>4, <2>4
    <3>2. i < k
      BY <1>3, <1>7, <2>1, <2>4
    <3>3. k - L \in Q /\ k - L < i /\ ~ (k - L + L <= i)
      BY <1>1, <1>6, <2>1, <2>4, <3>2
    <3> QED  BY <3>1, <3>3
  <2> QED  BY <2>2, <2>3, <2>4
<1>10. m + L - L \in Q
  BY <1>3
<1>11. Q \in SUBSET M
  BY <1>3
<1> HIDE DEF Q
<1>12. PICK n \in Nat : n = m + L
  BY <1>1, <1>3
<1>13. Passed(Q, s, sub, n)
  <2>1. Q \in SUBSET Matches(s, sub)
    BY <1>11 DEF M
  <2>2. \A i \in Q : i + Len(sub) <= n
    BY <1>1, <1>8, <1>12
  <2>3. \A i \in Matches(s, sub) :
         i + Len(sub) <= n => (i \in Q <=> \A j \in Q : j < i => j + Len(sub) <= i)
    BY ONLY <1>1, <1>9, <1>12 DEF M
  <2>4. n - Len(sub) \in Q
    <3>1. n - Len(sub) = m + L - L
      BY <1>1, <1>3, <1>12
    <3> QED  BY <1>10, <3>1
  <2> QED  BY ONLY <2>1, <2>2, <2>3, <2>4 DEF Passed
<1> QED  BY <1>1, <1>12, <1>13 DEF Q

\* What one turn of the loop does to the result.
OneMore(P, s, sub, rep, k, m) ==
  With(P \cup {m}, s, Len(sub), rep, m + Len(sub))
    = Cat(With(P, s, Len(sub), rep, k), Cat(SubSeq(s, k + 1, m), rep))

\* It appends what lies between the last occurrence and this one, and rep.
LEMMA WithOneMore ==
  ASSUME NEW T, NEW s \in Seq(T), NEW sub \in Seq(T), NEW rep \in Seq(T), sub # <<>>,
         NEW k \in Nat, NEW P, Passed(P, s, sub, k), NEW m, FirstFrom(m, s, sub, k)
  PROVE  OneMore(P, s, sub, rep, k, m)
<1> DEFINE M == Matches(s, sub)
           Q == P \cup {m}
<1>1. PICK L \in Nat : L = Len(sub) /\ L > 0
  BY EmptySeq
<1>2. M \in SUBSET Nat /\ \A i \in M : i + L <= Len(s)
  BY <1>1 DEF Matches
<1>3. P \in SUBSET M /\ m \in M /\ m \in Nat /\ m >= k
  BY <1>2 DEF Passed, FirstFrom
<1>4. \A i \in P : i \in Nat /\ i + L <= k
  BY <1>1, <1>2, <1>3 DEF Passed
<1>5. Len(s) \in Nat /\ m + L <= Len(s) /\ k <= Len(s)
  BY <1>1, <1>2, <1>3
<1> HIDE DEF M
<1> DEFINE W(i) == With(Q, s, L, rep, i)
<1>6. W(k) = With(P, s, L, rep, k)
  <2>1. ASSUME NEW i \in 1 .. k PROVE Put(Q, s, L, rep, i) = Put(P, s, L, rep, i)
    <3>1. i - 1 \in Q <=> i - 1 \in P
      BY <1>3
    <3>2. ~ (m < i - 1)
      BY <1>3
    <3>3. (\E j \in Q : j < i - 1 /\ i - 1 < j + L) <=> (\E j \in P : j < i - 1 /\ i - 1 < j + L)
      BY <3>2
    <3> QED  BY <3>1, <3>3 DEF Put
  <2> HIDE DEF Q
  <2> QED  BY <2>1, WithSame
<1>7. W(m) = Cat(W(k), SubSeq(s, k + 1, m))
  <2>1. ASSUME NEW i \in k + 1 .. m PROVE Put(Q, s, L, rep, i) = <<s[i]>>
    <3>1. i - 1 \notin Q
      BY <1>1, <1>3, <1>4
    <3>2. \A j \in Q : ~ (j < i - 1 /\ i - 1 < j + L)
      BY <1>3, <1>4
    <3> QED  BY <3>1, <3>2 DEF Put
  <2>2. k \in 0 .. Len(s) /\ m \in 0 .. Len(s) /\ k <= m
    BY <1>1, <1>3, <1>5
  <2> HIDE DEF Q
  <2> QED  BY <2>1, <2>2, WithPlain
<1>8. W(m + 1) = Cat(W(m), rep)
  <2>1. Put(Q, s, L, rep, m + 1) = rep
    BY <1>3 DEF Put
  <2>2. m \in 0 .. Len(s) - 1
    BY <1>1, <1>3, <1>5
  <2> HIDE DEF Q
  <2> QED  BY <2>1, <2>2, WithNext
<1>9. W(m + L) = W(m + 1)
  <2>1. ASSUME NEW i \in m + 1 + 1 .. m + L PROVE Put(Q, s, L, rep, i) = <<>>
    <3>1. i - 1 \notin Q
      BY <1>3, <1>4
    <3>2. m \in Q /\ m < i - 1 /\ i - 1 < m + L
      BY <1>1, <1>3
    <3> QED  BY <3>1, <3>2 DEF Put
  <2>2. m + 1 \in 0 .. Len(s) /\ m + L \in 0 .. Len(s) /\ m + 1 <= m + L
    BY <1>1, <1>3, <1>5
  <2> HIDE DEF Q
  <2>3. PICK a \in 0 .. Len(s), b \in 0 .. Len(s) : a = m + 1 /\ b = m + L /\ a <= b
    BY <2>2
  <2>4. With(Q, s, L, rep, b) = With(Q, s, L, rep, a)
    BY <2>1, <2>3, WithSkipped
  <2> QED  BY <2>3, <2>4
<1>10. Cat(Cat(W(k), SubSeq(s, k + 1, m)), rep) = Cat(W(k), Cat(SubSeq(s, k + 1, m), rep))
  <2>1. W(k) \in Seq(T)
    BY <1>5, WithType
  <2>2. SubSeq(s, k + 1, m) \in Seq(T)
    <3>1. \A z \in k + 1 .. m : s[z] \in T
      BY <1>1, <1>3, <1>5
    <3> QED  BY <1>3, <3>1, SubSeqProperties
  <2>3. PICK a \in Seq(T), b \in Seq(T) : a = W(k) /\ b = SubSeq(s, k + 1, m)
    BY <2>1, <2>2
  <2>4. Cat(Cat(a, b), rep) = Cat(a, Cat(b, rep))
    BY CatAssociative
  <2> QED  BY <2>3, <2>4
<1>11. W(m + L) = Cat(With(P, s, L, rep, k), Cat(SubSeq(s, k + 1, m), rep))
  <2> HIDE DEF W
  <2> QED  BY <1>6, <1>7, <1>8, <1>9, <1>10, Zenon
<1> QED  BY <1>1, <1>11 DEF OneMore

\* When no occurrence is left the choice is the greedy one.
LEMMA PassEnds ==
  ASSUME NEW T, NEW s \in Seq(T), NEW sub \in Seq(T), sub # <<>>,
         NEW k \in Nat, NEW P, Passed(P, s, sub, k), \A j \in Matches(s, sub) : j < k
  PROVE  Greedy(P, s, sub)
<1> DEFINE M == Matches(s, sub)
<1>1. PICK L \in Nat : L = Len(sub) /\ L > 0
  BY EmptySeq
<1>2. M \in SUBSET Nat
  BY DEF Matches
<1>3. P \in SUBSET M
  BY DEF Passed
<1>4. \A i \in P : i + L <= k
  BY <1>1 DEF Passed
<1>5. \A i \in M : i + L <= k => (i \in P <=> \A j \in P : j < i => j + L <= i)
  BY <1>1 DEF Passed
<1>6. k = 0 \/ k - L \in P
  BY <1>1 DEF Passed
<1> HIDE DEF M
<1>7. ASSUME NEW i \in M PROVE i \in P <=> \A j \in P : j < i => j + L <= i
  <2>1. CASE i + L <= k
    BY <1>5, <2>1
  <2>2. CASE ~ (i + L <= k)
    <3>1. i \notin P
      BY <1>4, <2>2
    <3>2. i \in Nat /\ i < k
      BY <1>2 DEF M
    <3>3. k - L \in P /\ k - L < i /\ ~ (k - L + L <= i)
      BY <1>1, <1>6, <2>2, <3>2
    <3> QED  BY <3>1, <3>3
  <2> QED  BY <2>1, <2>2
<1> QED  BY <1>1, <1>3, <1>7 DEF Greedy, M

\* and the rest of the string stays.
LEMMA WithTheRest ==
  ASSUME NEW T, NEW s \in Seq(T), NEW sub \in Seq(T), NEW rep \in Seq(T), sub # <<>>,
         NEW k \in 0 .. Len(s), NEW P, Passed(P, s, sub, k)
  PROVE  With(P, s, Len(sub), rep, Len(s)) = Cat(With(P, s, Len(sub), rep, k), Behind(s, k))
<1>1. PICK L \in Nat : L = Len(sub) /\ L > 0
  BY EmptySeq
<1>2. P \in SUBSET Nat /\ Len(s) \in Nat /\ k \in Nat
  BY DEF Matches, Passed
<1>3. \A i \in P : i + L <= k
  BY <1>1 DEF Passed
<1>4. ASSUME NEW i \in k + 1 .. Len(s) PROVE Put(P, s, L, rep, i) = <<s[i]>>
  <2>1. \A j \in P : ~ (j < i - 1 /\ i - 1 < j + L)
    BY <1>2, <1>3
  <2>2. i - 1 \notin P
    BY <1>1, <1>2, <1>3
  <2> QED  BY <2>1, <2>2 DEF Put
<1>5. With(P, s, L, rep, Len(s)) = Cat(With(P, s, L, rep, k), SubSeq(s, k + 1, Len(s)))
  <2>1. Len(s) \in 0 .. Len(s) /\ k <= Len(s)
    BY <1>2
  <2>2. PICK l \in 0 .. Len(s) : l = Len(s) /\ k <= l
    BY <2>1
  <2>3. With(P, s, L, rep, l) = Cat(With(P, s, L, rep, k), SubSeq(s, k + 1, l))
    BY <1>4, <2>2, WithPlain
  <2> QED  BY <2>2, <2>3
<1> QED  BY <1>1, <1>5 DEF Behind

-----------------------------------------------------------------------------
(* What Replaced is.                                                         *)

\* What every occurrence replaced is, put piece by piece.
LEMMA ReplacedWith ==
  ASSUME NEW t, NEW sub, NEW rep, Len(t) \in Nat
  PROVE  Replaced(t, sub, rep) = With(Chosen(t, sub), t, Len(sub), rep, Len(t))
<1> DEFINE P == Chosen(t, sub)
           Piece(i) == IF i \in P THEN rep
                       ELSE IF \E j \in P : j < i /\ i < j + Len(sub) THEN <<>>
                       ELSE <<t[i + 1]>>
           u == [i \in 1 .. Len(t) |-> Piece(i - 1)]
<1>1. Replaced(t, sub, rep) = FlattenSeq(u)
  BY DEF Replaced
<1> HIDE DEF P
<1>2. ASSUME NEW i \in 1 .. Len(t) PROVE Piece(i - 1) = Put(P, t, Len(sub), rep, i)
  <2>1. i - 1 + 1 = i
    OBVIOUS
  <2> QED  BY <2>1 DEF Put
<1>3. u = AllPut(P, t, Len(sub), rep, Len(t))
  BY <1>2 DEF AllPut
<1> QED  BY <1>1, <1>3 DEF With, P

\* The result of a pass is a string.
LEMMA ReplacedType ==
  ASSUME NEW T, NEW t \in Seq(T), NEW sub \in Seq(T), NEW rep \in Seq(T)
  PROVE  Replaced(t, sub, rep) \in Seq(T)
<1>1. Len(t) \in Nat /\ Len(t) \in 0 .. Len(t)
  OBVIOUS
<1>2. \A P : With(P, t, Len(sub), rep, Len(t)) \in Seq(T)
  BY <1>1, WithType
<1> QED  BY <1>1, <1>2, ReplacedWith

\* It is the result for the one greedy set.
LEMMA ReplacedIs ==
  ASSUME NEW T, NEW t \in Seq(T), NEW sub \in Seq(T), NEW rep, NEW P, Greedy(P, t, sub)
  PROVE  Replaced(t, sub, rep) = With(P, t, Len(sub), rep, Len(t))
<1>1. Chosen(t, sub) = P
  BY ChosenIs
<1>2. Len(t) \in Nat
  OBVIOUS
<1> QED  BY <1>1, <1>2, ReplacedWith

\* What the pass has replaced is what it replaces in the prefix alone.
LEMMA ReplacedAhead ==
  ASSUME NEW T, NEW s \in Seq(T), NEW sub \in Seq(T), NEW rep \in Seq(T), sub # <<>>,
         NEW k \in 0 .. Len(s), NEW P, Passed(P, s, sub, k)
  PROVE  Replaced(Ahead(s, k), sub, rep) = With(P, s, Len(sub), rep, k)
<1>1. PICK t \in Seq(T) : t = Ahead(s, k) /\ Len(t) = k
  BY Cut
<1>2. \A i \in Int : i \in Matches(t, sub) <=> i \in Matches(s, sub) /\ i + Len(sub) <= k
  BY <1>1, OccursAhead
<1>3. Greedy(P, t, sub)
  <2>1. P \in SUBSET Matches(t, sub)
    <3>1. P \in SUBSET Int
      BY DEF Passed, Matches
    <3> QED  BY <1>2, <3>1 DEF Passed
  <2>2. \A i \in Matches(t, sub) : i \in P <=> \A j \in P : j < i => j + Len(sub) <= i
    <3>1. Matches(t, sub) \in SUBSET Int
      BY DEF Matches
    <3> QED  BY <1>2, <3>1 DEF Passed
  <2> QED  BY <2>1, <2>2 DEF Greedy
<1>4. Replaced(t, sub, rep) = With(P, t, Len(sub), rep, k)
  BY <1>1, <1>3, ReplacedIs
<1>5. ASSUME NEW i \in 1 .. k PROVE t[i] = s[i]
  <2>1. \A x \in 1 .. k : s[x] \in T
    OBVIOUS
  <2>2. SubSeq(s, 1, k)[i] = s[1 + i - 1]
    BY <2>1, SubSeqProperties
  <2> QED  BY <1>1, <2>2 DEF Ahead
<1>6. With(P, t, Len(sub), rep, k) = With(P, s, Len(sub), rep, k)
  <2>1. \A i \in 1 .. k : Put(P, t, Len(sub), rep, i) = Put(P, s, Len(sub), rep, i)
    BY <1>5 DEF Put
  <2>2. k \in Nat
    OBVIOUS
  <2> QED  BY <2>1, <2>2, WithSame
<1> QED  BY <1>1, <1>4, <1>6

\* The result of the whole pass.
LEMMA ReplacedAll ==
  ASSUME NEW T, NEW s \in Seq(T), NEW sub \in Seq(T), NEW rep \in Seq(T), sub # <<>>,
         NEW k \in 0 .. Len(s), NEW P, Passed(P, s, sub, k), \A j \in Matches(s, sub) : j < k
  PROVE  Replaced(s, sub, rep) = Cat(With(P, s, Len(sub), rep, k), Behind(s, k))
<1>1. k \in Nat
  OBVIOUS
<1>2. Greedy(P, s, sub)
  BY <1>1, PassEnds
<1>3. Replaced(s, sub, rep) = With(P, s, Len(sub), rep, Len(s))
  BY <1>2, ReplacedIs
<1> QED  BY <1>3, WithTheRest

-----------------------------------------------------------------------------
(* Strings in their buffers.                                                 *)

\* strdup() makes a buffer that reads back as the string.
LEMMA TextOf ==
  ASSUME NEW x \in Seq(Char)
  PROVE  strlen(strdup(x)) = Len(x) /\ Text(strdup(x)) = x
<1> DEFINE b == strdup(x)
           I == {i \in 1 .. Len(b) : b[i] = NUL}
<1>1. /\ Len(x) \in Nat /\ Len(b) = Len(x) + 1 /\ b[Len(x) + 1] = NUL
      /\ \A i \in 1 .. Len(x) : b[i] = x[i]
  BY DEF strdup
<1>2. \A i \in 1 .. Len(x) : x[i] # NUL
  BY PathNamesAssumption
<1> HIDE DEF b
<1>3. I = {Len(x) + 1}
  BY <1>1, <1>2
<1>4. strlen(b) = Min(I) - 1
  BY <1>3 DEF strlen, SelectInSeq
<1> HIDE DEF I
<1>5. Min(I) = Len(x) + 1
  <2>1. I \in SUBSET Nat /\ I # {}
    BY <1>1, <1>3
  <2> QED  BY <1>3, <2>1, MinOfNats
<1>6. strlen(b) = Len(x)
  BY <1>1, <1>4, <1>5
<1>7. Text(b) = x
  <2>1. \A i \in 1 .. Len(x) : b[i] \in Char
    BY <1>1
  <2>2. /\ SubSeq(b, 1, Len(x)) \in Seq(Char)
        /\ Len(SubSeq(b, 1, Len(x))) = IF 1 <= Len(x) THEN Len(x) - 1 + 1 ELSE 0
        /\ \A i \in 1 .. Len(x) - 1 + 1 : SubSeq(b, 1, Len(x))[i] = b[1 + i - 1]
    BY <1>1, <2>1, SubSeqProperties
  <2>3. Len(SubSeq(b, 1, Len(x))) = Len(x)
    BY <1>1, <2>2
  <2>4. \A i \in 1 .. Len(x) : SubSeq(b, 1, Len(x))[i] = x[i]
    <3> TAKE i \in 1 .. Len(x)
    <3>1. i \in 1 .. Len(x) - 1 + 1 /\ 1 + i - 1 = i
      BY <1>1
    <3> QED  BY <1>1, <2>2, <3>1
  <2>5. SubSeq(b, 1, Len(x)) = x
    BY <2>2, <2>3, <2>4, SeqEqual
  <2> QED  BY <1>6, <2>5 DEF Text
<1> QED  BY <1>6, <1>7 DEF b

-----------------------------------------------------------------------------
(* One turn of the loop.                                                     *)

\* What strstr() finds in a buffer of which w is done and r is left.
LEMMA Found ==
  ASSUME NEW w \in Seq(Char), NEW r \in Seq(Char), substr \in Seq(Char),
         newstr = strdup(Cat(w, r)), head = Len(w)
  PROVE  /\ Matches(r, substr) = {} => tok = -1
         /\ \A i : FirstFrom(i, r, substr, 0) => tok = Len(w) + i
<1> DEFINE x == Cat(w, r)
           M == Matches(x, substr)
           found == {j \in M : j >= head}
           R == Matches(r, substr)
<1>1. x \in Seq(Char) /\ Len(w) \in Nat
  BY CatType
<1>2. Text(newstr) = x
  BY <1>1, TextOf
<1>3. tok = IF found = {} THEN -1 ELSE CHOOSE i \in found : \A j \in found : i <= j
  BY <1>2 DEF tok
<1>4. M \in SUBSET Nat /\ R \in SUBSET Nat
  BY DEF Matches
<1>5. \A i \in Nat : Len(w) + i \in M <=> i \in R
  BY OccursBehind
<1> HIDE DEF x, M, R
<1>6. \A j \in found : j - Len(w) \in R /\ j = Len(w) + (j - Len(w))
  <2> TAKE j \in found
  <2>1. j - Len(w) \in Nat /\ j = Len(w) + (j - Len(w)) /\ j \in M
    BY <1>1, <1>4
  <2> QED  BY <1>5, <2>1
<1>7. \A i \in R : Len(w) + i \in found
  BY <1>1, <1>4, <1>5
<1> HIDE DEF found
<1>8. R = {} => tok = -1
  BY <1>3, <1>6
<1>9. ASSUME NEW i, FirstFrom(i, r, substr, 0) PROVE tok = Len(w) + i
  <2>1. i \in R /\ i \in Nat /\ \A j \in R : i <= j
    <3>1. \A j \in R : j >= 0
      BY <1>4
    <3> QED  BY <1>4, <1>9, <3>1 DEF FirstFrom, R
  <2>2. PICK m \in Nat : m = Len(w) + i
    BY <1>1, <2>1
  <2>3. m \in found
    BY <1>7, <2>1, <2>2
  <2>4. \A j \in found : m <= j
    <3> TAKE j \in found
    <3>1. PICK y \in Nat : y = j - Len(w) /\ y \in R /\ j = Len(w) + y
      BY <1>4, <1>6
    <3>2. i <= y
      BY <2>1, <3>1
    <3> QED  BY <1>1, <2>1, <2>2, <3>1, <3>2
  <2>5. found \in SUBSET Nat
    BY <1>4 DEF found
  <2>6. \A y \in found : (\A j \in found : y <= j) => y = m
    BY <2>3, <2>4, <2>5
  <2>7. (CHOOSE y \in found : \A j \in found : y <= j) = m
    BY <2>3, <2>4, <2>6
  <2> QED  BY <1>3, <2>2, <2>3, <2>7
<1> QED  BY <1>8, <1>9 DEF R

\* What strstr() finds is an occurrence in what is left.
LEMMA FoundAt ==
  ASSUME NEW w \in Seq(Char), NEW r \in Seq(Char), substr \in Seq(Char),
         newstr = strdup(Cat(w, r)), head = Len(w), tok >= 0
  PROVE  \E i \in Matches(r, substr) : tok = Len(w) + i
<1> DEFINE R == Matches(r, substr)
<1>1. R # {}
  BY Found
<1>2. R \in SUBSET Nat
  BY DEF Matches
<1> HIDE DEF R
<1>3. PICK i \in R : \A j \in R : i <= j
  BY <1>1, <1>2, MinOfNats
<1>4. FirstFrom(i, r, substr, 0)
  BY <1>2, <1>3 DEF FirstFrom, R
<1> QED  BY <1>3, <1>4, Found DEF R

\* The size of a block with room for r in place of l of the characters.
LEMMA Sizes ==
  ASSUME NEW w \in Nat, NEW r \in Nat, NEW l \in Nat, NEW q \in Nat, l <= r
  PROVE  \E A \in Nat : A = w + r - l + q + 1 /\ A - 1 \in Nat /\ w + r - l + q = A - 1
<1>1. w + r - l + q + 1 \in Nat /\ w + r - l + q \in Nat
  OBVIOUS
<1>2. (w + r - l + q + 1) - 1 = w + r - l + q
  OBVIOUS
<1> QED  BY <1>1, <1>2

\* A copy that stays in its block writes within it.
LEMMA Within ==
  ASSUME NEW A \in Nat, NEW t \in Nat, NEW n \in Nat, t + n <= A
  PROVE  (1 .. A) \cup (t + 1 .. t + n) = 1 .. A
<1>1. \A p \in t + 1 .. t + n : p \in 1 .. A
  OBVIOUS
<1> QED  BY <1>1

\* What such a copy reads lies in a block of B characters.
LEMMA Reads ==
  ASSUME NEW B \in Nat, NEW t \in Nat, NEW u \in Nat, NEW n \in Nat, u + n <= B
  PROVE  \A p \in t + 1 .. t + n : p - t + u \in 1 .. B
  OBVIOUS

\* A terminator behind a text leaves the text.
LEMMA Terminated ==
  ASSUME NEW y \in Seq(Char), NEW z, NEW n \in Nat, Len(y) = n
  PROVE  DOMAIN Append(y, z) = 1 .. n + 1 /\ \A p \in 1 .. n : Append(y, z)[p] = y[p]
<1>1. DOMAIN Append(y, z) = 1 .. n + 1
  BY SMTT(60)
<1>2. ASSUME NEW p \in 1 .. n PROVE Append(y, z)[p] = y[p]
  BY SMTT(60)
<1> QED  BY <1>1, <1>2

\* The buffer that the three copies fill.
LEMMA Rewritten ==
  ASSUME NEW w \in Seq(Char), NEW r \in Seq(Char), substr \in Seq(Char), replacement \in Seq(Char),
         newstr = strdup(Cat(w, r)), NEW i \in Matches(r, substr), tok = Len(w) + i
  PROVE  rewritten = strdup(Cat(Cat(w, Cat(Ahead(r, i), replacement)), Behind(r, i + Len(substr))))
<1>1. PICK L \in Nat, Q \in Nat, W \in Nat, R \in Nat :
        L = Len(substr) /\ Q = Len(replacement) /\ W = Len(w) /\ R = Len(r)
  OBVIOUS
<1>2. i \in Nat /\ i + L <= R /\ i \in 0 .. R /\ i + L \in 0 .. R
  BY <1>1 DEF Matches
<1>3. PICK j \in 0 .. R : j = i + L
  BY <1>2
<1> DEFINE x == Cat(w, r)
           a == Ahead(r, i)
           b == Behind(r, j)
           c == Cat(a, replacement)
           d == Cat(w, c)
           e == Cat(d, b)
<1>4. x \in Seq(Char) /\ Len(x) = W + R
  BY <1>1, CatType
<1>5. a \in Seq(Char) /\ Len(a) = i
  BY <1>1, <1>2, Cut
<1>6. b \in Seq(Char) /\ Len(b) = R - j
  BY <1>1, Cut
<1>7. \A p \in 1 .. i : a[p] = r[p]
  BY <1>1, <1>2, AheadAt
<1>8. \A p \in 1 .. R - j : b[p] = r[j + p]
  BY <1>1, BehindAt
<1>9. \A p \in 1 .. W + R : x[p] = IF p <= W THEN w[p] ELSE r[p - W]
  BY <1>1, CatAt
<1> HIDE DEF a, b
<1>10. c \in Seq(Char) /\ Len(c) = i + Q /\ \A p \in 1 .. i + Q : c[p] = IF p <= i THEN a[p] ELSE replacement[p - i]
  <2>1. c \in Seq(Char) /\ Len(c) = Len(a) + Len(replacement)
    BY <1>5, CatType
  <2>2. \A p \in 1 .. i + Q : c[p] = IF p <= i THEN a[p] ELSE replacement[p - i]
    BY <1>1, <1>5, CatAt
  <2> QED  BY <1>1, <1>5, <2>1, <2>2
<1> HIDE DEF c
<1>11. d \in Seq(Char) /\ Len(d) = W + (i + Q) /\ \A p \in 1 .. W + (i + Q) : d[p] = IF p <= W THEN w[p] ELSE c[p - W]
  <2>1. d \in Seq(Char) /\ Len(d) = Len(w) + Len(c)
    BY <1>10, CatType
  <2>2. \A p \in 1 .. W + (i + Q) : d[p] = IF p <= W THEN w[p] ELSE c[p - W]
    BY <1>1, <1>10, CatAt
  <2> QED  BY <1>1, <1>10, <2>1, <2>2
<1> HIDE DEF d
<1>12. PICK D \in Nat : D = W + (i + Q)
  BY <1>2
<1>13. /\ e \in Seq(Char) /\ Len(e) = D + (R - j)
       /\ \A p \in 1 .. D + (R - j) : e[p] = IF p <= D THEN d[p] ELSE b[p - D]
  <2>1. e \in Seq(Char) /\ Len(e) = Len(d) + Len(b)
    BY <1>6, <1>11, CatType
  <2>2. \A p \in 1 .. Len(d) + Len(b) : e[p] = IF p <= Len(d) THEN d[p] ELSE b[p - Len(d)]
    BY <1>6, <1>11, CatAt
  <2>3. Len(d) = D /\ Len(b) = R - j
    BY <1>6, <1>11, <1>12
  <2> QED  BY <2>1, <2>2, <2>3
<1> HIDE DEF e
<1>14. strlen(newstr) = W + R
  BY <1>4, TextOf
<1>15. PICK B \in Nat : /\ B = W + R + 1 /\ DOMAIN newstr = 1 .. B
                       /\ \A p \in 1 .. W + R : newstr[p] = x[p]
  <2>1. PICK y \in Seq(Char) : y = x /\ Len(y) = W + R
    BY <1>4
  <2>2. newstr = Append(y, NUL)
    BY <2>1 DEF strdup
  <2>3. /\ DOMAIN Append(y, NUL) = 1 .. W + R + 1
        /\ \A p \in 1 .. W + R : Append(y, NUL)[p] = y[p]
    <3>1. W + R \in Nat
      BY <1>1
    <3> QED  BY <2>1, <3>1, Terminated
  <2>4. W + R + 1 \in Nat
    BY <1>1
  <2> HIDE DEF x
  <2>5. PICK B \in Nat : B = W + R + 1
    BY <2>4
  <2>6. DOMAIN newstr = 1 .. B
    BY <2>2, <2>3, <2>5
  <2>7. \A p \in 1 .. W + R : newstr[p] = x[p]
    BY <2>1, <2>2, <2>3
  <2> QED  BY <2>5, <2>6, <2>7
<1> HIDE DEF x
<1>16. PICK A \in Nat : A = W + R - L + Q + 1 /\ A - 1 \in Nat /\ W + R - L + Q = A - 1
  <2>1. L <= R
    BY <1>1, <1>2
  <2> QED  BY <2>1, Sizes
<1>17. allocated = A
  BY <1>1, <1>14, <1>16 DEF allocated
<1>18. tail = R - j
  BY <1>1, <1>2, <1>3, <1>14 DEF tail
<1>19. PICK t \in Nat : t = W + i
  BY <1>2
<1>20. tok = t
  BY <1>1, <1>19
<1> DEFINE before   == memcpy(malloc(A), 0, newstr, 0, t)
           replaced == memcpy(before, t, replacement, 0, Q)
           whole    == memcpy(replaced, t + Q, newstr, t + L, R - j)
<1>21. rewritten = memset(whole, strlen(newstr) - Len(substr) + Len(replacement))
  <2>1. Len(replacement) = Q /\ Len(substr) = L
    BY <1>1
  <2> QED  BY <1>17, <1>18, <1>20, <2>1, Zenon DEF rewritten
<1>0. /\ t + Q \in Nat /\ t + L \in Nat /\ R - j \in Nat /\ 0 \in Nat
      /\ t <= A /\ t <= B /\ t + Q <= A /\ t + Q + (R - j) <= A /\ t + L + (R - j) <= B
  BY <1>1, <1>2, <1>3, <1>15, <1>16, <1>19
<1>22. /\ DOMAIN before = 1 .. A
       /\ \A p \in 1 .. A : p <= t => before[p] = newstr[p]
  <2>1. DOMAIN malloc(A) = 1 .. A
    BY DEF malloc
  <2>2. /\ DOMAIN before = 1 .. A
        /\ \A p \in 1 .. A : before[p] = IF p \in 0 + 1 .. 0 + t THEN newstr[p - 0 + 0] ELSE malloc(A)[p]
    <3>0. 0 + t <= A
      BY <1>0, <1>19
    <3>1. DOMAIN malloc(A) \cup (0 + 1 .. 0 + t) = 1 .. A
      BY <1>0, <1>16, <1>19, <2>1, <3>0, Within
    <3>2. \A p \in 0 + 1 .. 0 + t : p - 0 + 0 \in DOMAIN newstr
      <4>1. 0 + t <= B
        BY <1>0, <1>19
      <4>2. \A p \in 0 + 1 .. 0 + t : p - 0 + 0 \in 1 .. B
        BY <1>0, <1>19, <4>1, Reads
      <4> QED  BY <1>15, <4>2
    <3> QED  BY <3>1, <3>2 DEF memcpy
  <2>3. ASSUME NEW p \in 1 .. A, p <= t PROVE before[p] = newstr[p]
    <3>1. p \in 0 + 1 .. 0 + t /\ p - 0 + 0 = p
      BY <1>19, <2>3
    <3> HIDE DEF before
    <3> QED  BY <2>2, <3>1
  <2> QED  BY <2>2, <2>3
<1>23. /\ DOMAIN replaced = 1 .. A
       /\ \A p \in 1 .. A : replaced[p] = IF p \in t + 1 .. t + Q THEN replacement[p - t] ELSE before[p]
  <2> HIDE DEF before
  <2>1. \A p \in 1 .. A : p - t + 0 = p - t
    BY <1>19
  <2>2. DOMAIN replacement = 1 .. Q /\ 0 + Q <= Q
    BY <1>1
  <2>3. /\ DOMAIN replaced = 1 .. A
        /\ \A p \in 1 .. A : replaced[p] = IF p \in t + 1 .. t + Q THEN replacement[p - t + 0] ELSE before[p]
    <3>1. DOMAIN before \cup (t + 1 .. t + Q) = 1 .. A
      <4>1. (1 .. A) \cup (t + 1 .. t + Q) = 1 .. A
        BY <1>0, Within
      <4> QED  BY <1>22, <4>1, Zenon
    <3>2. \A p \in t + 1 .. t + Q : p - t + 0 \in DOMAIN replacement
      BY <1>1, <1>19, <2>2
    <3> QED  BY <3>1, <3>2 DEF memcpy
  <2> HIDE DEF replaced
  <2> QED  BY <2>1, <2>3
<1>24. /\ DOMAIN whole = 1 .. A
       /\ \A p \in 1 .. A : whole[p] = IF p \in t + Q + 1 .. t + Q + (R - j) THEN newstr[p - (t + Q) + (t + L)]
                                       ELSE replaced[p]
  <2> HIDE DEF replaced
  <2>1. PICK u \in Nat, v \in Nat, n \in Nat : u = t + Q /\ v = t + L /\ n = R - j /\ u + n <= A /\ v + n <= B
    BY <1>0
  <2>2. DOMAIN replaced \cup (u + 1 .. u + n) = 1 .. A
    BY <1>16, <1>23, <2>1, Within
  <2>3. \A p \in u + 1 .. u + n : p - u + v \in DOMAIN newstr
    <3>1. \A p \in u + 1 .. u + n : p - u + v \in 1 .. B
      BY <2>1, Reads
    <3> QED  BY <1>15, <3>1
  <2>4. whole = memcpy(replaced, u, newstr, v, n)
    BY <2>1
  <2>5. /\ DOMAIN memcpy(replaced, u, newstr, v, n) = 1 .. A
        /\ \A p \in 1 .. A : memcpy(replaced, u, newstr, v, n)[p]
                               = IF p \in u + 1 .. u + n THEN newstr[p - u + v] ELSE replaced[p]
    BY <2>2, <2>3 DEF memcpy
  <2> HIDE DEF whole
  <2> QED  BY <2>1, <2>4, <2>5
<1>25. /\ rewritten = [p \in 1 .. A |-> rewritten[p]] /\ rewritten[A] = NUL
       /\ \A p \in 1 .. A : p < A => rewritten[p] = whole[p]
  <2> HIDE DEF whole
  <2>1. PICK b1 \in Nat : A = b1 + 1 /\ b1 + 1 <= A /\ 0 + 1 <= 1
    BY <1>16
  <2>2. rewritten = memcpy(whole, b1, <<NUL>>, 0, 1)
    <3>1. strlen(newstr) - Len(substr) + Len(replacement) = W + R - L + Q
      BY <1>1, <1>14
    <3>2. W + R - L + Q = b1
      BY <1>16, <2>1
    <3> QED  BY <1>21, <3>1, <3>2 DEF memset
  <2>3. DOMAIN <<NUL>> = 1 .. 1 /\ <<NUL>>[1] = NUL /\ 1 \in Nat
    OBVIOUS
  <2>4. /\ memcpy(whole, b1, <<NUL>>, 0, 1) = [p \in 1 .. A |-> memcpy(whole, b1, <<NUL>>, 0, 1)[p]]
        /\ \A p \in 1 .. A : memcpy(whole, b1, <<NUL>>, 0, 1)[p]
                               = IF p \in b1 + 1 .. b1 + 1 THEN <<NUL>>[p - b1 + 0] ELSE whole[p]
    <3>1. DOMAIN whole \cup (b1 + 1 .. b1 + 1) = 1 .. A
      BY <1>16, <1>24, <2>1
    <3>2. \A p \in b1 + 1 .. b1 + 1 : p - b1 + 0 \in DOMAIN <<NUL>>
      BY <2>1, <2>3
    <3> QED  BY <3>1, <3>2 DEF memcpy
  <2>5. \A p \in 1 .. A : rewritten[p] = IF p \in b1 + 1 .. b1 + 1 THEN <<NUL>>[p - b1 + 0] ELSE whole[p]
    BY <2>2, <2>4
  <2>6. A \in 1 .. A /\ A \in b1 + 1 .. b1 + 1 /\ A - b1 + 0 = 1
    BY <1>16, <2>1
  <2>7. \A p \in 1 .. A : p < A => ~ (p \in b1 + 1 .. b1 + 1)
    BY <1>16, <2>1
  <2>8. rewritten[A] = NUL
    BY <2>3, <2>5, <2>6
  <2> QED  BY <2>2, <2>4, <2>5, <2>7, <2>8
<1> HIDE DEF before, replaced, whole
<1> DEFINE goal == strdup(e)
<1>26. /\ goal = [p \in 1 .. A |-> goal[p]] /\ goal[A] = NUL
       /\ \A p \in 1 .. A : p < A => goal[p] = e[p]
  <2>1. Len(e) + 1 = A
    BY <1>2, <1>3, <1>12, <1>13, <1>16
  <2>2. e \in Seq(Char)
    BY <1>13
  <2> HIDE DEF e
  <2>3. /\ Append(e, NUL) = [p \in 1 .. Len(e) + 1 |-> Append(e, NUL)[p]]
        /\ Append(e, NUL)[Len(e) + 1] = NUL
        /\ \A p \in 1 .. Len(e) : Append(e, NUL)[p] = e[p]
    <3>1. Append(e, NUL) \in Seq(Char \cup {NUL}) /\ Len(Append(e, NUL)) = Len(e) + 1
      BY <2>2
    <3>2. Append(e, NUL) = [p \in 1 .. Len(e) + 1 |-> Append(e, NUL)[p]]
      <4>1. Append(e, NUL) \in [1 .. Len(Append(e, NUL)) -> Char \cup {NUL}]
        BY <3>1, LenProperties
      <4> QED  BY <3>1, <4>1
    <3> QED  BY <2>2, <3>2
  <2>4. \A p \in 1 .. A : p < A => p \in 1 .. Len(e)
    BY <1>16, <2>1, <2>2
  <2> QED  BY <2>1, <2>3, <2>4 DEF strdup
<1> HIDE DEF goal
<1>27. ASSUME NEW p \in 1 .. A, p < A PROVE whole[p] = e[p]
  <2>1. CASE p <= W
    <3>1. p <= t /\ ~ (p \in t + 1 .. t + Q) /\ ~ (p \in t + Q + 1 .. t + Q + (R - j)) /\ p \in 1 .. W + R
          /\ p <= D /\ p \in 1 .. D + (R - j) /\ p \in 1 .. W + (i + Q)
      BY <1>1, <1>2, <1>3, <1>12, <1>19, <2>1
    <3>2. whole[p] = w[p]
      BY <1>9, <1>15, <1>22, <1>23, <1>24, <2>1, <3>1
    <3>3. e[p] = w[p]
      BY <1>11, <1>13, <2>1, <3>1
    <3> QED  BY <3>2, <3>3
  <2>2. CASE W < p /\ p <= t
    <3>1. p <= t /\ ~ (p \in t + 1 .. t + Q) /\ ~ (p \in t + Q + 1 .. t + Q + (R - j)) /\ p \in 1 .. W + R
          /\ ~ (p <= W) /\ p <= D /\ p \in 1 .. D + (R - j) /\ p \in 1 .. W + (i + Q)
          /\ p - W \in 1 .. i /\ p - W <= i /\ p - W \in 1 .. i + Q
      BY <1>1, <1>2, <1>3, <1>12, <1>19, <2>2
    <3>2. whole[p] = r[p - W]
      BY <1>9, <1>15, <1>22, <1>23, <1>24, <3>1
    <3>3. e[p] = r[p - W]
      BY <1>7, <1>10, <1>11, <1>13, <3>1
    <3> QED  BY <3>2, <3>3
  <2>3. CASE t < p /\ p <= t + Q
    <3>1. p \in t + 1 .. t + Q /\ ~ (p \in t + Q + 1 .. t + Q + (R - j))
          /\ ~ (p <= W) /\ p <= D /\ p \in 1 .. D + (R - j) /\ p \in 1 .. W + (i + Q)
          /\ ~ (p - W <= i) /\ p - W \in 1 .. i + Q /\ p - W - i = p - t
      BY <1>1, <1>2, <1>3, <1>12, <1>19, <2>3
    <3>2. whole[p] = replacement[p - t]
      BY <1>23, <1>24, <3>1
    <3>3. e[p] = replacement[p - t]
      BY <1>10, <1>11, <1>13, <3>1
    <3> QED  BY <3>2, <3>3
  <2>4. CASE t + Q < p
    <3>1. p \in t + Q + 1 .. t + Q + (R - j) /\ ~ (p <= D) /\ p \in 1 .. D + (R - j)
          /\ p - D \in 1 .. R - j
      BY <1>1, <1>2, <1>3, <1>12, <1>16, <1>19, <1>27, <2>4
    <3>2. PICK q \in 1 .. W + R : q = p - (t + Q) + (t + L)
      <4>1. p - (t + Q) + (t + L) \in 1 .. W + R
        BY <1>2, <1>16, <1>19, <1>27, <2>4
      <4> QED  BY <4>1
    <3>3. ~ (q <= W) /\ q - W = j + (p - D)
      BY <1>1, <1>2, <1>3, <1>12, <1>19, <2>4, <3>2
    <3>4. whole[p] = r[q - W]
      BY <1>9, <1>15, <1>24, <3>1, <3>2, <3>3
    <3>5. e[p] = r[j + (p - D)]
      BY <1>8, <1>13, <3>1
    <3> QED  BY <3>3, <3>4, <3>5
  <2> QED  BY <1>19, <2>1, <2>2, <2>3, <2>4
<1>28. rewritten = goal
  <2>1. \A p \in 1 .. A : rewritten[p] = goal[p]
    <3> TAKE p \in 1 .. A
    <3>1. p = A \/ p < A
      BY <1>16
    <3> QED  BY <1>25, <1>26, <1>27, <3>1
  <2> QED  BY <1>25, <1>26, <2>1
<1> QED  BY <1>1, <1>3, <1>28 DEF goal, e, d, c, b, a

-----------------------------------------------------------------------------
(* The inductive invariant.                                                  *)

Done(P, k) == With(P, string, Len(substr), replacement, k)

\* Where the loop is: the occurrences P are replaced and k characters are done.
AtLoop(P, k) ==
  /\ Passed(P, string, substr, k)
  /\ newstr = strdup(Cat(Done(P, k), Behind(string, k)))
  /\ head = Len(Done(P, k))

\* What a call of str_replace() that does not return at once is given.
Arguments ==
  string \in Seq(Char) /\ substr \in Seq(Char) \ {<<>>} /\ replacement \in Seq(Char)

Given ==
  /\ fname \in Seq(Char) /\ mountedDir \in (Seq(Char) \ {<<>>}) \cup {NULL} /\ alias \in Seq(Char)
  /\ string \in Seq(Char) /\ replacement \in Seq(Char)
  /\ substr # NULL => Arguments
  /\ at = "loop" => substr # NULL

LoopOK   == at = "loop" => \E k \in 0 .. Len(string) : \E P \in SUBSET (0 .. Len(string)) : AtLoop(P, k)
ResultOK == at \in {"returned", "sends"} => newstr = strdup(Result(string, substr, replacement))
DirOK    == call = "fsOpenDir" => string = fname /\ substr = mountedDir /\ replacement = alias

PathInv == Given /\ LoopOK /\ ResultOK /\ DirOK

\* What is done and what is left.
LEMMA AtLoopTypes ==
  ASSUME Arguments, NEW k \in 0 .. Len(string), NEW P, AtLoop(P, k)
  PROVE  /\ Done(P, k) \in Seq(Char) /\ Behind(string, k) \in Seq(Char)
         /\ Ahead(string, k) \in Seq(Char) /\ Len(Ahead(string, k)) = k
         /\ Len(Behind(string, k)) = Len(string) - k
         /\ Cat(Ahead(string, k), Behind(string, k)) = string
<1>1. string \in Seq(Char) /\ replacement \in Seq(Char)
  BY DEF Arguments
<1>2. Done(P, k) \in Seq(Char)
  BY <1>1, WithType DEF Done
<1> QED  BY <1>1, <1>2, Cut

\* The first occurrence of what is left is the first from k on.
LEMMA FirstBehind ==
  ASSUME NEW s \in Seq(Char), NEW sub \in Seq(Char), NEW k \in 0 .. Len(s)
  PROVE  /\ Matches(Behind(s, k), sub) = {} => \A j \in Matches(s, sub) : j < k
         /\ \A i \in Nat : FirstFrom(i, Behind(s, k), sub, 0) => FirstFrom(k + i, s, sub, k)
<1> DEFINE a == Ahead(s, k)
           r == Behind(s, k)
           M == Matches(s, sub)
           R == Matches(r, sub)
<1>1. a \in Seq(Char) /\ r \in Seq(Char) /\ Len(a) = k /\ Cat(a, r) = s /\ k \in Nat
  BY Cut
<1>2. M \in SUBSET Nat /\ R \in SUBSET Nat
  BY DEF Matches
<1> HIDE DEF a, r
<1>3. \A i \in Nat : k + i \in M <=> i \in R
  BY <1>1, OccursBehind
<1> HIDE DEF M, R
<1>4. \A j \in M : j >= k => j - k \in R /\ j = k + (j - k)
  <2> TAKE j \in M
  <2> HAVE j >= k
  <2>1. j - k \in Nat /\ j = k + (j - k)
    BY <1>1, <1>2
  <2> QED  BY <1>3, <2>1
<1>5. R = {} => \A j \in M : j < k
  BY <1>1, <1>2, <1>4
<1>6. ASSUME NEW i \in Nat, FirstFrom(i, r, sub, 0) PROVE FirstFrom(k + i, s, sub, k)
  <2>1. i \in R /\ \A j \in R : i <= j
    <3>1. \A j \in R : j >= 0
      BY <1>2
    <3> QED  BY <1>6, <3>1 DEF FirstFrom, R
  <2>2. k + i \in M /\ k + i >= k
    BY <1>1, <1>3, <2>1
  <2>3. ASSUME NEW j \in M, j >= k PROVE k + i <= j
    <3>1. PICK y \in Nat : y = j - k /\ y \in R /\ j = k + y
      BY <1>2, <1>4, <2>3
    <3> QED  BY <1>1, <2>1, <3>1
  <2> QED  BY <2>2, <2>3 DEF FirstFrom, M
<1> QED  BY <1>5, <1>6 DEF R, M, r

\* The turn that begins with P and k replaces the occurrence at m.
Turned(P, k, m) ==
  /\ m + Len(substr) \in 0 .. Len(string) /\ m + Len(substr) > k
  /\ P \cup {m} \in SUBSET (0 .. Len(string))
  /\ Passed(P \cup {m}, string, substr, m + Len(substr))
  /\ rewritten = strdup(Cat(Done(P \cup {m}, m + Len(substr)), Behind(string, m + Len(substr))))
  /\ afterReplacement = Len(Done(P \cup {m}, m + Len(substr)))

\* Every turn that finds an occurrence is such a turn.
LEMMA Turn ==
  ASSUME Arguments, NEW k \in 0 .. Len(string), NEW P \in SUBSET (0 .. Len(string)), AtLoop(P, k), tok >= 0
  PROVE  \E m \in Nat : Turned(P, k, m)
<1> DEFINE w == Done(P, k)
           r == Behind(string, k)
<1>1. w \in Seq(Char) /\ r \in Seq(Char) /\ Len(r) = Len(string) - k
  BY AtLoopTypes
<1>2. string \in Seq(Char) /\ substr \in Seq(Char) /\ replacement \in Seq(Char) /\ substr # <<>>
  BY DEF Arguments
<1>3. newstr = strdup(Cat(w, r)) /\ head = Len(w) /\ Passed(P, string, substr, k)
  BY DEF AtLoop
<1>4. /\ Matches(r, substr) = {} => tok = -1
      /\ \A i : FirstFrom(i, r, substr, 0) => tok = Len(w) + i
  <2> HIDE DEF w, r
  <2> QED  BY ONLY <1>1, <1>2, <1>3, Found
<1>5. PICK i \in Matches(r, substr) : \A j \in Matches(r, substr) : i <= j
  <2>1. Matches(r, substr) # {}
    BY <1>4
  <2>2. Matches(r, substr) \in SUBSET Nat
    BY DEF Matches
  <2> HIDE DEF r
  <2> QED  BY <2>1, <2>2, MinOfNats
<1>6. i \in Nat /\ FirstFrom(i, r, substr, 0)
  <2>1. Matches(r, substr) \in SUBSET Nat
    BY DEF Matches
  <2> HIDE DEF r
  <2> QED  BY <1>5, <2>1 DEF FirstFrom
<1>7. tok = Len(w) + i
  BY <1>4, <1>6
<1>8. PICK m \in Nat : m = k + i
  BY <1>6
<1>9. FirstFrom(m, string, substr, k)
  BY <1>2, <1>6, <1>8, FirstBehind
<1>10. PICK L \in Nat : L = Len(substr) /\ L > 0
  BY <1>2, EmptySeq
<1>11. PICK l \in 0 .. Len(string) : l = m + L
  <2>1. m \in Matches(string, substr)
    BY <1>9 DEF FirstFrom
  <2> QED  BY <1>2, <1>10, <2>1 DEF Matches
<1> DEFINE Q == P \cup {m}
<1>12. Passed(Q, string, substr, l)
  <2>1. k \in Nat
    BY <1>2
  <2>2. Passed(P \cup {m}, string, substr, m + Len(substr))
    BY ONLY <1>2, <1>3, <1>9, <2>1, PassGoesOn
  <2> QED  BY <1>10, <1>11, <2>2
<1>13. Done(Q, l) = Cat(w, Cat(SubSeq(string, k + 1, m), replacement))
  <2>1. k \in Nat
    BY <1>2
  <2>2. With(P \cup {m}, string, Len(substr), replacement, m + Len(substr))
           = Cat(With(P, string, Len(substr), replacement, k), Cat(SubSeq(string, k + 1, m), replacement))
    <3>1. OneMore(P, string, substr, replacement, k, m)
      BY ONLY <1>2, <1>3, <1>9, <2>1, WithOneMore
    <3> QED  BY <3>1, Zenon DEF OneMore
  <2> QED  BY <1>10, <1>11, <2>2 DEF Done
<1>14. m \in k .. Len(string) /\ l \in k .. Len(string) /\ i = m - k /\ i + Len(substr) = l - k /\ l > k
  BY <1>2, <1>6, <1>8, <1>10, <1>11
<1>15. Ahead(r, i) = SubSeq(string, k + 1, m)
  BY <1>2, <1>14, AheadOfBehind
<1>16. Behind(r, i + Len(substr)) = Behind(string, l)
  BY <1>2, <1>14, BehindOfBehind
<1>17. rewritten = strdup(Cat(Cat(w, Cat(Ahead(r, i), replacement)), Behind(r, i + Len(substr))))
  <2> HIDE DEF w, r
  <2> QED  BY ONLY <1>1, <1>2, <1>3, <1>5, <1>7, Rewritten
<1> HIDE DEF w, r
<1>18. rewritten = strdup(Cat(Done(Q, l), Behind(string, l)))
  BY <1>13, <1>15, <1>16, <1>17, Zenon
<1>19. afterReplacement = Len(Done(Q, l))
  <2>1. i \in 0 .. Len(r)
    <3>1. Len(r) \in Nat
      BY <1>1
    <3> QED  BY <1>1, <1>2, <1>14, <3>1
  <2>2. PICK a \in Seq(Char) : a = Ahead(r, i) /\ Len(a) = i
    BY <1>1, <2>1, Cut
  <2>3. Cat(a, replacement) \in Seq(Char) /\ Len(Cat(a, replacement)) = i + Len(replacement)
    BY <1>2, <2>2, CatType
  <2>4. Len(Cat(w, Cat(a, replacement))) = Len(w) + (i + Len(replacement))
    <3>1. PICK c \in Seq(Char) : c = Cat(a, replacement)
      BY <2>3
    <3>2. Len(Cat(w, c)) = Len(w) + Len(c)
      BY <1>1, CatType
    <3> QED  BY <2>3, <3>1, <3>2
  <2>5. Done(Q, l) = Cat(w, Cat(a, replacement))
    BY <1>13, <1>15, <2>2
  <2>6. Len(w) \in Nat /\ Len(replacement) \in Nat
    BY <1>1, <1>2
  <2> QED  BY <1>6, <1>7, <2>4, <2>5, <2>6 DEF afterReplacement
<1>20. Q \in SUBSET (0 .. Len(string))
  BY <1>2, <1>14
<1>21. Turned(P, k, m)
  BY <1>10, <1>11, <1>12, <1>14, <1>18, <1>19, <1>20 DEF Turned
<1> QED  BY <1>21

\* When nothing is found the buffer holds the result.
LEMMA Finish ==
  ASSUME Arguments, NEW k \in 0 .. Len(string), NEW P, AtLoop(P, k), tok < 0
  PROVE  newstr = strdup(Replaced(string, substr, replacement))
<1> DEFINE w == Done(P, k)
           r == Behind(string, k)
<1>1. w \in Seq(Char) /\ r \in Seq(Char)
  BY AtLoopTypes
<1>2. string \in Seq(Char) /\ substr \in Seq(Char) /\ replacement \in Seq(Char) /\ substr # <<>>
  BY DEF Arguments
<1>3. newstr = strdup(Cat(w, r)) /\ head = Len(w) /\ Passed(P, string, substr, k)
  BY DEF AtLoop
<1>4. \A i : FirstFrom(i, r, substr, 0) => tok = Len(w) + i
  <2> HIDE DEF w, r
  <2> QED  BY ONLY <1>1, <1>2, <1>3, Found
<1>5. Matches(r, substr) = {}
  <2>1. SUFFICES ASSUME Matches(r, substr) # {} PROVE FALSE
    OBVIOUS
  <2>2. Matches(r, substr) \in SUBSET Nat
    BY DEF Matches
  <2> HIDE DEF w, r
  <2>3. PICK i \in Matches(r, substr) : \A j \in Matches(r, substr) : i <= j
    BY <2>1, <2>2, MinOfNats
  <2>4. i \in Nat /\ FirstFrom(i, r, substr, 0)
    BY <2>2, <2>3 DEF FirstFrom
  <2>5. tok = Len(w) + i /\ Len(w) \in Nat
    BY <1>1, <1>4, <2>4
  <2> QED  BY <2>4, <2>5
<1>6. \A j \in Matches(string, substr) : j < k
  BY <1>2, <1>5, FirstBehind
<1>7. Replaced(string, substr, replacement) = Cat(w, r)
  BY <1>2, <1>3, <1>6, ReplacedAll DEF Done
<1> QED  BY <1>3, <1>7

\* Nothing is done at the start of a call.
LEMMA Begin ==
  ASSUME Arguments, newstr = strdup(string), head = 0
  PROVE  LoopOK
<1>1. string \in Seq(Char) /\ substr \in Seq(Char) /\ substr # <<>>
  BY DEF Arguments
<1>2. Passed({}, string, substr, 0)
  BY <1>1, PassStarts
<1>3. Done({}, 0) = <<>>
  BY WithNone DEF Done
<1>4. Behind(string, 0) = string
  <2>1. 0 \in 0 .. Len(string)
    BY <1>1
  <2>2. /\ Ahead(string, 0) \in Seq(Char) /\ Len(Ahead(string, 0)) = 0
        /\ Behind(string, 0) \in Seq(Char) /\ Cat(Ahead(string, 0), Behind(string, 0)) = string
    BY <1>1, <2>1, Cut
  <2>3. Ahead(string, 0) = <<>>
    BY <2>2, EmptySeq
  <2> QED  BY <2>2, <2>3, CatEmpty
<1>5. Cat(<<>>, string) = string
  BY <1>1, CatEmpty
<1>6. AtLoop({}, 0)
  <2>1. Len(<<>>) = 0
    BY EmptySeq
  <2> QED  BY <1>2, <1>3, <1>4, <1>5, <2>1 DEF AtLoop
<1>7. 0 \in 0 .. Len(string) /\ {} \in SUBSET (0 .. Len(string))
  BY <1>1
<1> QED  BY <1>6, <1>7 DEF LoopOK

-----------------------------------------------------------------------------
(* Every step keeps it.                                                      *)

\* The invariant, one action after the other.
LEMMA InitPathInv == ASSUME Init PROVE PathInv
<1>1. Given
  <2>1. \A m \in Mounts : m[1] \in Seq(Char) \ {<<>>} /\ m[2] \in Seq(Char)
    BY PathNamesAssumption
  <2>2. mountedDir \in (Seq(Char) \ {<<>>}) \cup {NULL} /\ alias \in Seq(Char)
    <3>1. CASE \E m \in Mounts : mountedDir = m[1] /\ alias = m[2]
      BY <2>1, <3>1
    <3>2. CASE mountedDir = NULL /\ alias = <<>>
      BY <3>2
    <3> QED  BY <3>1, <3>2 DEF Init
  <2>3. fname \in Seq(Char)
    BY PathNamesAssumption DEF Init
  <2> QED  BY <2>2, <2>3 DEF Init, Given, Arguments
<1>2. LoopOK /\ ResultOK /\ DirOK
  BY DEF Init, LoopOK, ResultOK, DirOK
<1> QED  BY <1>1, <1>2 DEF PathInv

\* A call that is given NULL is over; another one starts its search.
LEMMA DuplicatesKeeps == ASSUME PathInv, duplicates PROVE PathInv'
<1> USE DEF duplicates
<1>1. Given'
  BY DEF PathInv, Given, Arguments
<1>2. ResultOK'
  BY DEF ResultOK, Result
<1>3. LoopOK'
  <2>1. CASE substr = NULL
    BY <2>1 DEF LoopOK
  <2>2. CASE substr # NULL
    <3>1. Arguments' /\ newstr' = strdup(string') /\ head' = 0
      BY <2>2 DEF PathInv, Given, Arguments
    <3>2. (Arguments /\ newstr = strdup(string) /\ head = 0 => LoopOK)'
      BY Begin, PTL
    <3> QED  BY <3>1, <3>2
  <2> QED  BY <2>1, <2>2
<1>4. DirOK'
  BY DEF PathInv, DirOK
<1> QED  BY <1>1, <1>2, <1>3, <1>4 DEF PathInv

\* A turn moves the pass on, or finds that it is over.
LEMMA ReplacesKeeps == ASSUME PathInv, replaces PROVE PathInv'
<1> USE DEF replaces
<1>1. Given /\ Arguments /\ DirOK
  BY DEF PathInv, Given
<1>2. PICK k \in 0 .. Len(string) : \E P \in SUBSET (0 .. Len(string)) : AtLoop(P, k)
  BY DEF PathInv, LoopOK
<1>3. PICK P \in SUBSET (0 .. Len(string)) : AtLoop(P, k)
  BY <1>2
<1>4. PICK m \in Nat : Turned(P, k, m)
  BY <1>1, <1>3, Turn
<1>5. PICK l \in 0 .. Len(string) : l = m + Len(substr)
  BY <1>4 DEF Turned
<1>6. PICK Q \in SUBSET (0 .. Len(string)) : Q = P \cup {m}
  BY <1>4 DEF Turned
<1>7. Passed(Q, string, substr, l)
  BY <1>4, <1>5, <1>6 DEF Turned
<1>8. rewritten = strdup(Cat(Done(Q, l), Behind(string, l))) /\ afterReplacement = Len(Done(Q, l))
  BY <1>4, <1>5, <1>6 DEF Turned
<1>9. Done(Q, l)' = Done(Q, l)
  BY DEF Done
<1>10. AtLoop(Q, l)'
  <2>1. (Passed(Q, string, substr, l))'
    BY <1>7
  <2>2. newstr' = strdup(Cat(Done(Q, l), Behind(string, l)))
    BY <1>8
  <2>3. newstr' = strdup(Cat(Done(Q, l)', Behind(string', l)))
    BY <1>9, <2>2
  <2>4. head' = Len(Done(Q, l)')
    BY <1>8, <1>9
  <2> QED  BY <2>1, <2>3, <2>4 DEF AtLoop
<1>11. LoopOK'
  BY <1>10 DEF LoopOK
<1>12. Given' /\ DirOK' /\ ResultOK'
  BY <1>1 DEF Given, Arguments, DirOK, ResultOK
<1> QED  BY <1>11, <1>12 DEF PathInv

\* A search that finds nothing leaves the buffer as the result.
LEMMA ReturnsKeeps == ASSUME PathInv, returns PROVE PathInv'
<1> USE DEF returns
<1>1. Given /\ Arguments /\ DirOK /\ substr # NULL
  BY DEF PathInv, Given
<1>2. PICK k \in 0 .. Len(string) : \E P \in SUBSET (0 .. Len(string)) : AtLoop(P, k)
  BY DEF PathInv, LoopOK
<1>3. PICK P \in SUBSET (0 .. Len(string)) : AtLoop(P, k)
  BY <1>2
<1>4. newstr = strdup(Result(string, substr, replacement))
  BY <1>1, <1>3, Finish DEF Result
<1>5. Given' /\ DirOK' /\ ResultOK' /\ LoopOK'
  BY <1>1, <1>4 DEF Given, Arguments, DirOK, ResultOK, LoopOK
<1> QED  BY <1>5 DEF PathInv

\* The second call starts with strings of its own.
LEMMA ReplacesUpDirKeeps == ASSUME PathInv, replacesUpDir PROVE PathInv'
<1> USE DEF replacesUpDir
<1>1. Given
  BY DEF PathInv
<1>2. PICK x \in Seq(Char) : x = Result(string, substr, replacement)
  <2>1. string \in Seq(Char) /\ replacement \in Seq(Char)
        /\ (substr # NULL => substr \in Seq(Char) \ {<<>>})
    BY <1>1 DEF Given, Arguments
  <2>2. CASE substr = NULL
    BY <2>1, <2>2 DEF Result
  <2>3. CASE substr # NULL
    BY <2>1, <2>3, ReplacedType DEF Result
  <2> QED  BY <2>2, <2>3
<1>3. newstr = strdup(x)
  BY <1>2 DEF PathInv, ResultOK
<1>4. string' = x
  BY <1>3, TextOf
<1>5. Given'
  <2>1. UpDir \in Seq(Char) \ {<<>>} /\ Slash \in Seq(Char)
    BY PathNamesAssumption
  <2> QED  BY <1>1, <1>4, <2>1 DEF Given, Arguments
<1>6. LoopOK' /\ DirOK' /\ ResultOK'
  BY DEF LoopOK, DirOK, ResultOK
<1> QED  BY <1>5, <1>6 DEF PathInv

\* Every action keeps it.
LEMMA NextPathInv == ASSUME PathInv, [Next]_vars PROVE PathInv'
<1>1. CASE replaces
  BY <1>1, ReplacesKeeps
<1>2. CASE runsOutOfMemory
  BY <1>2 DEF PathInv, Given, Arguments, LoopOK, ResultOK, DirOK, runsOutOfMemory
<1>3. CASE returns
  BY <1>3, ReturnsKeeps
<1>4. CASE sends
  <2>1. Given' /\ DirOK' /\ LoopOK'
    BY <1>4 DEF PathInv, Given, Arguments, LoopOK, DirOK, sends
  <2>2. ResultOK'
    BY <1>4 DEF PathInv, ResultOK, sends
  <2> QED  BY <2>1, <2>2 DEF PathInv
<1>5. CASE replacesUpDir
  BY <1>5, ReplacesUpDirKeeps
<1>6. CASE UNCHANGED vars
  <2>1. Given' /\ DirOK' /\ ResultOK'
    BY <1>6 DEF PathInv, Given, Arguments, ResultOK, DirOK, vars
  <2>2. LoopOK'
    BY <1>6 DEF PathInv, LoopOK, AtLoop, Done, vars
  <2> QED  BY <2>1, <2>2 DEF PathInv
<1>7. CASE duplicates
  BY <1>7, DuplicatesKeeps
<1> QED  BY <1>1, <1>2, <1>3, <1>4, <1>5, <1>6, <1>7 DEF Next

\* str_replace() returns its string with what one pass finds replaced
\* (fs_client_api.c:30-50), for any strings.
THEOREM EveryOccurrence == Spec => []ReplacesEveryOccurrence
<1>1. PathInv => ReplacesEveryOccurrence
  BY DEF PathInv, ResultOK, ReplacesEveryOccurrence
<1> QED  BY <1>1, InitPathInv, NextPathInv, PTL DEF Spec

\* At the head the buffer is the part done and the end of the string.
LEMMA SplitsTheString == ASSUME PathInv PROVE HeadSplitsTheString
<1>1. SUFFICES ASSUME at = "loop"
               PROVE  \E k \in 0 .. Len(string) :
                        /\ SubSeq(Text(newstr), head + 1, strlen(newstr)) = SubSeq(string, k + 1, Len(string))
                        /\ SubSeq(Text(newstr), 1, head) = Replaced(SubSeq(string, 1, k), substr, replacement)
  BY DEF HeadSplitsTheString
<1>2. PICK k \in 0 .. Len(string) : \E P \in SUBSET (0 .. Len(string)) : AtLoop(P, k)
  BY <1>1 DEF PathInv, LoopOK
<1>3. PICK P \in SUBSET (0 .. Len(string)) : AtLoop(P, k)
  BY <1>2
<1>4. Arguments
  BY <1>1 DEF PathInv, Given
<1>5. PICK w \in Seq(Char), r \in Seq(Char) : w = Done(P, k) /\ r = Behind(string, k)
  BY <1>3, <1>4, AtLoopTypes
<1>6. PICK x \in Seq(Char) : x = Cat(w, r) /\ Len(x) = Len(w) + Len(r)
  BY CatType
<1>7. newstr = strdup(x) /\ head = Len(w)
  BY <1>3, <1>5, <1>6 DEF AtLoop
<1>8. Text(newstr) = x /\ strlen(newstr) = Len(x)
  BY <1>7, TextOf
<1>9. Ahead(x, head) = w /\ Behind(x, head) = r
  <2>1. head \in 0 .. Len(x)
    <3>1. Len(w) \in Nat /\ Len(r) \in Nat
      OBVIOUS
    <3> QED  BY <1>6, <1>7, <3>1
  <2>2. PICK a \in Seq(Char), b \in Seq(Char) :
          a = Ahead(x, head) /\ b = Behind(x, head) /\ Cat(a, b) = x /\ Len(a) = head
    BY <2>1, Cut
  <2> QED  BY <1>6, <1>7, <2>2, SamePrefix
<1>10. Replaced(Ahead(string, k), substr, replacement) = w
  <2>1. string \in Seq(Char) /\ substr \in Seq(Char) /\ replacement \in Seq(Char) /\ substr # <<>>
    BY <1>4 DEF Arguments
  <2>2. Passed(P, string, substr, k)
    BY <1>3 DEF AtLoop
  <2> QED  BY <1>5, <2>1, <2>2, ReplacedAhead DEF Done
<1>11. SubSeq(Text(newstr), head + 1, strlen(newstr)) = SubSeq(string, k + 1, Len(string))
  BY <1>5, <1>8, <1>9, Zenon DEF Behind
<1>12. SubSeq(Text(newstr), 1, head) = Replaced(SubSeq(string, 1, k), substr, replacement)
  BY <1>8, <1>9, <1>10, Zenon DEF Ahead
<1> QED  BY <1>11, <1>12

\* What is before head is final, what is behind it has not been looked at
\* (fs_client_api.c:48).
THEOREM HeadSplits == Spec => []HeadSplitsTheString
BY SplitsTheString, InitPathInv, NextPathInv, PTL DEF Spec

\* Each turn does away with an occurrence, and that has a length.
LEMMA SearchesLessStep ==
  ASSUME PathInv, at = "loop", at' = "loop", substr' = substr, Next
  PROVE  strlen(newstr') - head' < strlen(newstr) - head
<1>1. replaces
  BY DEF Next, duplicates, runsOutOfMemory, returns, sends, replacesUpDir
<1>2. Arguments
  BY DEF PathInv, Given
<1>3. PICK k \in 0 .. Len(string) : \E P \in SUBSET (0 .. Len(string)) : AtLoop(P, k)
  BY DEF PathInv, LoopOK
<1>4. PICK P \in SUBSET (0 .. Len(string)) : AtLoop(P, k)
  BY <1>3
<1>5. PICK m \in Nat : Turned(P, k, m)
  BY <1>1, <1>2, <1>4, Turn DEF replaces
<1>6. PICK l \in 0 .. Len(string) : l = m + Len(substr) /\ l > k
  BY <1>5 DEF Turned
<1>7. string \in Seq(Char) /\ replacement \in Seq(Char)
  BY <1>2 DEF Arguments
<1>8. ASSUME NEW n \in 0 .. Len(string), NEW Q
      PROVE  strlen(strdup(Cat(Done(Q, n), Behind(string, n)))) - Len(Done(Q, n)) = Len(string) - n
  <2>1. PICK w \in Seq(Char) : w = Done(Q, n)
    BY <1>7, WithType DEF Done
  <2>2. PICK r \in Seq(Char) : r = Behind(string, n) /\ Len(r) = Len(string) - n
    BY <1>7, Cut
  <2>3. PICK x \in Seq(Char) : x = Cat(w, r) /\ Len(x) = Len(w) + Len(r)
    BY CatType
  <2>4. strlen(strdup(x)) = Len(x)
    BY TextOf
  <2>5. Len(w) \in Nat /\ Len(r) \in Nat
    OBVIOUS
  <2>6. strlen(strdup(x)) - Len(w) = Len(r)
    BY <2>3, <2>4, <2>5
  <2> QED  BY <2>1, <2>2, <2>3, <2>6
<1>9. strlen(newstr) - head = Len(string) - k
  BY <1>4, <1>8 DEF AtLoop
<1>10. strlen(newstr') - head' = Len(string) - l
  <2>1. PICK Q : Q = P \cup {m}
    OBVIOUS
  <2>2. newstr' = strdup(Cat(Done(Q, l), Behind(string, l))) /\ head' = Len(Done(Q, l))
    BY <1>1, <1>5, <1>6, <2>1 DEF Turned, replaces
  <2> QED  BY <1>8, <2>2
<1>11. Len(string) \in Nat
  BY <1>7
<1> QED  BY <1>6, <1>9, <1>10, <1>11

\* A turn of the loop leaves less to search, whatever is put in
\* (fs_client_api.c:48): so it ends.
THEOREM LessIsLeft == Spec => SearchesLess
<1>1. PathInv /\ [Next]_vars =>
        [at = "loop" /\ at' = "loop" /\ substr' = substr => strlen(newstr') - head' < strlen(newstr) - head]_vars
  BY SearchesLessStep
<1> QED  BY <1>1, InitPathInv, NextPathInv, PTL DEF Spec, SearchesLess

\* The new buffer is as long as it was allocated.
LEMMA StaysInBlockStep ==
  ASSUME PathInv, at = "loop", at' = "loop", Next
  PROVE  Len(newstr') = allocated
<1>1. replaces
  BY DEF Next, duplicates, runsOutOfMemory, returns, sends, replacesUpDir
<1>2. Arguments
  BY DEF PathInv, Given
<1>3. PICK k \in 0 .. Len(string) : \E P \in SUBSET (0 .. Len(string)) : AtLoop(P, k)
  BY DEF PathInv, LoopOK
<1>4. PICK P \in SUBSET (0 .. Len(string)) : AtLoop(P, k)
  BY <1>3
<1>5. PICK w \in Seq(Char), r \in Seq(Char) : w = Done(P, k) /\ r = Behind(string, k)
  BY <1>2, <1>4, AtLoopTypes
<1>6. newstr = strdup(Cat(w, r)) /\ head = Len(w) /\ tok >= 0
  BY <1>1, <1>4, <1>5 DEF AtLoop, replaces
<1>7. PICK i \in Matches(r, substr) : tok = Len(w) + i
  BY ONLY <1>2, <1>5, <1>6, FoundAt DEF Arguments
<1>8. newstr' = strdup(Cat(Cat(w, Cat(Ahead(r, i), replacement)), Behind(r, i + Len(substr))))
  BY <1>1, <1>2, <1>5, <1>6, <1>7, Rewritten DEF Arguments, replaces
<1>9. i \in 0 .. Len(r) /\ i + Len(substr) \in 0 .. Len(r)
  <2>1. Len(substr) \in Nat /\ Len(r) \in Nat
    BY <1>2 DEF Arguments
  <2> QED  BY <2>1 DEF Matches
<1>10. PICK a \in Seq(Char), b \in Seq(Char) :
         /\ a = Ahead(r, i) /\ Len(a) = i
         /\ b = Behind(r, i + Len(substr)) /\ Len(b) = Len(r) - (i + Len(substr))
  BY <1>9, Cut
<1>11. PICK c \in Seq(Char) : c = Cat(a, replacement) /\ Len(c) = i + Len(replacement)
  BY <1>2, <1>10, CatType DEF Arguments
<1>12. PICK d \in Seq(Char) : d = Cat(w, c) /\ Len(d) = Len(w) + Len(c)
  BY CatType
<1>13. PICK e \in Seq(Char) : e = Cat(d, b) /\ Len(e) = Len(d) + Len(b)
  BY CatType
<1>14. newstr' = strdup(e)
  BY <1>8, <1>10, <1>11, <1>12, <1>13
<1>15. Len(strdup(e)) = Len(e) + 1
  BY DEF strdup
<1>16. strlen(newstr) = Len(w) + Len(r)
  <2>1. PICK x \in Seq(Char) : x = Cat(w, r) /\ Len(x) = Len(w) + Len(r)
    BY CatType
  <2> QED  BY <1>6, <2>1, TextOf
<1>17. /\ Len(w) \in Nat /\ Len(r) \in Nat /\ Len(substr) \in Nat /\ Len(replacement) \in Nat
       /\ i \in Nat
  BY <1>2, <1>9 DEF Arguments
<1>18. Len(e) + 1 = Len(w) + Len(r) - Len(substr) + Len(replacement) + 1
  <2>1. PICK W \in Nat, R \in Nat, L \in Nat, Q \in Nat, I \in Nat :
          W = Len(w) /\ R = Len(r) /\ L = Len(substr) /\ Q = Len(replacement) /\ I = i
    BY <1>17
  <2>2. Len(e) = (W + (I + Q)) + (R - (I + L))
    BY <1>10, <1>11, <1>12, <1>13, <2>1
  <2>3. (W + (I + Q)) + (R - (I + L)) + 1 = W + R - L + Q + 1
    BY ONLY <2>1
  <2> QED  BY <2>1, <2>2, <2>3
<1> QED  BY <1>14, <1>15, <1>16, <1>18 DEF allocated

\* A turn of the loop fills the block that it allocates, and writes nothing
\* behind it (fs_client_api.c:36-45).
THEOREM FillsItsBlock == Spec => StaysInBlock
<1>1. PathInv /\ [Next]_vars => [at = "loop" /\ at' = "loop" => Len(newstr') = allocated]_vars
  BY StaysInBlockStep
<1> QED  BY <1>1, InitPathInv, NextPathInv, PTL DEF Spec, StaysInBlock

\* One occurrence, at the start.
LEMMA ReplacedAtStart ==
  ASSUME NEW s \in Seq(Char), NEW sub \in Seq(Char), NEW rep \in Seq(Char), NEW rest \in Seq(Char),
         sub # <<>>, s = Cat(sub, rest), Matches(s, sub) = {0}
  PROVE  Replaced(s, sub, rep) = Cat(rep, rest)
<1>1. PICK L \in Nat : L = Len(sub) /\ L > 0
  BY EmptySeq
<1>2. Passed({}, s, sub, 0)
  BY PassStarts
<1>3. FirstFrom(0, s, sub, 0)
  BY DEF FirstFrom
<1>4. PICK P : P = {} \cup {0}
  OBVIOUS
<1>5. Passed(P, s, sub, L)
  <2>1. Passed({} \cup {0}, s, sub, 0 + Len(sub))
    BY <1>2, <1>3, PassGoesOn
  <2>2. 0 + Len(sub) = L
    BY <1>1
  <2> QED  BY <1>4, <2>1, <2>2
<1>6. With(P, s, L, rep, L) = rep
  <2>1. OneMore({}, s, sub, rep, 0, 0)
    BY <1>2, <1>3, WithOneMore
  <2>2. 0 + Len(sub) = L
    BY <1>1
  <2>3. With({}, s, Len(sub), rep, 0) = <<>>
    BY WithNone
  <2>4. SubSeq(s, 0 + 1, 0) = <<>>
    BY SubSeqEmpty
  <2>5. Cat(<<>>, rep) = rep
    BY CatEmpty
  <2> QED  BY <1>1, <1>4, <2>1, <2>2, <2>3, <2>4, <2>5, Zenon DEF OneMore
<1>7. L \in 0 .. Len(s)
  <2>1. Len(Cat(sub, rest)) = Len(sub) + Len(rest) /\ Len(rest) \in Nat
    BY CatType
  <2> QED  BY <1>1, <2>1
<1>8. Replaced(s, sub, rep) = Cat(With(P, s, Len(sub), rep, L), Behind(s, L))
  <2>1. \A j \in Matches(s, sub) : j < L
    BY <1>1
  <2> QED  BY <1>5, <1>7, <2>1, ReplacedAll
<1>9. Behind(s, L) = rest
  <2>1. PICK a \in Seq(Char), b \in Seq(Char) :
          a = Ahead(s, L) /\ b = Behind(s, L) /\ Cat(a, b) = s /\ Len(a) = L
    BY <1>7, Cut
  <2> QED  BY <1>1, <2>1, SamePrefix
<1> QED  BY <1>1, <1>6, <1>8, <1>9

\* A name that starts with the folder has its first occurrence at 0.
LEMMA BecomesAlias == ASSUME PathInv PROVE MountNameBecomesAlias
<1>1. SUFFICES ASSUME at = "sends", call = "fsOpenDir", mountedDir # NULL, NEW rest \in Names,
                      fname = mountedDir \o rest, Matches(fname, mountedDir) = {0}
               PROVE  Text(newstr) = alias \o rest
  BY DEF MountNameBecomesAlias
<1>2. rest \in Seq(Char)
  BY PathNamesAssumption
<1>3. fname \in Seq(Char) /\ mountedDir \in Seq(Char) /\ mountedDir # <<>> /\ alias \in Seq(Char)
  BY <1>1 DEF PathInv, Given
<1>4. newstr = strdup(Replaced(fname, mountedDir, alias))
  BY <1>1 DEF PathInv, ResultOK, DirOK, Result
<1>5. fname = Cat(mountedDir, rest)
  BY <1>1, Zenon DEF Cat
<1>6. Replaced(fname, mountedDir, alias) = Cat(alias, rest)
  BY <1>1, <1>2, <1>3, <1>5, ReplacedAtStart
<1>7. Cat(alias, rest) \in Seq(Char)
  BY <1>2, <1>3, CatType
<1>8. Text(newstr) = Cat(alias, rest)
  BY <1>4, <1>6, <1>7, TextOf
<1> QED  BY <1>8, Zenon DEF Cat

\* A name below the mounted folder is sent as the same name below the alias
\* (fs_client_api.c:97).
THEOREM MountsAreTranslated == Spec => []MountNameBecomesAlias
BY BecomesAlias, InitPathInv, NextPathInv, PTL DEF Spec

=============================================================================
