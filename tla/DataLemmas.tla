----------------------------- MODULE DataLemmas -----------------------------
(* Facts about naturals and sequences that the proofs of several components  *)
(* rest on: the least element of a set of naturals, induction up to a bound, *)
(* ints of two digits, a stream cut in two, and what FlattenSeq returns.     *)
EXTENDS Integers, SequencesExt, SequenceTheorems, WellFoundedInduction, TLAPS

\* A nonempty set of naturals has a least element, the one Min chooses.
LEMMA MinOfNats ==
  ASSUME NEW I \in SUBSET Nat, I # {}
  PROVE  Min(I) \in I /\ \A j \in I : Min(I) <= j
<1> DEFINE R == OpToRel(<, Nat)
<1>1. R = {ss \in Nat \X Nat : ss[1] < ss[2]}
  BY Zenon DEF OpToRel
<1>2. IsWellFoundedOn(R, Nat)
  BY Zenon, NatLessThanWellFounded
<1> HIDE DEF R
<1>3. PICK x \in I : \A y \in I : ~ (<<y, x>> \in R)
  BY <1>2, WFMin, Zenon
<1>4. \A y \in I : x =< y
  <2>1. SUFFICES ASSUME NEW y \in I, y < x  PROVE FALSE
    OBVIOUS
  <2>2. <<y, x>> \in Nat \X Nat
    OBVIOUS
  <2>3. <<y, x>> \in R
    BY <1>1, <2>1, <2>2
  <2> QED  BY <1>3, <2>3
<1> QED  BY <1>4 DEF Min

\* The lesser of two ints.
LEMMA MinOfTwo ==
  ASSUME NEW a \in Int, NEW b \in Int
  PROVE  Min({a, b}) = IF a <= b THEN a ELSE b
<1> DEFINE m == IF a <= b THEN a ELSE b
<1>1. m \in {a, b} /\ \A y \in {a, b} : m <= y
  OBVIOUS
<1>2. \A x \in {a, b} : (\A y \in {a, b} : x <= y) => x = m
  OBVIOUS
<1>3. (CHOOSE x \in {a, b} : \A y \in {a, b} : x <= y) = m
  <2> HIDE DEF m
  <2> QED  BY <1>1, <1>2
<1> QED  BY <1>3 DEF Min

\* Induction: a set of naturals that holds the successor of each of its members
\* below n, and 0, holds all up to n.
LEMMA BoundedInduction ==
  ASSUME NEW n \in Nat, NEW G, 0 \in G, \A k \in 0 .. n - 1 : k \in G => k + 1 \in G
  PROVE  \A k \in 0 .. n : k \in G
<1> DEFINE Bad == {k \in 0 .. n : k \notin G}
<1>1. SUFFICES ASSUME Bad # {} PROVE FALSE
  OBVIOUS
<1>2. PICK m \in Bad : \A j \in Bad : m <= j
  <2>1. Bad \in SUBSET Nat
    OBVIOUS
  <2> QED  BY <1>1, <2>1, MinOfNats
<1>3. m \in 0 .. n /\ m # 0
  OBVIOUS
<1>4. m - 1 \in 0 .. n - 1 /\ m - 1 \in G
  BY <1>2, <1>3
<1>5. m - 1 + 1 \in G
  BY <1>4
<1> QED  BY <1>3, <1>5

-----------------------------------------------------------------------------
(* Division, and ints of two digits.                                         *)

\* Division by b.
LEMMA Division ==
  ASSUME NEW n \in Int, NEW b \in Nat, b > 1
  PROVE  n % b \in 0 .. b - 1 /\ n \div b \in Int /\ n = (b * (n \div b)) + (n % b)
  OBVIOUS

\* A number has one quotient and one remainder.
LEMMA DivisionIsUnique ==
  ASSUME NEW b \in Nat, b > 1, NEW q \in Int, NEW r \in 0 .. b - 1
  PROVE  (b * q + r) % b = r /\ (b * q + r) \div b = q
  OBVIOUS

\* The quotient of a number of two digits is a digit.
LEMMA Quotient ==
  ASSUME NEW b \in Nat, b > 1, NEW m \in 0 .. b * b - 1
  PROVE  m \div b \in 0 .. b - 1
<1> DEFINE q == m \div b
<1>1. q \in Int /\ m = b * q + (m % b) /\ m % b \in 0 .. b - 1
  BY Division
<1> HIDE DEF q
<1>2. q >= 0
  <2>1. SUFFICES ASSUME q <= -1 PROVE FALSE
    BY <1>1
  <2>2. \A x \in Nat : b * x >= 0
    OBVIOUS
  <2>3. b * (-1 - q) >= 0
    BY <1>1, <2>1, <2>2
  <2>4. b * (-1 - q) = -b - b * q
    BY <1>1
  <2> QED  BY <1>1, <2>3, <2>4
<1>3. q <= b - 1
  <2>1. SUFFICES ASSUME q >= b PROVE FALSE
    BY <1>1
  <2>2. \A x \in Nat : b * x >= 0
    OBVIOUS
  <2>3. b * (q - b) >= 0
    BY <1>1, <2>1, <2>2
  <2>4. b * (q - b) = b * q - b * b
    BY <1>1
  <2> QED  BY <1>1, <2>3, <2>4
<1> QED  BY <1>1, <1>2, <1>3 DEF q

\* The two digits of an int, and the int of two digits in two's complement.
LowDigit(b, i)  == i % b
HighDigit(b, i) == (i % (b * b)) \div b
Signed(b, m)    == ((m + ((b * b) \div 2)) % (b * b)) - ((b * b) \div 2)

\* What is written is what is read.
LEMMA TwosComplement ==
  ASSUME NEW b \in Nat, b > 1, b % 2 = 0,
         NEW i \in -((b * b) \div 2) .. ((b * b) \div 2) - 1
  PROVE  /\ LowDigit(b, i) \in 0 .. b - 1 /\ HighDigit(b, i) \in 0 .. b - 1
         /\ Signed(b, LowDigit(b, i) + b * HighDigit(b, i)) = i
<1> DEFINE w == b * b
           h == w \div 2
<1>0. w = b * b /\ h = w \div 2 /\ i \in -h .. h - 1
  OBVIOUS
<1> HIDE DEF w, h
<1>1. w \in Nat /\ h \in Nat /\ w = 2 * h /\ w > 1 /\ i \in Int /\ i >= -h /\ i < h
  <2> DEFINE c == b \div 2
  <2>1. c \in Int /\ b = 2 * c
    BY Division
  <2> HIDE DEF c
  <2>2. w = 2 * (c * b)
    BY <1>0, <2>1
  <2>3. c * b \in Int /\ 2 * (c * b) + 0 = w /\ 0 \in 0 .. 1
    BY <2>1, <2>2
  <2>4. h = c * b
    BY <1>0, <2>3, DivisionIsUnique
  <2>5. w > 1
    BY <1>0, <2>1
  <2>6. w \in Nat
    BY <1>0
  <2> QED  BY <1>0, <2>2, <2>3, <2>4, <2>5, <2>6
<1> DEFINE m == i % w
<1>2. m = IF i >= 0 THEN i ELSE i + w
  <2>1. CASE i >= 0
    <3>1. w * 0 + i = i /\ i \in 0 .. w - 1
      BY <1>1, <2>1
    <3> QED  BY <1>1, <2>1, <3>1, DivisionIsUnique
  <2>2. CASE i < 0
    <3>1. w * (-1) + (i + w) = i /\ i + w \in 0 .. w - 1 /\ -1 \in Int
      BY <1>1, <2>2
    <3>2. (w * (-1) + (i + w)) % w = i + w
      BY <1>1, <3>1, DivisionIsUnique
    <3> QED  BY <1>1, <2>2, <3>1, <3>2
  <2> QED  BY <1>1, <2>1, <2>2
<1> HIDE DEF m
<1>3. m \in 0 .. w - 1 /\ m % b = i % b
  <2>1. m \in 0 .. w - 1
    BY <1>1, <1>2
  <2>2. CASE i >= 0
    BY <1>2, <2>1, <2>2
  <2>3. CASE i < 0
    <3> DEFINE q == i \div b
               r == i % b
    <3>1. q \in Int /\ r \in 0 .. b - 1 /\ i = b * q + r
      BY <1>1, Division
    <3> HIDE DEF q, r
    <3>2. m = b * (q + b) + r /\ q + b \in Int
      BY <1>0, <1>1, <1>2, <2>3, <3>1
    <3>3. (b * (q + b) + r) % b = r
      <4> DEFINE p == q + b
      <4>1. p \in Int
        BY <3>2
      <4> HIDE DEF p
      <4>2. (b * p + r) % b = r
        BY <3>1, <4>1, DivisionIsUnique
      <4> QED  BY <4>2 DEF p
    <3>4. m % b = r
      BY <3>2, <3>3
    <3> QED  BY <2>1, <3>4 DEF r
  <2> QED  BY <1>1, <2>1, <2>2, <2>3
<1>4. m \div b \in 0 .. b - 1
  BY <1>0, <1>3, Quotient
<1>5. m = (i % b) + b * (m \div b)
  <2>1. m = (b * (m \div b)) + (m % b)
    BY <1>1, <1>3, Division
  <2> QED  BY <1>1, <1>3, <1>4, <2>1
<1>6. i % b \in 0 .. b - 1
  BY <1>1, Division
<1>7. (m + h) % w = i + h
  <2>1. i + h \in 0 .. w - 1
    BY <1>1
  <2>2. CASE i >= 0
    <3>1. w * 0 + (i + h) = m + h /\ 0 \in Int
      BY <1>1, <1>2, <2>2
    <3>2. (w * 0 + (i + h)) % w = i + h
      BY <1>1, <2>1, <3>1, DivisionIsUnique
    <3> QED  BY <3>1, <3>2
  <2>3. CASE i < 0
    <3>1. w * 1 + (i + h) = m + h /\ 1 \in Int
      BY <1>1, <1>2, <2>3
    <3>2. (w * 1 + (i + h)) % w = i + h
      BY <1>1, <2>1, <3>1, DivisionIsUnique
    <3> QED  BY <3>1, <3>2
  <2> QED  BY <1>1, <2>2, <2>3
<1>8. ((m + h) % w) - h = i
  BY <1>1, <1>7
<1> QED  BY <1>4, <1>5, <1>6, <1>8 DEF m, h, w, LowDigit, HighDigit, Signed

-----------------------------------------------------------------------------
(* Sequences in parts.  The provers expand \o wherever they see it, and get  *)
(* lost: in these facts it has a name that they do not look into.            *)

Cat(s, t)    == s \o t
Ahead(s, n)  == SubSeq(s, 1, n)
Behind(s, n) == SubSeq(s, n + 1, Len(s))

\* The length of two sequences together.
LEMMA CatType ==
  ASSUME NEW T, NEW s \in Seq(T), NEW t \in Seq(T)
  PROVE  Cat(s, t) \in Seq(T) /\ Len(Cat(s, t)) = Len(s) + Len(t)
  BY DEF Cat

\* Brackets do not matter,
LEMMA CatAssociative ==
  ASSUME NEW T, NEW s \in Seq(T), NEW t \in Seq(T), NEW u \in Seq(T)
  PROVE  Cat(Cat(s, t), u) = Cat(s, Cat(t, u))
  BY ConcatAssociative, SMTT(60) DEF Cat

\* nor does the empty sequence.
LEMMA CatEmpty ==
  ASSUME NEW T, NEW s \in Seq(T)
  PROVE  Cat(s, <<>>) = s /\ Cat(<<>>, s) = s
  BY ConcatEmptySeq DEF Cat

\* Nothing is made of nothing only.
LEMMA CatIsEmpty ==
  ASSUME NEW T, NEW s \in Seq(T), NEW t \in Seq(T), Cat(s, t) = <<>>
  PROVE  s = <<>> /\ t = <<>>
<1>1. Len(s) \in Nat /\ Len(t) \in Nat /\ Len(Cat(s, t)) = 0
  OBVIOUS
<1>2. Len(Cat(s, t)) = Len(s) + Len(t)
  BY CatType
<1>3. \A m, n \in Nat : m + n = 0 => m = 0 /\ n = 0
  OBVIOUS
<1>4. Len(s) = 0 /\ Len(t) = 0
  BY ONLY <1>1, <1>2, <1>3
<1> QED  BY <1>4, EmptySeq

\* A sequence cut in two.
LEMMA Cut ==
  ASSUME NEW T, NEW s \in Seq(T), NEW n \in 0 .. Len(s)
  PROVE  /\ Ahead(s, n) \in Seq(T) /\ Len(Ahead(s, n)) = n
         /\ Behind(s, n) \in Seq(T) /\ Len(Behind(s, n)) = Len(s) - n
         /\ Cat(Ahead(s, n), Behind(s, n)) = s
<1>1. n \in Int /\ Len(s) \in Nat /\ \A i \in 1 .. Len(s) : s[i] \in T
  OBVIOUS
<1>2. Ahead(s, n) \in Seq(T) /\ Len(Ahead(s, n)) = n
  BY <1>1, SubSeqProperties DEF Ahead
<1>3. Behind(s, n) \in Seq(T) /\ Len(Behind(s, n)) = Len(s) - n
  BY <1>1, SubSeqProperties DEF Behind
<1>4. SubSeq(s, 1, n) \o SubSeq(s, n + 1, Len(s)) = SubSeq(s, 1, Len(s))
  <2>1. 1 \in 1 .. Len(s) + 1 /\ n \in 1 - 1 .. Len(s) /\ Len(s) \in n .. Len(s)
    BY <1>1
  <2> QED  BY <2>1, ConcatAdjacentSubSeq
<1>5. SubSeq(s, 1, Len(s)) = s
  BY SubSeqFull
<1> QED  BY <1>2, <1>3, <1>4, <1>5, Zenon DEF Cat, Ahead, Behind

\* Moving the first n of t behind s changes nothing of the whole.
LEMMA Move ==
  ASSUME NEW T, NEW s \in Seq(T), NEW t \in Seq(T), NEW n \in 0 .. Len(t)
  PROVE  /\ Cat(s, Ahead(t, n)) \in Seq(T) /\ Len(Cat(s, Ahead(t, n))) = Len(s) + n
         /\ Behind(t, n) \in Seq(T)
         /\ Cat(Cat(s, Ahead(t, n)), Behind(t, n)) = Cat(s, t)
<1>1. /\ Ahead(t, n) \in Seq(T) /\ Len(Ahead(t, n)) = n /\ Behind(t, n) \in Seq(T)
      /\ Cat(Ahead(t, n), Behind(t, n)) = t
  BY Cut
<1>2. Cat(s, Ahead(t, n)) \in Seq(T) /\ Len(Cat(s, Ahead(t, n))) = Len(s) + n
  BY <1>1, CatType
<1>3. Cat(Cat(s, Ahead(t, n)), Behind(t, n)) = Cat(s, Cat(Ahead(t, n), Behind(t, n)))
  BY <1>1, CatAssociative
<1> QED  BY <1>1, <1>2, <1>3

\* The same with more behind it.
LEMMA MoveAhead ==
  ASSUME NEW T, NEW s \in Seq(T), NEW t \in Seq(T), NEW u \in Seq(T), NEW n \in 0 .. Len(t)
  PROVE  Cat(Cat(s, Ahead(t, n)), Cat(Behind(t, n), u)) = Cat(s, Cat(t, u))
<1>1. /\ Cat(s, Ahead(t, n)) \in Seq(T) /\ Behind(t, n) \in Seq(T)
      /\ Cat(Cat(s, Ahead(t, n)), Behind(t, n)) = Cat(s, t)
  BY Move
<1>2. Cat(Cat(Cat(s, Ahead(t, n)), Behind(t, n)), u) = Cat(Cat(s, Ahead(t, n)), Cat(Behind(t, n), u))
  BY <1>1, CatAssociative
<1>3. Cat(Cat(s, t), u) = Cat(s, Cat(t, u))
  BY CatAssociative
<1> QED  BY <1>1, <1>2, <1>3

\* Parts of the same length are the same.
LEMMA SamePrefix ==
  ASSUME NEW T, NEW a \in Seq(T), NEW b \in Seq(T), NEW x \in Seq(T), NEW y \in Seq(T),
         Cat(a, b) = Cat(x, y), Len(a) = Len(x)
  PROVE  a = x /\ b = y
<1>1. /\ Len(a) \in Nat /\ Len(b) \in Nat /\ Len(x) \in Nat /\ Len(y) \in Nat
      /\ Len(Cat(a, b)) = Len(a) + Len(b) /\ Len(Cat(x, y)) = Len(x) + Len(y)
  <2>1. Len(Cat(a, b)) = Len(a) + Len(b) /\ Len(Cat(x, y)) = Len(x) + Len(y)
    BY CatType
  <2>2. Len(a) \in Nat /\ Len(b) \in Nat
    BY LenProperties
  <2>3. Len(x) \in Nat /\ Len(y) \in Nat
    BY LenProperties
  <2> QED  BY ONLY <2>1, <2>2, <2>3
<1>2. Len(b) = Len(y)
  BY <1>1
<1>3. ASSUME NEW i \in 1 .. Len(a) PROVE a[i] = x[i]
  <2>1. i \in 1 .. Len(a) + Len(b) /\ i \in 1 .. Len(x) + Len(y) /\ i <= Len(a) /\ i <= Len(x)
    BY <1>1
  <2>2. Cat(a, b)[i] = a[i]
    BY <2>1, ConcatProperties DEF Cat
  <2>3. Cat(x, y)[i] = x[i]
    BY <2>1, ConcatProperties DEF Cat
  <2> QED  BY <2>2, <2>3
<1>4. ASSUME NEW i \in 1 .. Len(b) PROVE b[i] = y[i]
  <2>1. PICK j \in Nat : j = Len(a) + i
    BY <1>1
  <2>2. /\ j \in 1 .. Len(a) + Len(b) /\ j \in 1 .. Len(x) + Len(y)
        /\ ~ (j <= Len(a)) /\ j - Len(a) = i /\ ~ (j <= Len(x)) /\ j - Len(x) = i
    BY <1>1, <1>2, <2>1
  <2>3. Cat(a, b)[j] = b[i]
    BY <2>2, ConcatProperties DEF Cat
  <2>4. Cat(x, y)[j] = y[i]
    BY <2>2, ConcatProperties DEF Cat
  <2> QED  BY <2>3, <2>4
<1>5. a = x
  BY <1>3, SeqEqual
<1>6. b = y
  BY <1>2, <1>4, SeqEqual
<1> QED  BY <1>5, <1>6

\* Element by element.
LEMMA CatAt ==
  ASSUME NEW T, NEW s \in Seq(T), NEW t \in Seq(T), NEW i \in 1 .. Len(s) + Len(t)
  PROVE  Cat(s, t)[i] = IF i <= Len(s) THEN s[i] ELSE t[i - Len(s)]
  BY ConcatProperties DEF Cat

\* The characters in front,
LEMMA AheadAt ==
  ASSUME NEW T, NEW s \in Seq(T), NEW n \in 0 .. Len(s), NEW i \in 1 .. n
  PROVE  Ahead(s, n)[i] = s[i]
<1>1. \A x \in 1 .. n : s[x] \in T
  OBVIOUS
<1>2. SubSeq(s, 1, n)[i] = s[1 + i - 1]
  BY <1>1, SubSeqProperties
<1> QED  BY <1>2 DEF Ahead

\* and those behind.
LEMMA BehindAt ==
  ASSUME NEW T, NEW s \in Seq(T), NEW n \in 0 .. Len(s), NEW i \in 1 .. Len(s) - n
  PROVE  Behind(s, n)[i] = s[n + i]
<1>1. \A x \in n + 1 .. Len(s) : s[x] \in T
  OBVIOUS
<1>2. PICK a \in Nat, b \in Nat : a = n + 1 /\ b = Len(s)
  OBVIOUS
<1>3. i \in 1 .. b - a + 1 /\ a + i - 1 = n + i
  BY <1>2
<1>4. SubSeq(s, a, b)[i] = s[a + i - 1]
  <2>1. \A x \in a .. b : s[x] \in T
    BY <1>1, <1>2
  <2> QED  BY <1>2, <1>3, <2>1, SubSeqProperties
<1> QED  BY <1>2, <1>3, <1>4 DEF Behind

\* A piece of what is behind.
LEMMA AheadOfBehind ==
  ASSUME NEW T, NEW s \in Seq(T), NEW k \in 0 .. Len(s), NEW m \in k .. Len(s)
  PROVE  Ahead(Behind(s, k), m - k) = SubSeq(s, k + 1, m)
<1> DEFINE r == Behind(s, k)
<1>1. r \in Seq(T) /\ Len(r) = Len(s) - k
  BY Cut
<1>2. Len(s) \in Nat /\ k \in Nat /\ m \in Nat /\ m - k \in Nat /\ m - k \in 0 .. Len(s) - k
  OBVIOUS
<1>3. \A i \in 1 .. Len(s) - k : r[i] = s[k + i]
  BY BehindAt
<1> HIDE DEF r
<1>4. PICK n \in 0 .. Len(r) : n = m - k
  BY <1>1, <1>2
<1>5. Ahead(r, n) \in Seq(T) /\ Len(Ahead(r, n)) = n /\ \A i \in 1 .. n : Ahead(r, n)[i] = s[k + i]
  <2>1. Ahead(r, n) \in Seq(T) /\ Len(Ahead(r, n)) = n
    BY <1>1, Cut
  <2>2. \A i \in 1 .. n : Ahead(r, n)[i] = r[i]
    BY <1>1, AheadAt
  <2> QED  BY <1>1, <1>2, <1>3, <1>4, <2>1, <2>2
<1>6. /\ SubSeq(s, k + 1, m) \in Seq(T) /\ Len(SubSeq(s, k + 1, m)) = n
      /\ \A i \in 1 .. n : SubSeq(s, k + 1, m)[i] = s[k + i]
  <2>1. PICK a \in Nat : a = k + 1
    BY <1>2
  <2>2. \A x \in a .. m : s[x] \in T
    BY <1>2, <2>1
  <2>3. /\ SubSeq(s, a, m) \in Seq(T)
        /\ Len(SubSeq(s, a, m)) = IF a <= m THEN m - a + 1 ELSE 0
        /\ \A i \in 1 .. m - a + 1 : SubSeq(s, a, m)[i] = s[a + i - 1]
    BY <1>2, <2>2, SubSeqProperties
  <2>4. Len(SubSeq(s, a, m)) = n
    BY <1>2, <1>4, <2>1, <2>3
  <2>5. \A i \in 1 .. n : SubSeq(s, a, m)[i] = s[k + i]
    <3> TAKE i \in 1 .. n
    <3>1. i \in 1 .. m - a + 1 /\ a + i - 1 = k + i
      BY <1>2, <1>4, <2>1
    <3> QED  BY <2>3, <3>1
  <2> QED  BY <2>1, <2>3, <2>4, <2>5
<1> HIDE DEF r
<1>7. Ahead(r, n) = SubSeq(s, k + 1, m)
  BY <1>5, <1>6, SeqEqual
<1> QED  BY <1>4, <1>7 DEF r

\* What is behind that.
LEMMA BehindOfBehind ==
  ASSUME NEW T, NEW s \in Seq(T), NEW k \in 0 .. Len(s), NEW m \in k .. Len(s)
  PROVE  Behind(Behind(s, k), m - k) = Behind(s, m)
<1> DEFINE r == Behind(s, k)
           q == Behind(s, m)
<1>1. r \in Seq(T) /\ Len(r) = Len(s) - k
  BY Cut
<1>2. Len(s) \in Nat /\ k \in Nat /\ m \in Nat /\ m \in 0 .. Len(s)
  OBVIOUS
<1>3. q \in Seq(T) /\ Len(q) = Len(s) - m
  BY <1>2, Cut
<1>4. \A i \in 1 .. Len(s) - k : r[i] = s[k + i]
  BY BehindAt
<1>5. \A i \in 1 .. Len(s) - m : q[i] = s[m + i]
  BY <1>2, BehindAt
<1> HIDE DEF r, q
<1>6. PICK n \in 0 .. Len(r) : n = m - k
  BY <1>1, <1>2
<1>7. Behind(r, n) \in Seq(T) /\ Len(Behind(r, n)) = Len(r) - n /\ \A i \in 1 .. Len(r) - n : Behind(r, n)[i] = r[n + i]
  <2>1. Behind(r, n) \in Seq(T) /\ Len(Behind(r, n)) = Len(r) - n
    BY <1>1, Cut
  <2>2. \A i \in 1 .. Len(r) - n : Behind(r, n)[i] = r[n + i]
    BY <1>1, BehindAt
  <2> QED  BY <2>1, <2>2
<1>8. Len(Behind(r, n)) = Len(q)
  <2>1. PICK z \in Nat : z = Len(s)
    BY <1>2
  <2>2. Len(r) - n = z - m
    BY <1>1, <1>2, <1>6, <2>1
  <2> QED  BY <1>3, <1>7, <2>1, <2>2
<1>9. ASSUME NEW i \in 1 .. Len(q) PROVE Behind(r, n)[i] = q[i]
  <2>1. i \in 1 .. Len(s) - m /\ i \in 1 .. Len(r) - n /\ n + i \in 1 .. Len(s) - k /\ k + (n + i) = m + i
    BY <1>1, <1>2, <1>3, <1>6
  <2> QED  BY <1>4, <1>5, <1>7, <2>1
<1>10. Behind(r, n) = q
  BY <1>3, <1>7, <1>8, <1>9, SeqEqual
<1> QED  BY <1>6, <1>10 DEF r, q

-----------------------------------------------------------------------------
(* FlattenSeq.                                                               *)

\* f holds the concatenations of the first k elements of s.
IsConcats(s, f, k) ==
  \A i \in 1 .. k : f[i] = IF i = 1 THEN s[i] ELSE f[i - 1] \o s[i]

\* The recursion has a solution as far as the sequence goes.
LEMMA ConcatsExist ==
  ASSUME NEW T, NEW s \in Seq(Seq(T))
  PROVE  \E f \in [1 .. Len(s) -> Seq(T)] : IsConcats(s, f, Len(s))
<1> DEFINE n == Len(s)
           G == {k \in 0 .. n : \E f \in [1 .. k -> Seq(T)] : IsConcats(s, f, k)}
<1>1. n \in Nat /\ \A i \in 1 .. n : s[i] \in Seq(T)
  OBVIOUS
<1> HIDE DEF n
<1>2. 0 \in G
  <2>1. [i \in 1 .. 0 |-> <<>>] \in [1 .. 0 -> Seq(T)] /\ IsConcats(s, [i \in 1 .. 0 |-> <<>>], 0)
    BY DEF IsConcats
  <2>2. \E f \in [1 .. 0 -> Seq(T)] : IsConcats(s, f, 0)
    BY ONLY <2>1
  <2>3. 0 \in 0 .. n
    BY <1>1
  <2> QED  BY <2>2, <2>3, Zenon
<1>3. ASSUME NEW k \in 0 .. n - 1, k \in G PROVE k + 1 \in G
  <2>0. k \in Nat /\ k + 1 \in 0 .. n /\ k + 1 \in 1 .. n
    BY <1>1
  <2>1. PICK f \in [1 .. k -> Seq(T)] : IsConcats(s, f, k)
    BY <1>3
  <2> DEFINE new == IF k = 0 THEN s[1] ELSE f[k] \o s[k + 1]
             g   == [i \in 1 .. k + 1 |-> IF i = k + 1 THEN new ELSE f[i]]
  <2>2. new \in Seq(T)
    <3>1. k # 0 => f[k] \in Seq(T)
      BY <2>0, <2>1
    <3>2. s[k + 1] \in Seq(T)
      BY <1>1, <2>0
    <3> QED  BY <3>1, <3>2
  <2> HIDE DEF new
  <2>3. g \in [1 .. k + 1 -> Seq(T)]
    <3>1. \A i \in 1 .. k + 1 : i # k + 1 => i \in 1 .. k
      BY <2>0
    <3> QED  BY <2>1, <2>2, <3>1
  <2>4. ASSUME NEW i \in 1 .. k + 1 PROVE g[i] = IF i = 1 THEN s[i] ELSE g[i - 1] \o s[i]
    <3>1. CASE i = k + 1 /\ k = 0
      BY <3>1 DEF new
    <3>2. CASE i = k + 1 /\ k # 0
      <4>1. k \in 1 .. k + 1 /\ k # k + 1 /\ i - 1 = k /\ i # 1
        BY <2>0, <3>2
      <4>2. g[i] = new /\ g[k] = f[k]
        BY <3>2, <4>1
      <4> QED  BY <3>2, <4>1, <4>2 DEF new
    <3>3. CASE i # k + 1
      <4>1. i \in 1 .. k /\ (i # 1 => i - 1 \in 1 .. k)
        BY <2>0, <3>3
      <4>2. f[i] = IF i = 1 THEN s[i] ELSE f[i - 1] \o s[i]
        BY <2>1, <4>1 DEF IsConcats
      <4>3. g[i] = f[i]
        BY <3>3
      <4>4. i # 1 => g[i - 1] = f[i - 1]
        BY <2>0, <4>1
      <4> QED  BY <4>2, <4>3, <4>4
    <3> QED  BY <3>1, <3>2, <3>3
  <2> HIDE DEF g
  <2>5. IsConcats(s, g, k + 1)
    BY <2>4 DEF IsConcats
  <2>6. \E h \in [1 .. k + 1 -> Seq(T)] : IsConcats(s, h, k + 1)
    BY <2>3, <2>5
  <2> QED  BY <2>0, <2>6
<1>4. n \in G
  <2> HIDE DEF G
  <2>1. \A k \in 0 .. n : k \in G
    BY <1>1, <1>2, <1>3, BoundedInduction
  <2> QED  BY <1>1, <2>1
<1> QED  BY <1>4 DEF n

\* FlattenSeq of a sequence of sequences is the last of them.
LEMMA FlattenIsConcat ==
  ASSUME NEW T, NEW s \in Seq(Seq(T)), Len(s) > 0
  PROVE  \E f \in [1 .. Len(s) -> Seq(T)] : IsConcats(s, f, Len(s)) /\ FlattenSeq(s) = f[Len(s)]
<1> DEFINE n == Len(s)
           Sol(g) == g = [i \in 1 .. n |-> IF i = 1 THEN s[i] ELSE g[i - 1] \o s[i]]
<1>1. n \in Nat /\ n > 0 /\ \A i \in 1 .. n : s[i] \in Seq(T)
  OBVIOUS
<1>2. FlattenSeq(s) = (CHOOSE g : Sol(g))[n]
  BY DEF FlattenSeq
<1> HIDE DEF n
<1>3. \E g : Sol(g)
  <2>1. PICK g \in [1 .. n -> Seq(T)] : IsConcats(s, g, n)
    BY ConcatsExist DEF n
  <2>2. \A i \in 1 .. n : g[i] = IF i = 1 THEN s[i] ELSE g[i - 1] \o s[i]
    BY <2>1 DEF IsConcats
  <2>3. Sol(g)
    BY <2>1, <2>2
  <2> QED  BY <2>3
<1>4. PICK f : Sol(f) /\ FlattenSeq(s) = f[n]
  <2> HIDE DEF Sol
  <2> QED  BY <1>2, <1>3
<1>5. IsConcats(s, f, n) /\ DOMAIN f = 1 .. n
  BY <1>4 DEF IsConcats
<1> HIDE DEF Sol
<1> DEFINE G == {k \in 0 .. n : k > 0 => f[k] \in Seq(T)}
<1>6. 0 \in G
  BY <1>1
<1>7. ASSUME NEW k \in 0 .. n - 1, k \in G PROVE k + 1 \in G
  <2> DEFINE m == k + 1
  <2>1. k \in Nat /\ m \in 1 .. n /\ m \in 0 .. n /\ m = k + 1
    BY <1>1
  <2> HIDE DEF m
  <2>2. s[m] \in Seq(T)
    BY <1>1, <2>1
  <2>3. CASE k = 0
    <3>1. f[m] = s[m]
      <4>1. m = 1
        BY <2>1, <2>3
      <4> QED  BY <1>5, <2>1, <4>1 DEF IsConcats
    <3> QED  BY <2>1, <2>2, <3>1
  <2>4. CASE k # 0
    <3>1. f[m] = f[k] \o s[m]
      <4>1. m - 1 = k /\ m # 1
        BY <2>1, <2>4
      <4>2. f[m] = f[m - 1] \o s[m]
        BY <1>5, <2>1, <4>1 DEF IsConcats
      <4> QED  BY <4>1, <4>2
    <3>2. f[k] \in Seq(T)
      BY <1>7, <2>1, <2>4
    <3>3. f[m] \in Seq(T)
      BY <2>2, <3>1, <3>2
    <3> QED  BY <2>1, <3>3
  <2> QED  BY <2>3, <2>4
<1>8. \A k \in 1 .. n : f[k] \in Seq(T)
  <2>1. \A k \in 0 .. n : k \in G
    <3> HIDE DEF G
    <3> QED  BY <1>1, <1>6, <1>7, BoundedInduction
  <2> QED  BY <1>1, <2>1
<1>9. f \in [1 .. n -> Seq(T)]
  <2>1. f = [i \in 1 .. n |-> f[i]]
    BY <1>4 DEF Sol
  <2> QED  BY <1>8, <2>1
<1> QED  BY <1>4, <1>5, <1>9 DEF n

\* FlattenSeq of nothing,
LEMMA FlattenEmpty == FlattenSeq(<<>>) = <<>>
  BY DEF FlattenSeq

\* and of sequences of the same kind.
LEMMA FlattenType ==
  ASSUME NEW T, NEW s \in Seq(Seq(T))
  PROVE  FlattenSeq(s) \in Seq(T)
<1>1. CASE Len(s) = 0
  <2>1. s = <<>>
    BY <1>1, EmptySeq
  <2> QED  BY <2>1, FlattenEmpty, EmptySeq
<1>2. CASE Len(s) # 0
  <2>1. Len(s) \in Nat
    OBVIOUS
  <2>2. Len(s) \in 1 .. Len(s) /\ Len(s) > 0
    BY <1>2, <2>1
  <2>3. PICK f \in [1 .. Len(s) -> Seq(T)] : FlattenSeq(s) = f[Len(s)]
    BY <2>2, FlattenIsConcat
  <2> QED  BY <2>2, <2>3
<1> QED  BY <1>1, <1>2

\* The last element goes last.
LEMMA FlattenSnoc ==
  ASSUME NEW T, NEW s \in Seq(Seq(T)), NEW t \in Seq(Seq(T)),
         Len(t) = Len(s) + 1, \A i \in 1 .. Len(s) : t[i] = s[i]
  PROVE  FlattenSeq(t) = Cat(FlattenSeq(s), t[Len(t)])
<1> DEFINE n == Len(s)
           z == t[n + 1]
<1>1. n \in Nat /\ Len(t) = n + 1 /\ z \in Seq(T) /\ \A i \in 1 .. n : t[i] = s[i]
  OBVIOUS
<1>2. PICK f \in [1 .. Len(t) -> Seq(T)] : IsConcats(t, f, Len(t)) /\ FlattenSeq(t) = f[Len(t)]
  <2>1. Len(t) > 0
    BY <1>1
  <2> QED  BY <1>1, <2>1, FlattenIsConcat
<1>3. CASE n = 0
  <2>1. s = <<>>
    BY <1>3, EmptySeq
  <2>2. FlattenSeq(t) = t[1]
    BY <1>1, <1>2, <1>3 DEF IsConcats
  <2> HIDE DEF z, n
  <2>3. Cat(FlattenSeq(s), z) = z
    BY <1>1, <2>1, FlattenEmpty, CatEmpty
  <2>4. Len(t) = 1 /\ z = t[1]
    BY <1>1, <1>3 DEF z
  <2> QED  BY <2>2, <2>3, <2>4
<1>4. CASE n # 0
  <2>1. PICK g \in [1 .. n -> Seq(T)] : IsConcats(s, g, n) /\ FlattenSeq(s) = g[n]
    <3>1. Len(s) > 0
      BY <1>1, <1>4
    <3> QED  BY <3>1, FlattenIsConcat
  <2> HIDE DEF n
  <2> DEFINE G == {k \in 0 .. n : k > 0 => f[k] = g[k]}
  <2>2. 0 \in G
    BY <1>1
  <2>3. ASSUME NEW k \in 0 .. n - 1, k \in G PROVE k + 1 \in G
    <3>1. PICK m : m = k + 1
      OBVIOUS
    <3>2. m \in 1 .. n /\ m \in 1 .. Len(t) /\ m \in 0 .. n /\ m - 1 = k /\ (m = 1 <=> k = 0)
      BY <1>1, <3>1
    <3>3. f[m] = IF m = 1 THEN s[m] ELSE f[m - 1] \o s[m]
      BY <1>1, <1>2, <3>2 DEF IsConcats
    <3>4. g[m] = IF m = 1 THEN s[m] ELSE g[m - 1] \o s[m]
      BY <2>1, <3>2 DEF IsConcats
    <3>5. m # 1 => f[k] = g[k]
      BY <2>3, <3>2
    <3>6. f[m] = g[m]
      <4> HIDE DEF G
      <4>1. CASE m = 1
        BY <3>3, <3>4, <4>1, Zenon
      <4>2. CASE m # 1
        BY <3>2, <3>3, <3>4, <3>5, <4>2, Zenon
      <4> QED  BY <4>1, <4>2
    <3> QED  BY <3>1, <3>2, <3>6
  <2>4. f[n] = g[n]
    <3> HIDE DEF G
    <3>1. \A k \in 0 .. n : k \in G
      BY <1>1, <2>2, <2>3, BoundedInduction
    <3> USE DEF G
    <3> QED  BY <1>1, <1>4, <3>1
  <2>5. f[n + 1] = f[n] \o z
    <3>1. n + 1 \in 1 .. Len(t) /\ n + 1 # 1 /\ (n + 1) - 1 = n
      BY <1>1, <1>4
    <3>2. f[n + 1] = f[(n + 1) - 1] \o t[n + 1]
      BY <1>2, <3>1 DEF IsConcats
    <3> QED  BY <3>1, <3>2, Zenon
  <2> QED  BY <1>1, <1>2, <2>1, <2>4, <2>5, Zenon DEF Cat
<1> QED  BY <1>3, <1>4

\* The first element goes first.
LEMMA FlattenCons ==
  ASSUME NEW T, NEW x \in Seq(T), NEW s \in Seq(Seq(T)), NEW t \in Seq(Seq(T)),
         Len(t) = Len(s) + 1, t[1] = x, \A i \in 1 .. Len(s) : t[i + 1] = s[i]
  PROVE  FlattenSeq(t) = x \o FlattenSeq(s)
<1> DEFINE n == Len(s)
<1>1. n \in Nat /\ Len(t) = n + 1 /\ \A i \in 1 .. n : s[i] \in Seq(T) /\ t[i + 1] = s[i]
  OBVIOUS
<1>2. PICK f \in [1 .. Len(t) -> Seq(T)] : IsConcats(t, f, Len(t)) /\ FlattenSeq(t) = f[Len(t)]
  <2>1. Len(t) > 0
    BY <1>1
  <2> QED  BY <1>1, <2>1, FlattenIsConcat
<1>3. f[1] = x
  BY <1>1, <1>2 DEF IsConcats
<1>4. CASE n = 0
  <2>1. s = <<>>
    BY <1>4, EmptySeq
  <2>2. x \o FlattenSeq(s) = x
    BY <2>1, FlattenEmpty, ConcatEmptySeq
  <2> QED  BY <1>2, <1>3, <1>4, <2>2
<1>5. CASE n # 0
  <2>1. PICK g \in [1 .. n -> Seq(T)] : IsConcats(s, g, n) /\ FlattenSeq(s) = g[n]
    <3>1. Len(s) > 0
      BY <1>1, <1>5
    <3> QED  BY <3>1, FlattenIsConcat
  <2> HIDE DEF n
  <2> DEFINE G == {k \in 0 .. n : k > 0 => f[k + 1] = x \o g[k]}
  <2>2. 0 \in G
    BY <1>1
  <2>3. ASSUME NEW k \in 0 .. n - 1, k \in G PROVE k + 1 \in G
    <3> DEFINE m == k + 1
               l == k + 2
               y == g[k]
               z == s[m]
    <3>1. /\ k \in Nat /\ m \in 1 .. n /\ m \in 0 .. n /\ l \in 1 .. Len(t) /\ m # 0
          /\ m = k + 1 /\ l = m + 1 /\ m \in Nat
      BY <1>1
    <3> HIDE DEF m, l
    <3>2. t[l] = z /\ z \in Seq(T)
      BY <1>1, <3>1
    <3>3. f[l] = f[m] \o z
      <4>1. f[l] = f[m] \o t[l]
        <5>1. l - 1 = m /\ l # 1
          BY <3>1
        <5>2. f[l] = f[l - 1] \o t[l]
          BY <1>2, <3>1, <5>1 DEF IsConcats
        <5> QED  BY <5>1, <5>2
      <4> QED  BY <3>2, <4>1
    <3>4. f[l] = x \o g[m]
      <4>1. CASE k = 0
        <5>1. f[m] = x
          BY <1>3, <3>1, <4>1
        <5>2. g[m] = s[m]
          <6>1. m = 1
            BY <3>1, <4>1
          <6> QED  BY <2>1, <3>1, <6>1 DEF IsConcats
        <5> QED  BY <3>3, <5>1, <5>2
      <4>2. CASE k # 0
        <5>1. k \in 1 .. n
          BY <1>1, <3>1, <4>2
        <5>2. f[m] = x \o y
          BY <2>3, <3>1, <5>1
        <5>5. y \in Seq(T)
          BY <2>1, <5>1
        <5>3. g[m] = y \o z
          <6>1. m - 1 = k /\ m # 1
            BY <3>1, <4>2
          <6>2. g[m] = g[m - 1] \o s[m]
            BY <2>1, <3>1, <6>1 DEF IsConcats
          <6> QED  BY <6>1, <6>2
        <5> HIDE DEF y, z
        <5>4. (x \o y) \o z = x \o (y \o z)
          BY ONLY x \in Seq(T), <3>2, <5>5, ConcatAssociative, SMTT(60)
        <5> QED  BY <3>3, <5>2, <5>3, <5>4
      <4> QED  BY <4>1, <4>2
    <3> QED  BY <3>1, <3>4
  <2>4. n \in G
    <3> HIDE DEF G
    <3>1. \A k \in 0 .. n : k \in G
      BY <1>1, <2>2, <2>3, BoundedInduction
    <3> QED  BY <1>1, <3>1
  <2>5. f[n + 1] = x \o g[n]
    BY <1>1, <1>5, <2>4
  <2> QED  BY <1>1, <1>2, <2>1, <2>5
<1> QED  BY <1>4, <1>5

=============================================================================
