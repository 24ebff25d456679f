------------------------- MODULE SampleSessionProofs -------------------------
(* What the sample procedures return, for ints of any width, strings of any  *)
(* letters and arrays of any length: the sorted array, the five strings.     *)
EXTENDS SampleSession, DataLemmas

Digit == 0 .. Base - 1
Byte  == 0 .. Base - 1 \cup Letter \cup {NUL}

-----------------------------------------------------------------------------
(* Ints in bytes.                                                            *)

\* The width of an int.
LEMMA WidthFacts ==
  /\ Base \in Nat /\ Base > 3 /\ Width \in Nat /\ Width >= 16
  /\ Width \div 2 \in Nat /\ Width = 2 * (Width \div 2)
  /\ INT_MAX = (Width \div 2) - 1 /\ INT_MAX >= 7
<1>1. Base \in Nat /\ Base > 2 /\ Base % 2 = 0
  BY BaseAssumption, SessionAssumption
<1>2. PICK h \in Nat : h = Base \div 2 /\ Base = 2 * h
  <2>1. Base = (2 * (Base \div 2)) + (Base % 2) /\ Base \div 2 \in Int
    BY <1>1, Division
  <2> QED  BY <1>1, <2>1
<1>3. h >= 2
  BY <1>1, <1>2
<1>4. Width = 2 * (h * Base)
  BY <1>1, <1>2 DEF Width
<1>5. h * Base \in Nat /\ h * Base >= 8
  <2>1. Base >= 4
    BY <1>2, <1>3
  <2>2. \A x, y \in Nat : x >= 2 /\ y >= 4 => x * y >= 8 /\ x * y \in Nat
    OBVIOUS
  <2> QED  BY <1>1, <1>3, <2>1, <2>2
<1>6. PICK q \in Nat : q = h * Base /\ q >= 8
  BY <1>5
<1>7. Width = 2 * q /\ Width \div 2 = q
  BY <1>4, <1>6
<1>8. Base > 3
  BY <1>2, <1>3
<1> QED  BY <1>1, <1>6, <1>7, <1>8 DEF INT_MAX

\* An int, written and read.
LEMMA Encoded ==
  ASSUME NEW n \in Int
  PROVE  /\ Encode(n) \in Seq(Digit) /\ Len(Encode(n)) = 2
         /\ n \in Int32 => Decode(Encode(n)) = n
<1> DEFINE low  == LowDigit(Base, n)
           high == HighDigit(Base, n)
<1>1. Base \in Nat /\ Base > 1 /\ Base % 2 = 0 /\ Base * Base \in Nat /\ Base * Base > 1
  <2>1. Base \in Nat /\ Base > 1 /\ Base % 2 = 0
    BY BaseAssumption
  <2>2. Base * Base \in Nat /\ Base * Base > 1
    BY WidthFacts DEF Width
  <2> QED  BY <2>1, <2>2
<1>2. low \in Digit
  BY <1>1, Division DEF LowDigit, Digit
<1>3. high \in Digit
  <2>1. PICK m \in 0 .. Base * Base - 1 : m = n % (Base * Base)
    BY <1>1, Division
  <2>2. m \div Base \in 0 .. Base - 1
    BY <1>1, Quotient
  <2> QED  BY <2>1, <2>2 DEF HighDigit, Digit
<1>4. Encode(n) = <<low, high>>
  BY DEF Encode, Width, LowDigit, HighDigit
<1>5. n \in Int32 => Signed(Base, low + Base * high) = n
  <2>1. SUFFICES ASSUME n \in Int32 PROVE Signed(Base, low + Base * high) = n
    OBVIOUS
  <2>2. n \in -((Base * Base) \div 2) .. ((Base * Base) \div 2) - 1
    BY <2>1 DEF Int32, INT_MAX, Width
  <2> QED  BY <1>1, <2>2, TwosComplement
<1>6. Decode(<<low, high>>) = Signed(Base, low + Base * high)
  <2> HIDE DEF low, high
  <2> QED  BY DEF Decode, Wrap, Width, Signed
<1> HIDE DEF low, high
<1> QED  BY <1>2, <1>3, <1>4, <1>5, <1>6

\* The bytes of pairs, one pair after the other.
PairsOf(v, F) ==
  /\ Len(F) = 2 * Len(v)
  /\ \A i \in 1 .. Len(v) : F[2 * i - 1] = v[i][1] /\ F[2 * i] = v[i][2]

\* In the bytes of a sequence of pairs, pair i is at 2i - 1 and 2i.
LEMMA FlattenPairs ==
  ASSUME NEW T, NEW u \in Seq(Seq(T)), \A i \in 1 .. Len(u) : Len(u[i]) = 2
  PROVE  PairsOf(u, FlattenSeq(u))
<1> DEFINE n == Len(u)
           G == {k \in 0 .. n : PairsOf(Ahead(u, k), FlattenSeq(Ahead(u, k)))}
<1>1. n \in Nat /\ \A i \in 1 .. n : u[i] \in Seq(T) /\ Len(u[i]) = 2
  OBVIOUS
<1>2. \A k \in 0 .. n : /\ Ahead(u, k) \in Seq(Seq(T)) /\ Len(Ahead(u, k)) = k
                        /\ \A i \in 1 .. k : Ahead(u, k)[i] = u[i]
  BY Cut, AheadAt
<1>3. 0 \in G
  <2>1. Ahead(u, 0) = <<>>
    BY <1>1, <1>2, EmptySeq
  <2>2. PairsOf(<<>>, <<>>)
    BY DEF PairsOf
  <2> QED  BY <1>1, <2>1, <2>2, FlattenEmpty
<1>4. ASSUME NEW k \in 0 .. n - 1, k \in G PROVE k + 1 \in G
  <2>1. PICK m \in 1 .. n : m = k + 1
    BY <1>1
  <2>2. k \in 0 .. n /\ m \in 0 .. n
    BY <1>1
  <2>3. PICK v \in Seq(Seq(T)) : v = Ahead(u, k) /\ Len(v) = k /\ \A i \in 1 .. k : v[i] = u[i]
    BY <1>2, <2>2
  <2>4. PICK w \in Seq(Seq(T)) : w = Ahead(u, m) /\ Len(w) = m /\ \A i \in 1 .. m : w[i] = u[i]
    BY <1>2, <2>2
  <2>5. PICK F \in Seq(T) : F = FlattenSeq(v)
    BY FlattenType
  <2>6. PICK z \in Seq(T) : z = w[m] /\ z = u[m] /\ Len(z) = 2
    BY <1>1, <2>4
  <2>7. FlattenSeq(w) = Cat(F, z)
    <3>1. Len(w) = Len(v) + 1 /\ \A i \in 1 .. Len(v) : w[i] = v[i]
      <4>1. Len(w) = Len(v) + 1
        BY <2>1, <2>3, <2>4
      <4>2. ASSUME NEW i \in 1 .. Len(v) PROVE w[i] = v[i]
        <5>1. i \in 1 .. k /\ i \in 1 .. m
          BY <2>1, <2>2, <2>3
        <5> QED  BY <2>3, <2>4, <5>1
      <4> QED  BY <4>1, <4>2
    <3>2. FlattenSeq(w) = Cat(FlattenSeq(v), w[Len(w)])
      BY <3>1, FlattenSnoc
    <3> QED  BY <2>4, <2>5, <2>6, <3>2
  <2>8. Len(F) = 2 * k /\ \A i \in 1 .. k : F[2 * i - 1] = u[i][1] /\ F[2 * i] = u[i][2]
    BY <1>4, <2>3, <2>5 DEF PairsOf
  <2>9. PICK H \in Seq(T) : H = Cat(F, z) /\ Len(H) = 2 * m
    <3>1. Cat(F, z) \in Seq(T) /\ Len(Cat(F, z)) = Len(F) + Len(z)
      BY CatType
    <3> QED  BY <2>1, <2>2, <2>6, <2>8, <3>1
  <2>10. \A p \in 1 .. 2 * m : H[p] = IF p <= 2 * k THEN F[p] ELSE z[p - 2 * k]
    <3>1. \A p \in 1 .. Len(F) + Len(z) : Cat(F, z)[p] = IF p <= Len(F) THEN F[p] ELSE z[p - Len(F)]
      BY CatAt
    <3>2. Len(F) + Len(z) = 2 * m
      BY <2>1, <2>2, <2>6, <2>8
    <3> QED  BY <2>8, <2>9, <3>1, <3>2
  <2>11. ASSUME NEW i \in 1 .. m PROVE H[2 * i - 1] = w[i][1] /\ H[2 * i] = w[i][2]
    <3>1. CASE i <= k
      <4>1. i \in 1 .. k /\ 2 * i - 1 \in 1 .. 2 * m /\ 2 * i \in 1 .. 2 * m /\ 2 * i - 1 <= 2 * k /\ 2 * i <= 2 * k
        BY <2>1, <2>2, <3>1
      <4> QED  BY <2>4, <2>8, <2>10, <4>1
    <3>2. CASE i = m
      <4>1. /\ 2 * i - 1 \in 1 .. 2 * m /\ 2 * i \in 1 .. 2 * m /\ ~ (2 * i - 1 <= 2 * k) /\ ~ (2 * i <= 2 * k)
            /\ 2 * i - 1 - 2 * k = 1 /\ 2 * i - 2 * k = 2
        BY <2>1, <2>2, <3>2
      <4> QED  BY <2>6, <2>10, <3>2, <4>1
    <3>3. i <= k \/ i = m
      BY <1>1, <2>1, <2>2
    <3> QED  BY <3>1, <3>2, <3>3
  <2>12. PairsOf(w, H)
    BY <2>4, <2>9, <2>11 DEF PairsOf
  <2> QED  BY <2>1, <2>2, <2>4, <2>7, <2>9, <2>12
<1>5. n \in G
  <2> HIDE DEF G
  <2>1. \A k \in 0 .. n : k \in G
    BY <1>1, <1>3, <1>4, BoundedInduction
  <2> QED  BY <1>1, <2>1
<1>6. Ahead(u, n) = u
  BY <1>1, <1>2, SeqEqual
<1> QED  BY <1>5, <1>6

\* An array of ints is copied into bytes and back.
LEMMA BytesOfInts ==
  ASSUME NEW ar \in Seq(Int)
  PROVE  /\ Bytes(ar) \in Seq(Digit) /\ Len(Bytes(ar)) = 2 * Len(ar)
         /\ Rest(Bytes(ar)) = <<>>
         /\ ar \in Seq(Int32) => Ints(Bytes(ar)) = ar
<1> DEFINE n == Len(ar)
           u == [i \in DOMAIN ar |-> Encode(ar[i])]
           b == FlattenSeq(u)
<1>1. n \in Nat /\ DOMAIN ar = 1 .. n /\ \A i \in 1 .. n : ar[i] \in Int
  OBVIOUS
<1>2. u \in Seq(Seq(Digit)) /\ Len(u) = n /\ \A i \in 1 .. n : u[i] = Encode(ar[i]) /\ Len(u[i]) = 2
  <2>1. \A i \in 1 .. n : Encode(ar[i]) \in Seq(Digit) /\ Len(Encode(ar[i])) = 2
    BY <1>1, Encoded
  <2> QED  BY <1>1, <2>1
<1>3. b = Bytes(ar)
  BY DEF Bytes
<1> HIDE DEF u
<1>4. b \in Seq(Digit) /\ PairsOf(u, b)
  <2>1. \A i \in 1 .. Len(u) : Len(u[i]) = 2
    BY <1>2
  <2> QED  BY <1>2, <2>1, FlattenType, FlattenPairs
<1> HIDE DEF b
<1>5. Len(b) = 2 * n /\ \A i \in 1 .. n : b[2 * i - 1] = Encode(ar[i])[1] /\ b[2 * i] = Encode(ar[i])[2]
  BY <1>2, <1>4 DEF PairsOf
<1>6. Len(b) \div 2 = n
  <2>1. \A x \in Nat : (2 * x) \div 2 = x
    OBVIOUS
  <2> QED  BY <1>1, <1>5, <2>1
<1>7. Rest(b) = <<>>
  <2>1. SubSeq(b, 2 * n + 1, 2 * n) = <<>>
    BY <1>1, SubSeqEmpty
  <2> QED  BY <1>5, <1>6, <2>1 DEF Rest, IntSize
<1>8. ASSUME ar \in Seq(Int32) PROVE Ints(b) = ar
  <2>1. ASSUME NEW i \in 1 .. n PROVE Decode(SubSeq(b, 2 * (i - 1) + 1, 2 * i)) = ar[i]
    <3>1. PICK x \in Nat, y \in Nat : x = 2 * (i - 1) + 1 /\ y = 2 * i /\ x = 2 * i - 1
      BY <1>1
    <3>2. \A z \in x .. y : b[z] \in Digit
      BY <1>1, <1>4, <1>5, <3>1
    <3>3. \A p \in 1 .. y - x + 1 : SubSeq(b, x, y)[p] = b[x + p - 1]
      BY <3>2, SubSeqProperties
    <3>4. 1 \in 1 .. y - x + 1 /\ 2 \in 1 .. y - x + 1 /\ x + 1 - 1 = x /\ x + 2 - 1 = y
      BY <3>1
    <3>5. SubSeq(b, x, y)[1] = Encode(ar[i])[1] /\ SubSeq(b, x, y)[2] = Encode(ar[i])[2]
      BY <1>5, <3>1, <3>3, <3>4
    <3>6. Decode(SubSeq(b, x, y)) = Decode(Encode(ar[i]))
      BY <3>5, Zenon DEF Decode
    <3>7. ar[i] \in Int32 /\ ar[i] \in Int
      BY <1>1, <1>8
    <3> QED  BY <3>1, <3>6, <3>7, Encoded
  <2>2. Ints(b) = [i \in 1 .. n |-> ar[i]]
    BY <1>6, <2>1 DEF Ints, IntSize
  <2>3. ar = [i \in 1 .. n |-> ar[i]]
    BY <1>1
  <2> QED  BY <2>2, <2>3
<1> QED  BY <1>3, <1>4, <1>5, <1>7, <1>8

-----------------------------------------------------------------------------
(* The sort.                                                                 *)

Value == IF Reduced THEN {Reduce(i) : i \in Int32} ELSE Int32

\* The ints of C are integers.
LEMMA IntsAreInt ==
  /\ Int32 \in SUBSET Int
  /\ \A ar \in Seq(Int32) : ar \in Seq(Int)
<1>1. INT_MAX \in Int /\ -(Width \div 2) \in Int
  BY WidthFacts
<1>2. Int32 \in SUBSET Int
  BY <1>1 DEF Int32
<1>3. ASSUME NEW ar \in Seq(Int32) PROVE ar \in Seq(Int)
  <2>1. \A i \in 1 .. Len(ar) : ar[i] \in Int
    <3>1. \A i \in 1 .. Len(ar) : ar[i] \in Int32
      OBVIOUS
    <3> QED  BY <1>2, <3>1
  <2>2. ar = [i \in 1 .. Len(ar) |-> ar[i]] /\ Len(ar) \in Nat
    OBVIOUS
  <2> QED  BY <2>1, <2>2
<1> QED  BY <1>2, <1>3

\* Half an int either way, when they are reduced.
LEMMA Values ==
  /\ Value \in SUBSET Int32
  /\ Reduced => \A x, y \in Value : x - y \in Int32
<1>1. PICK n \in Nat : n = INT_MAX \div 2 /\ n > 0 /\ 2 * n <= INT_MAX
  <2>1. INT_MAX \in Nat /\ INT_MAX >= 7
    BY WidthFacts
  <2> QED  BY <2>1
<1>2. PICK h \in Nat : h = Width \div 2 /\ INT_MAX = h - 1
  BY WidthFacts
<1>3. \A i \in Int : Rem(i, n) \in Int /\ Rem(i, n) > -n /\ Rem(i, n) < n
  <2> TAKE i \in Int
  <2>1. \A x \in Int : x % n \in 0 .. n - 1
    BY <1>1
  <2>2. -i \in Int /\ (-i) % n \in 0 .. n - 1 /\ i % n \in 0 .. n - 1
    BY <2>1
  <2> QED  BY <1>1, <2>2 DEF Rem
<1>4. Int32 = -h .. h - 1
  BY <1>2 DEF Int32
<1>5. Reduced => \A x \in Value : x \in Int /\ x > -n /\ x < n
  BY <1>1, <1>3, <1>4 DEF Value, Reduce
<1>6. \A x \in Int : x > -n /\ x < n => x \in Int32
  <2> TAKE x \in Int
  <2> HAVE x > -n /\ x < n
  <2>1. -h <= x /\ x <= h - 1
    BY <1>1, <1>2
  <2>2. x \in -h .. h - 1
    BY <1>2, <2>1
  <2> QED  BY <1>4, <2>2
<1>7. Value \in SUBSET Int32
  <2>1. CASE Reduced
    BY <1>5, <1>6, <2>1
  <2>2. CASE ~ Reduced
    BY <2>2 DEF Value
  <2> QED  BY <2>1, <2>2
<1>8. \A x, y \in Int : x > -n /\ x < n /\ y > -n /\ y < n => x - y \in Int32
  <2> TAKE x, y \in Int
  <2> HAVE x > -n /\ x < n /\ y > -n /\ y < n
  <2>1. -h <= x - y /\ x - y <= h - 1
    BY <1>1, <1>2
  <2>2. x - y \in -h .. h - 1
    BY <1>2, <2>1
  <2> QED  BY <1>4, <2>2
<1> QED  BY <1>5, <1>7, <1>8

\* A difference that fits is the difference.
LEMMA Compared ==
  ASSUME NEW x \in Int, NEW y \in Int, x - y \in Int32, compar(x, y) <= 0
  PROVE  x <= y
<1>1. PICK h \in Nat : h = Width \div 2 /\ Width = 2 * h /\ INT_MAX = h - 1 /\ h > 0
  BY WidthFacts
<1>2. PICK d \in Int : d = x - y
  OBVIOUS
<1>3. d >= -h /\ d < h
  BY <1>1, <1>2 DEF Int32
<1>4. (d + h) % (2 * h) = d + h
  <2>1. PICK w \in Nat : w = 2 * h /\ w > 0
    BY <1>1
  <2>2. \A z \in 0 .. w - 1 : z % w = z
    BY <2>1
  <2>3. d + h \in 0 .. w - 1
    BY <1>3, <2>1
  <2> QED  BY <2>1, <2>2, <2>3
<1>5. Wrap(d) = d
  <2>1. Wrap(d) = ((d + h) % (2 * h)) - h
    BY <1>1 DEF Wrap
  <2> QED  BY <1>4, <2>1
<1> QED  BY <1>2, <1>5 DEF compar

\* An array of testsort.
LEMMA Arrays ==
  ASSUME NEW ar \in Array
  PROVE  ar \in Seq(Value) /\ DOMAIN ar = 1 .. Len(ar)
<1>1. PICK k \in 1 .. maxarsize : ar \in [1 .. k -> Value]
  BY DEF Array, UpTo, Value
<1>2. k \in Nat
  BY SessionAssumption
<1> QED  BY <1>1, <1>2

\* What qsort() leaves is an array of the same values.
LEMMA Sorted ==
  ASSUME NEW ar \in Seq(Value), NEW t \in qsort(ar)
  PROVE  t \in Seq(Value) /\ Len(t) = Len(ar) /\ t \in Permuted(ar)
<1>1. t \in Permuted(ar)
  BY DEF qsort
<1>2. t \in [DOMAIN ar -> ToSet(ar)]
  BY <1>1 DEF Permuted
<1>3. ToSet(ar) \in SUBSET Value /\ DOMAIN ar = 1 .. Len(ar) /\ Len(ar) \in Nat
  BY DEF ToSet
<1> QED  BY <1>1, <1>2, <1>3

\* Of reduced values every two neighbours are in order.
LEMMA InOrder ==
  ASSUME Reduced, NEW ar \in Seq(Value), NEW t \in qsort(ar), NEW i \in 1 .. Len(ar) - 1
  PROVE  t[i] <= t[i + 1]
<1>1. compar(t[i], t[i + 1]) <= 0
  BY DEF qsort
<1>2. t[i] \in Value /\ t[i + 1] \in Value
  <2>1. t \in Seq(Value) /\ Len(t) = Len(ar) /\ Len(ar) \in Nat
    BY Sorted
  <2>2. i \in 1 .. Len(t) /\ i + 1 \in 1 .. Len(t)
    BY <2>1
  <2> QED  BY <2>1, <2>2
<1>3. t[i] \in Int /\ t[i + 1] \in Int /\ t[i] - t[i + 1] \in Int32
  BY <1>2, Values, IntsAreInt
<1> QED  BY <1>1, <1>3, Compared

\* What max() answers.
LEMMA MaxAnswers ==
  ASSUME NEW ar \in Seq(Value), NEW v \in max(1, <<Bytes(ar)>>)
  PROVE  \E t \in qsort(ar) : v = Bytes(t) /\ v \in Seq(Digit) /\ Len(v) = Len(Bytes(ar)) /\ Ints(v) = t
<1>1. ar \in Seq(Int) /\ ar \in Seq(Int32)
  <2>1. ar \in Seq(Int32)
    BY Values
  <2> QED  BY <2>1, IntsAreInt
<1>2. Rest(Bytes(ar)) = <<>> /\ Ints(Bytes(ar)) = ar /\ Len(Bytes(ar)) = 2 * Len(ar)
  BY <1>1, BytesOfInts
<1>3. PICK t \in qsort(ar) : v = Bytes(t) \o <<>>
  <2>1. <<Bytes(ar)>>[1] = Bytes(ar)
    OBVIOUS
  <2> QED  BY <1>2, <2>1, Zenon DEF max
<1>4. t \in Seq(Value) /\ Len(t) = Len(ar)
  BY Sorted
<1>5. t \in Seq(Int) /\ t \in Seq(Int32)
  <2>1. t \in Seq(Int32)
    BY <1>4, Values
  <2> QED  BY <2>1, IntsAreInt
<1>6. Bytes(t) \in Seq(Digit) /\ Len(Bytes(t)) = 2 * Len(t) /\ Ints(Bytes(t)) = t
  BY <1>5, BytesOfInts
<1>7. v = Bytes(t)
  BY <1>3, <1>6, ConcatEmptySeq
<1> QED  BY <1>2, <1>4, <1>6, <1>7

-----------------------------------------------------------------------------
(* The concatenation.                                                        *)

\* A string and its terminator.
LEMMA StringOf ==
  ASSUME NEW s \in Seq(Letter)
  PROVE  /\ strlen(String(s)) = Len(s) /\ Content(String(s)) = s
         /\ Len(String(s)) = Len(s) + 1 /\ String(s)[Len(s) + 1] = NUL
         /\ String(s) \in Seq(Byte)
<1> DEFINE b == String(s)
           Ends(i) == b[i] = NUL /\ \A j \in 1 .. i - 1 : b[j] # NUL
<1>1. PICK n \in Nat : n = Len(s)
  OBVIOUS
<1>2. /\ Len(b) = n + 1 /\ b[n + 1] = NUL /\ DOMAIN b = 1 .. n + 1
      /\ \A i \in 1 .. n : b[i] = s[i] /\ b[i] \in Letter
  BY <1>1 DEF String
<1>3. b \in Seq(Byte)
  BY DEF String, Byte
<1>4. \A i \in 1 .. n : b[i] # NUL
  BY <1>2, SessionAssumption
<1> HIDE DEF b
<1>5. n + 1 \in DOMAIN b /\ Ends(n + 1)
  <2>1. \A j \in 1 .. n + 1 - 1 : j \in 1 .. n
    BY <1>1
  <2> QED  BY <1>2, <1>4, <2>1
<1>6. \A i \in DOMAIN b : Ends(i) => i = n + 1
  <2> TAKE i \in DOMAIN b
  <2> HAVE Ends(i)
  <2>1. i \in 1 .. n + 1 /\ ~ (i \in 1 .. n)
    BY <1>2, <1>4
  <2> QED  BY <2>1
<1> HIDE DEF Ends
<1>7. (CHOOSE i \in DOMAIN b : Ends(i)) = n + 1
  BY <1>5, <1>6
<1>8. strlen(b) = n
  <2>1. strlen(b) = (CHOOSE i \in DOMAIN b : Ends(i)) - 1
    BY Zenon DEF strlen, Ends
  <2>2. PICK p \in Nat : p = n + 1
    BY <1>1
  <2>3. (CHOOSE i \in DOMAIN b : Ends(i)) = p
    BY <1>7, <2>2
  <2>4. strlen(b) = p - 1
    BY <2>1, <2>3, Zenon
  <2> QED  BY <1>1, <2>2, <2>4
<1>9. SubSeq(b, 1, n) = s
  <2>1. n \in 0 .. Len(b)
    BY <1>1, <1>2
  <2>2. Ahead(b, n) \in Seq(Byte) /\ Len(Ahead(b, n)) = n /\ \A i \in 1 .. n : Ahead(b, n)[i] = b[i]
    BY <1>3, <2>1, Cut, AheadAt
  <2>3. s \in Seq(Byte)
    BY DEF Byte
  <2>4. Ahead(b, n) = s
    BY <1>1, <1>2, <2>2, <2>3, SeqEqual
  <2> QED  BY <2>4 DEF Ahead
<1>10. Content(b) = s
  BY <1>8, <1>9 DEF Content
<1> QED  BY <1>1, <1>2, <1>3, <1>8, <1>10 DEF b

\* The first k strings together.
Contents(a, k) == [i \in 1 .. k |-> Content(a[i])]
Flat(a, k)     == FlattenSeq(Contents(a, k))

\* What is concatenated so far grows by the content of the next string.
LEMMA FlatFacts ==
  ASSUME NEW a \in [1 .. 5 -> Text]
  PROVE  /\ Flat(a, 0) = <<>>
         /\ \A k \in 0 .. 5 : Flat(a, k) \in Seq(Letter)
         /\ \A k \in 1 .. 5 : /\ Content(a[k]) \in Seq(Letter) /\ strlen(a[k]) = Len(Content(a[k]))
                              /\ Flat(a, k) = Cat(Flat(a, k - 1), Content(a[k]))
<1>1. ASSUME NEW k \in 1 .. 5 PROVE Content(a[k]) \in Seq(Letter) /\ strlen(a[k]) = Len(Content(a[k]))
  <2>1. a[k] \in Text
    OBVIOUS
  <2>2. PICK s \in UpTo(maxslen, Letter) : a[k] = String(s)
    BY <2>1 DEF Text
  <2>3. s \in Seq(Letter)
    BY SessionAssumption DEF UpTo
  <2> QED  BY <2>2, <2>3, StringOf
<1>2. ASSUME NEW k \in 0 .. 5
      PROVE  /\ Contents(a, k) \in Seq(Seq(Letter)) /\ Len(Contents(a, k)) = k
             /\ \A i \in 1 .. k : Contents(a, k)[i] = Content(a[i])
  <2>1. \A i \in 1 .. k : Content(a[i]) \in Seq(Letter)
    BY <1>1
  <2> QED  BY <2>1 DEF Contents
<1>3. \A k \in 0 .. 5 : Flat(a, k) \in Seq(Letter)
  BY <1>2, FlattenType DEF Flat
<1>4. Flat(a, 0) = <<>>
  <2>1. Contents(a, 0) = <<>>
    BY DEF Contents
  <2> QED  BY <2>1, FlattenEmpty DEF Flat
<1>5. ASSUME NEW k \in 1 .. 5 PROVE Flat(a, k) = Cat(Flat(a, k - 1), Content(a[k]))
  <2>1. PICK j \in 0 .. 5 : j = k - 1
    OBVIOUS
  <2>2. PICK u \in Seq(Seq(Letter)) :
          u = Contents(a, j) /\ Len(u) = j /\ \A i \in 1 .. j : u[i] = Content(a[i])
    BY <1>2
  <2>3. PICK t \in Seq(Seq(Letter)) :
          t = Contents(a, k) /\ Len(t) = k /\ \A i \in 1 .. k : t[i] = Content(a[i])
    <3>1. k \in 0 .. 5
      OBVIOUS
    <3> QED  BY <1>2, <3>1
  <2>4. Len(t) = Len(u) + 1 /\ \A i \in 1 .. Len(u) : t[i] = u[i]
    BY <2>1, <2>2, <2>3
  <2>5. FlattenSeq(t) = Cat(FlattenSeq(u), t[Len(t)])
    BY <2>4, FlattenSnoc
  <2>6. t[Len(t)] = Content(a[k])
    BY <2>3
  <2> QED  BY <2>1, <2>2, <2>3, <2>5, <2>6 DEF Flat
<1> QED  BY <1>1, <1>3, <1>4, <1>5

\* The length of the next one is added.
LEMMA FlatLength ==
  ASSUME NEW a \in [1 .. 5 -> Text], NEW k \in 1 .. 5
  PROVE  /\ Len(Flat(a, k)) = Len(Flat(a, k - 1)) + strlen(a[k])
         /\ Len(Flat(a, k - 1)) \in Nat /\ strlen(a[k]) \in Nat
<1>1. PICK j \in 0 .. 5 : j = k - 1
  OBVIOUS
<1>2. PICK x \in Seq(Letter) : x = Flat(a, j)
  BY FlatFacts
<1>3. PICK y \in Seq(Letter) : y = Content(a[k]) /\ strlen(a[k]) = Len(y)
  BY FlatFacts
<1>4. Flat(a, k) = Cat(x, y)
  BY <1>1, <1>2, <1>3, FlatFacts
<1>5. Len(Cat(x, y)) = Len(x) + Len(y)
  BY CatType
<1> QED  BY <1>1, <1>2, <1>3, <1>4, <1>5

\* The recursion adds up the lengths.
LEMMA TotalLength ==
  ASSUME NEW a \in [1 .. 5 -> Text], NEW k \in 0 .. 5
  PROVE  totallen(a, k) = Len(Flat(a, k))
<1> DEFINE Sums(n) == n = [i \in 0 .. k |-> IF i = 0 THEN 0 ELSE n[i - 1] + strlen(a[i])]
           n0 == [i \in 0 .. k |-> Len(Flat(a, i))]
           n1 == CHOOSE n : Sums(n)
<1>1. Len(Flat(a, 0)) = 0
  BY FlatFacts, EmptySeq
<1>2. \A i \in 1 .. k : Len(Flat(a, i)) = Len(Flat(a, i - 1)) + strlen(a[i])
  <2>1. \A i \in 1 .. k : i \in 1 .. 5
    OBVIOUS
  <2> QED  BY <2>1, FlatLength
<1>3. Sums(n0)
  <2>1. \A i \in 0 .. k : Len(Flat(a, i)) = IF i = 0 THEN 0 ELSE n0[i - 1] + strlen(a[i])
    <3> TAKE i \in 0 .. k
    <3>1. CASE i = 0
      BY <1>1, <3>1
    <3>2. CASE i # 0
      <4>1. i \in 1 .. k /\ i - 1 \in 0 .. k
        BY <3>2
      <4> QED  BY <1>2, <3>2, <4>1
    <3> QED  BY <3>1, <3>2
  <2> QED  BY <2>1
<1>4. Sums(n1)
  <2> HIDE DEF Sums, n0
  <2> QED  BY <1>3
<1> HIDE DEF n1
<1>5. \A i \in 0 .. k : n1[i] = IF i = 0 THEN 0 ELSE n1[i - 1] + strlen(a[i])
  BY <1>4
<1> DEFINE G == {i \in 0 .. k : n1[i] = Len(Flat(a, i))}
<1>6. 0 \in G
  BY <1>1, <1>5
<1>7. ASSUME NEW i \in 0 .. k - 1, i \in G PROVE i + 1 \in G
  <2>1. PICK m \in 1 .. k : m = i + 1 /\ m - 1 = i
    OBVIOUS
  <2>2. n1[m] = n1[i] + strlen(a[m])
    BY <1>5, <2>1
  <2>3. Len(Flat(a, m)) = Len(Flat(a, i)) + strlen(a[m])
    BY <1>2, <2>1
  <2> QED  BY <1>7, <2>1, <2>2, <2>3
<1>8. n1[k] = Len(Flat(a, k))
  <2> HIDE DEF G
  <2>1. k \in Nat /\ k \in 0 .. k
    OBVIOUS
  <2>2. k \in G
    BY <1>6, <1>7, <2>1, BoundedInduction
  <2> QED  BY <2>2 DEF G
<1>9. totallen(a, k) = n1[k]
  BY Zenon DEF totallen, n1, Sums
<1> QED  BY <1>8, <1>9

\* A buffer of n bytes and a terminator, that starts with f.
Padded(f, n) == [i \in 1 .. n + 1 |-> IF i <= Len(f) THEN f[i] ELSE NUL]

\* The next string is copied to where the last one ended.
LEMMA CopiedBehind ==
  ASSUME NEW T, NEW f \in Seq(T), NEW c \in Seq(T), NEW n \in Nat
  PROVE  Copied(Padded(f, n), Len(f), c) = Padded(Cat(f, c), n)
<1>1. PICK p \in Nat, q \in Nat : p = Len(f) /\ q = Len(c) /\ DOMAIN c = 1 .. q
  OBVIOUS
<1>2. Len(Cat(f, c)) = p + q
  BY <1>1, CatType
<1>3. \A i \in 1 .. p + q : Cat(f, c)[i] = IF i <= p THEN f[i] ELSE c[i - p]
  BY <1>1, CatAt
<1>4. ASSUME NEW i \in 1 .. n + 1
      PROVE  (IF i - p \in DOMAIN c THEN c[i - p] ELSE IF i <= p THEN f[i] ELSE NUL)
               = IF i <= p + q THEN Cat(f, c)[i] ELSE NUL
  <2>1. CASE i <= p
    <3>1. ~ (i - p \in 1 .. q) /\ i \in 1 .. p + q
      BY <1>1, <2>1
    <3> QED  BY <1>1, <1>3, <2>1, <3>1
  <2>2. CASE i > p /\ i <= p + q
    <3>1. i - p \in 1 .. q /\ i \in 1 .. p + q /\ ~ (i <= p)
      BY <1>1, <2>2
    <3> QED  BY <1>1, <1>3, <2>2, <3>1
  <2>3. CASE i > p + q
    <3>1. ~ (i - p \in 1 .. q) /\ ~ (i <= p) /\ ~ (i <= p + q)
      BY <1>1, <2>3
    <3> QED  BY <1>1, <3>1
  <2> QED  BY <1>1, <2>1, <2>2, <2>3
<1>5. Padded(Cat(f, c), n) = [i \in 1 .. n + 1 |-> IF i <= p + q THEN Cat(f, c)[i] ELSE NUL]
  BY <1>2 DEF Padded
<1>6. DOMAIN Padded(f, n) = 1 .. n + 1
      /\ \A i \in 1 .. n + 1 : Padded(f, n)[i] = IF i <= p THEN f[i] ELSE NUL
  BY <1>1 DEF Padded
<1>7. Copied(Padded(f, n), Len(f), c)
        = [i \in 1 .. n + 1 |-> IF i - p \in DOMAIN c THEN c[i - p] ELSE Padded(f, n)[i]]
  BY <1>1, <1>6 DEF Copied
<1> QED  BY <1>4, <1>5, <1>6, <1>7

\* The answer is the string of the five.
LEMMA Concatenated ==
  ASSUME NEW a \in [1 .. 5 -> Text]
  PROVE  concatStr(5, a) = String(Flat(a, 5))
<1>1. PICK n \in Nat : n = totallen(a, 5) /\ n = Len(Flat(a, 5))
  <2>1. totallen(a, 5) = Len(Flat(a, 5))
    BY TotalLength
  <2>2. Flat(a, 5) \in Seq(Letter)
    BY FlatFacts
  <2> QED  BY <2>1, <2>2
<1> DEFINE Copies(buf) == buf = [k \in 0 .. 5 |->
             IF k = 0 THEN [i \in 1 .. totallen(a, 5) + 1 |-> NUL]
             ELSE Copied(buf[k - 1], totallen(a, k - 1), Content(a[k]))]
           b0 == [k \in 0 .. 5 |-> Padded(Flat(a, k), n)]
           b1 == CHOOSE buf : Copies(buf)
<1>2. Padded(Flat(a, 0), n) = [i \in 1 .. totallen(a, 5) + 1 |-> NUL]
  <2>1. Flat(a, 0) = <<>>
    BY FlatFacts
  <2>2. \A i \in 1 .. n + 1 : ~ (i <= Len(<<>>))
    BY EmptySeq
  <2> QED  BY <1>1, <2>1, <2>2 DEF Padded
<1>3. ASSUME NEW k \in 1 .. 5
      PROVE  Padded(Flat(a, k), n) = Copied(Padded(Flat(a, k - 1), n), totallen(a, k - 1), Content(a[k]))
  <2>1. PICK j \in 0 .. 5 : j = k - 1
    OBVIOUS
  <2>2. Flat(a, j) \in Seq(Letter) /\ totallen(a, j) = Len(Flat(a, j))
    BY FlatFacts, TotalLength
  <2>3. Content(a[k]) \in Seq(Letter) /\ Flat(a, k) = Cat(Flat(a, j), Content(a[k]))
    BY <2>1, FlatFacts
  <2>4. Copied(Padded(Flat(a, j), n), Len(Flat(a, j)), Content(a[k])) = Padded(Cat(Flat(a, j), Content(a[k])), n)
    BY <2>2, <2>3, CopiedBehind
  <2> QED  BY <2>1, <2>2, <2>3, <2>4
<1>4. Copies(b0)
  <2>1. \A k \in 0 .. 5 : Padded(Flat(a, k), n) =
          IF k = 0 THEN [i \in 1 .. totallen(a, 5) + 1 |-> NUL]
          ELSE Copied(b0[k - 1], totallen(a, k - 1), Content(a[k]))
    <3> TAKE k \in 0 .. 5
    <3>1. CASE k = 0
      BY <1>2, <3>1
    <3>2. CASE k # 0
      <4>1. k \in 1 .. 5 /\ k - 1 \in 0 .. 5
        BY <3>2
      <4>2. b0[k - 1] = Padded(Flat(a, k - 1), n)
        BY <4>1
      <4> HIDE DEF b0
      <4> QED  BY <1>3, <3>2, <4>1, <4>2
    <3> QED  BY <3>1, <3>2
  <2> QED  BY <2>1
<1>5. Copies(b1)
  <2> HIDE DEF Copies, b0
  <2> QED  BY <1>4
<1> HIDE DEF b1
<1>6. b1[0] = [i \in 1 .. totallen(a, 5) + 1 |-> NUL]
  BY <1>5
<1>7. \A k \in 1 .. 5 : b1[k] = Copied(b1[k - 1], totallen(a, k - 1), Content(a[k]))
  <2>1. \A k \in 1 .. 5 : k \in 0 .. 5 /\ k # 0
    OBVIOUS
  <2> QED  BY <1>5, <2>1
<1> DEFINE G == {k \in 0 .. 5 : b1[k] = Padded(Flat(a, k), n)}
<1> HIDE DEF Copies, b0
<1>8. 0 \in G
  <2>1. b1[0] = Padded(Flat(a, 0), n)
    BY <1>2, <1>6, Zenon
  <2> QED  BY <2>1
<1>9. ASSUME NEW k \in 0 .. 5 - 1, k \in G PROVE k + 1 \in G
  <2>1. PICK m \in 1 .. 5 : m = k + 1 /\ m - 1 = k
    OBVIOUS
  <2> QED  BY <1>3, <1>7, <1>9, <2>1
<1>10. b1[5] = Padded(Flat(a, 5), n)
  <2> HIDE DEF G
  <2>1. 5 \in Nat /\ 5 \in 0 .. 5
    OBVIOUS
  <2>2. 5 \in G
    BY <1>8, <1>9, <2>1, BoundedInduction
  <2> QED  BY <2>2 DEF G
<1>11. concatStr(5, a) = String(Content(b1[5]))
  BY Zenon DEF concatStr, b1, Copies
<1>12. Padded(Flat(a, 5), n) = String(Flat(a, 5))
  <2>1. PICK f \in Seq(Letter) : f = Flat(a, 5)
    BY FlatFacts
  <2>2. \A i \in 1 .. n + 1 : (IF i <= Len(f) THEN f[i] ELSE NUL) = IF i = n + 1 THEN NUL ELSE f[i]
    BY <1>1, <2>1
  <2>3. Append(f, NUL) = [i \in 1 .. n + 1 |-> IF i = n + 1 THEN NUL ELSE f[i]]
    <3>1. f \in Seq(Byte)
      BY <2>1 DEF Byte
    <3>2. PICK g \in Seq(Byte) : g = Append(f, NUL)
      <4>1. String(f) \in Seq(Byte)
        BY <2>1, StringOf
      <4> QED  BY <4>1 DEF String
    <3>3. Len(g) = n + 1 /\ g[n + 1] = NUL /\ \A i \in 1 .. n : g[i] = f[i]
      BY <1>1, <2>1, <3>1, <3>2
    <3>4. g = [i \in 1 .. n + 1 |-> g[i]]
      BY <3>3
    <3>5. \A i \in 1 .. n + 1 : g[i] = IF i = n + 1 THEN NUL ELSE f[i]
      BY <1>1, <3>3
    <3> QED  BY <3>2, <3>4, <3>5
  <2> QED  BY <2>1, <2>2, <2>3 DEF Padded, String
<1>13. Content(String(Flat(a, 5))) = Flat(a, 5)
  <2>1. Flat(a, 5) \in Seq(Letter)
    BY FlatFacts
  <2> QED  BY <2>1, StringOf
<1> QED  BY <1>10, <1>11, <1>12, <1>13

-----------------------------------------------------------------------------
(* The session.                                                              *)

\* What each call leaves: testsort a sorted array of the one it sent,
\* testconcat the answer to the five strings it sent.
SortDone ==
  pc = "addtwoAgain" => \E ar \in Seq(Value) : given = <<Bytes(ar)>> /\ ans \in max(1, <<Bytes(ar)>>)

ConcatDone ==
  pc = "done" => given \in [1 .. 5 -> Text] /\ ans = concatStr(5, given)

SessionInv == TypeOK /\ SortDone /\ ConcatDone

Steps == {"nothing", "addtwo", "pickFirst", "testsort", "addtwoAgain", "testconcat", "done"}

\* Texts and answers are made of bytes.
LEMMA TextIsBytes ==
  /\ Text \in SUBSET Seq(Byte)
  /\ \A a \in [1 .. 5 -> Text] : a \in Seq(Seq(Byte)) /\ concatStr(5, a) \in Seq(Byte)
<1>1. ASSUME NEW t \in Text PROVE t \in Seq(Byte)
  <2>1. PICK s \in UpTo(maxslen, Letter) : t = String(s)
    BY DEF Text
  <2>2. s \in Seq(Letter)
    BY SessionAssumption DEF UpTo
  <2> QED  BY <2>1, <2>2, StringOf
<1>2. ASSUME NEW a \in [1 .. 5 -> Text] PROVE a \in Seq(Seq(Byte)) /\ concatStr(5, a) \in Seq(Byte)
  <2>1. a \in [1 .. 5 -> Seq(Byte)] /\ 5 \in Nat
    BY <1>1
  <2>2. PICK s \in Seq(Letter) : s = Flat(a, 5)
    BY FlatFacts
  <2>3. concatStr(5, a) = String(s)
    BY <2>2, Concatenated
  <2>4. String(s) \in Seq(Byte)
    BY StringOf
  <2>5. a \in Seq(Seq(Byte))
    <3>1. ASSUME NEW T, NEW k \in Nat, NEW u \in [1 .. k -> T] PROVE u \in Seq(T)
      OBVIOUS
    <3> QED  BY <2>1, <3>1
  <2> QED  BY <2>3, <2>4, <2>5
<1> QED  BY <1>1, <1>2

\* Digits are bytes.
LEMMA DigitsAreBytes == \A s \in Seq(Digit) : s \in Seq(Byte)
<1> TAKE s \in Seq(Digit)
<1>1. Digit \in SUBSET Byte
  BY DEF Digit, Byte
<1>2. s = [i \in 1 .. Len(s) |-> s[i]] /\ Len(s) \in Nat /\ \A i \in 1 .. Len(s) : s[i] \in Byte
  BY <1>1
<1> QED  BY <1>2

\* What is read from two bytes is an int.
LEMMA DecodeType ==
  ASSUME NEW s \in Seq(Digit), Len(s) = 2
  PROVE  Decode(s) \in Int
<1>1. PICK x \in Int, y \in Int : x = s[1] /\ y = s[2]
  <2>1. s[1] \in Digit /\ s[2] \in Digit
    OBVIOUS
  <2>2. Digit \in SUBSET Int
    BY WidthFacts DEF Digit
  <2> QED  BY <2>1, <2>2
<1>2. PICK b \in Nat : b = Base
  BY WidthFacts
<1>3. PICK v \in Int : v = x + b * y
  OBVIOUS
<1>4. PICK h \in Nat : h = Width \div 2 /\ Width = 2 * h /\ h > 0
  BY WidthFacts
<1>5. Wrap(v) = ((v + h) % (2 * h)) - h
  BY <1>4 DEF Wrap
<1>6. (v + h) % (2 * h) \in Int
  BY <1>3, <1>4
<1>7. Wrap(v) \in Int
  BY <1>4, <1>5, <1>6
<1> QED  BY <1>1, <1>2, <1>3, <1>7 DEF Decode

\* The sum of two ints is an int, or nothing at all.
LEMMA AddType ==
  ASSUME NEW a \in Seq(Seq(Digit)), Len(a) = 2
  PROVE  add(2, a) \in Seq(Digit)
<1>1. Nothing \in Seq(Digit)
  BY DEF Nothing
<1>2. CASE Len(a[1]) # 2 \/ Len(a[2]) # 2
  BY <1>1, <1>2 DEF add, IntSize
<1>3. CASE Len(a[1]) = 2 /\ Len(a[2]) = 2
  <2>1. PICK x \in Seq(Digit), y \in Seq(Digit) : x = a[1] /\ y = a[2] /\ Len(x) = 2 /\ Len(y) = 2
    <3>1. 1 \in 1 .. Len(a) /\ 2 \in 1 .. Len(a)
      OBVIOUS
    <3>2. a[1] \in Seq(Digit) /\ a[2] \in Seq(Digit)
      BY <3>1, ElementOfSeq
    <3> QED  BY <1>3, <3>2
  <2>2. Decode(x) \in Int /\ Decode(y) \in Int
    BY <2>1, DecodeType
  <2>3. PICK i \in Int : i = Decode(x) + Decode(y)
    BY <2>2
  <2>4. add(2, a) = Encode(i)
    BY <1>3, <2>1, <2>3 DEF add, IntSize
  <2> QED  BY <2>4, Encoded
<1> QED  BY <1>2, <1>3

\* The invariant holds at first,
LEMMA InitSession == Init => SessionInv
  BY DEF Init, SessionInv, TypeOK, SortDone, ConcatDone

\* The two pairs of ints.
LEMMA Pairs ==
  /\ Two \in Seq(Seq(Digit)) /\ Len(Two) = 2 /\ Again \in Seq(Seq(Digit)) /\ Len(Again) = 2
  /\ Two \in Seq(Seq(Byte)) /\ Again \in Seq(Seq(Byte))
  /\ add(2, Two) \in Seq(Byte) /\ add(2, Again) \in Seq(Byte) /\ pickFirst(2, Two) \in Seq(Byte)
<1>1. \A i \in Int : Encode(i) \in Seq(Digit) /\ Encode(i) \in Seq(Byte)
  BY Encoded, DigitsAreBytes
<1>2. -3 \in Int /\ 5 \in Int /\ 6 \in Int /\ -4 \in Int
  OBVIOUS
<1>3. /\ Two \in Seq(Seq(Digit)) /\ Len(Two) = 2 /\ Again \in Seq(Seq(Digit)) /\ Len(Again) = 2
      /\ Two \in Seq(Seq(Byte)) /\ Again \in Seq(Seq(Byte))
  BY <1>1, <1>2 DEF Two, Again
<1>4. add(2, Two) \in Seq(Byte) /\ add(2, Again) \in Seq(Byte)
  BY <1>3, AddType, DigitsAreBytes
<1>5. pickFirst(2, Two) \in Seq(Byte)
  <2>1. Two[1] = Encode(-3) /\ ~ (2 <= 0)
    BY DEF Two
  <2> QED  BY <1>1, <1>2, <2>1 DEF pickFirst
<1> QED  BY <1>3, <1>4, <1>5

\* every call keeps it,
LEMMA StepSession == SessionInv /\ [Next]_vars => SessionInv'
<1> SUFFICES ASSUME SessionInv, [Next]_vars PROVE SessionInv'
  OBVIOUS
<1>1. pc \in Steps /\ given \in Seq(Seq(Byte)) /\ ans \in Seq(Byte) /\ SortDone /\ ConcatDone
  BY DEF SessionInv, TypeOK, Byte, Steps
<1>2. SUFFICES /\ pc' \in Steps /\ given' \in Seq(Seq(Byte)) /\ ans' \in Seq(Byte)
               /\ SortDone' /\ ConcatDone'
  BY DEF SessionInv, TypeOK, Byte, Steps
<1> USE DEF Steps
<1>3. CASE nothing
  <2>1. <<>> \in Seq(Seq(Byte)) /\ Nothing \in Seq(Byte)
    BY DEF Nothing
  <2> QED  BY <1>3, <2>1 DEF nothing, Calls, SortDone, ConcatDone
<1>4. CASE addtwo
  BY <1>4, Pairs DEF addtwo, Calls, SortDone, ConcatDone
<1>5. CASE first
  BY <1>5, Pairs DEF first, Calls, SortDone, ConcatDone
<1>6. CASE testsort
  <2>1. PICK ar \in Array : pc' = "addtwoAgain" /\ given' = <<Bytes(ar)>> /\ ans' \in max(1, <<Bytes(ar)>>)
    BY <1>6 DEF testsort, Calls
  <2>2. ar \in Seq(Value)
    BY Arrays
  <2>3. Bytes(ar) \in Seq(Byte)
    <3>1. ar \in Seq(Int)
      <4>1. ar \in Seq(Int32)
        BY <2>2, Values
      <4> QED  BY <4>1, IntsAreInt
    <3> QED  BY <3>1, BytesOfInts, DigitsAreBytes
  <2>4. ans' \in Seq(Byte)
    BY <2>1, <2>2, MaxAnswers, DigitsAreBytes
  <2>5. given' \in Seq(Seq(Byte))
    BY <2>1, <2>3
  <2>6. SortDone'
    BY <2>1, <2>2 DEF SortDone
  <2> QED  BY <2>1, <2>4, <2>5, <2>6 DEF ConcatDone
<1>7. CASE addtwoAgain
  BY <1>7, Pairs DEF addtwoAgain, Calls, SortDone, ConcatDone
<1>8. CASE testconcat
  <2>1. PICK a \in [1 .. 5 -> Text] : pc' = "done" /\ given' = a /\ ans' = concatStr(5, a)
    BY <1>8 DEF testconcat, Calls
  <2>2. given' \in Seq(Seq(Byte)) /\ ans' \in Seq(Byte)
    BY <2>1, TextIsBytes
  <2> QED  BY <2>1, <2>2 DEF SortDone, ConcatDone
<1>9. CASE UNCHANGED vars
  <2>1. pc' = pc /\ given' = given /\ ans' = ans
    BY <1>9 DEF vars
  <2>2. SortDone' /\ ConcatDone'
    BY <1>1, <2>1, Zenon DEF SortDone, ConcatDone
  <2> QED  BY <1>1, <2>1, <2>2
<1> QED  BY <1>3, <1>4, <1>5, <1>6, <1>7, <1>8, <1>9 DEF Next, Done

\* so it always holds.
LEMMA SessionIsInv == Spec => []SessionInv
  BY InitSession, StepSession, PTL DEF Spec

\* Of TypeOK: every argument and every answer is made of bytes.
THEOREM SessionTypes == Spec => []TypeOK
<1>1. SessionInv => TypeOK
  BY DEF SessionInv
<1> QED  BY <1>1, SessionIsInv, PTL

\* With the reduction of testsort, no difference of two values leaves the ints,
\* and what comes back is the array that was sent, in order.
LEMMA SortedBack == Reduced /\ SessionInv => ReturnsThemSorted
<1> SUFFICES ASSUME Reduced, SessionInv, pc = "addtwoAgain"
             PROVE  /\ Len(ans) = Len(given[1])
                    /\ \A i \in 1 .. Len(Ints(ans)) - 1 : Ints(ans)[i] <= Ints(ans)[i + 1]
                    /\ Ints(ans) \in Permuted(Ints(given[1]))
  BY Zenon DEF ReturnsThemSorted
<1>1. PICK ar \in Seq(Value) : given = <<Bytes(ar)>> /\ ans \in max(1, <<Bytes(ar)>>)
  BY DEF SessionInv, SortDone
<1>2. PICK t \in qsort(ar) : Len(ans) = Len(Bytes(ar)) /\ Ints(ans) = t
  BY <1>1, MaxAnswers
<1>3. given[1] = Bytes(ar)
  BY <1>1
<1>4. Ints(Bytes(ar)) = ar
  <2>1. ar \in Seq(Int32) /\ ar \in Seq(Int)
    <3>1. ar \in Seq(Int32)
      BY Values
    <3> QED  BY <3>1, IntsAreInt
  <2> QED  BY <2>1, BytesOfInts
<1>5. t \in Permuted(ar) /\ Len(t) = Len(ar)
  BY Sorted
<1>6. \A i \in 1 .. Len(t) - 1 : t[i] <= t[i + 1]
  BY <1>5, InOrder
<1> QED  BY <1>2, <1>3, <1>4, <1>5, <1>6

\* "Returns them sorted" (sample_server_app.c:93), of every array that
\* testsort may send.
THEOREM ReturnsSorted == Reduced => (Spec => []ReturnsThemSorted)
<1> SUFFICES ASSUME Reduced PROVE Spec => []ReturnsThemSorted
  OBVIOUS
<1>1. SessionInv => ReturnsThemSorted
  BY SortedBack
<1> QED  BY <1>1, SessionIsInv, PTL

\* The answer of concatStr is one string, and it is the five of testconcat.
LEMMA ConcatBack == SessionInv => ConcatIsString
<1> SUFFICES ASSUME SessionInv, pc = "done"
             PROVE  /\ ans[Len(ans)] = NUL /\ strlen(ans) = Len(ans) - 1
                    /\ Content(ans) = FlattenSeq([k \in 1 .. 5 |-> Content(given[k])])
  BY Zenon DEF ConcatIsString
<1>1. given \in [1 .. 5 -> Text] /\ ans = concatStr(5, given)
  BY DEF SessionInv, ConcatDone
<1>2. PICK s \in Seq(Letter) : s = Flat(given, 5) /\ ans = String(s)
  <2>1. Flat(given, 5) \in Seq(Letter)
    BY <1>1, FlatFacts
  <2> QED  BY <1>1, <2>1, Concatenated
<1>3. /\ strlen(ans) = Len(s) /\ Content(ans) = s
      /\ Len(ans) = Len(s) + 1 /\ ans[Len(s) + 1] = NUL
  BY <1>2, StringOf
<1>4. Len(s) \in Nat
  OBVIOUS
<1>5. s = FlattenSeq([k \in 1 .. 5 |-> Content(given[k])])
  BY <1>2 DEF Flat, Contents
<1> QED  BY <1>3, <1>4, <1>5

\* testconcat prints one string, its five in order (sample_server_app.c:111).
THEOREM ConcatsToString == Spec => []ConcatIsString
  BY ConcatBack, SessionIsInv, PTL

=============================================================================
