------------------------------ MODULE Procedures ------------------------------
(* The procedures that the sample servers register:                          *)
(* 4/simplified_rpc/sample_server_app.c (nothing, add, pickFirst, max,       *)
(* concatStr) and 1/server.c (nop, concat; its add is the same).  Arguments  *)
(* and results are sequences of bytes; an int takes IntSize of them, and a   *)
(* result of size 0 is the empty sequence, for return_val is then NULL.      *)
EXTENDS Integers, FiniteSets, SequencesExt

CONSTANTS
  Base,   \* the number of values of a byte
  NUL     \* the byte that ends a string

ASSUME BaseAssumption == Base \in Nat /\ Base > 1 /\ Base % 2 = 0

IntSize == 2
Width   == Base * Base   \* Base ^ IntSize
INT_MAX == Width \div 2 - 1
Int32   == -(Width \div 2) .. INT_MAX

\* Two's complement.
Wrap(i)   == ((i + Width \div 2) % Width) - Width \div 2

\* Mutant: the upper byte keeps the sign.
EncodeSigned(i) == <<i % Base, i \div Base>>

Encode(i) == <<i % Base, (i % Width) \div Base>>
Decode(s) == Wrap(s[1] + Base * s[2])

\* The string that a C program sees at the start of a buffer.
strlen(s)  == (CHOOSE i \in DOMAIN s : s[i] = NUL /\ \A j \in 1 .. i - 1 : s[j] # NUL) - 1
Content(s) == SubSeq(s, 1, strlen(s))
String(s)  == Append(s, NUL)

-----------------------------------------------------------------------------
\* The result for "Error!", and of nothing().
Nothing == <<>>

add(nparams, a) ==
  IF nparams # 2 \/ Len(a[1]) # IntSize \/ Len(a[2]) # IntSize THEN Nothing
  ELSE Encode(Decode(a[1]) + Decode(a[2]))

pickFirst(nparams, a) == IF nparams <= 0 THEN Nothing ELSE a[1]

\* compar() subtracts ints.
compar(i, j) == Wrap(i - j)

Permuted(s) ==
  {t \in [DOMAIN s -> ToSet(s)] :
     \A x \in ToSet(s) : Cardinality({i \in DOMAIN s : s[i] = x})
                           = Cardinality({i \in DOMAIN s : t[i] = x})}

\* A merge sort has compared every two neighbours of its result.
qsort(s) == {t \in Permuted(s) : \A i \in 1 .. Len(s) - 1 : compar(t[i], t[i + 1]) <= 0}

\* max(): the array is sorted in a copy; a remainder of bytes is copied as it is.
Ints(bytes) == [i \in 1 .. Len(bytes) \div IntSize |->
                  Decode(SubSeq(bytes, IntSize * (i - 1) + 1, IntSize * i))]
Bytes(ints) == FlattenSeq([i \in DOMAIN ints |-> Encode(ints[i])])
Rest(bytes) == SubSeq(bytes, IntSize * (Len(bytes) \div IntSize) + 1, Len(bytes))

max(nparams, a) == {Bytes(t) \o Rest(a[1]) : t \in qsort(Ints(a[1]))}

\* memcpy() of s to offset at of a buffer.
Copied(buf, at, s) == [i \in DOMAIN buf |-> IF i - at \in DOMAIN s THEN s[i - at] ELSE buf[i]]

\* Mutant: the terminators are counted too.
sizes(a, k) ==
  LET n[i \in 0 .. k] == IF i = 0 THEN 0 ELSE n[i - 1] + Len(a[i]) IN n[k]

\* The lengths of the first k strings.
totallen(a, k) ==
  LET n[i \in 0 .. k] == IF i = 0 THEN 0 ELSE n[i - 1] + strlen(a[i]) IN n[k]

\* The buffer of calloc(), after each of the five copies; the size returned is
\* that of the string in it.
concatStr(nparams, a) ==
  IF nparams # 5 THEN Nothing
  ELSE LET buf[k \in 0 .. 5] == IF k = 0 THEN [i \in 1 .. totallen(a, 5) + 1 |-> NUL]
                                ELSE Copied(buf[k - 1], totallen(a, k - 1), Content(a[k]))
       IN String(Content(buf[5]))

-----------------------------------------------------------------------------
(* 1/server.c.                                                               *)

nop(nparams, a) == IF nparams # 0 THEN Nothing ELSE Encode(INT_MAX)

\* strcat() into the buffer of the first argument; the answer does not include
\* the terminator.
concat(nparams, a) ==
  IF nparams # 2 THEN Nothing ELSE Content(a[1]) \o Content(a[2])

\* It writes past that buffer, which append() made as long as the argument.
Overruns(a) == strlen(a[1]) + strlen(a[2]) + 1 > Len(a[1])

=============================================================================
