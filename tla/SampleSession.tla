---------------------------- MODULE SampleSession ----------------------------
(* The sample client of the simplified RPC (sample_client_app.c) and the     *)
(* procedures of the sample server.  A call is one step here; StreamRPC      *)
(* shows that it may be.                                                     *)
EXTENDS Procedures

CONSTANTS
  Letter,     \* the characters of testconcat's strings
  maxarsize,  \* its bound on the length of testsort's array
  maxslen,    \* and on that of a string
  Reduced     \* does testsort reduce its values?

ASSUME SessionAssumption ==
  /\ Letter # {} /\ NUL \notin Letter
  /\ maxarsize \in Nat \ {0} /\ maxslen \in Nat \ {0} /\ Reduced \in BOOLEAN
  /\ Base > 2   \* INT_MAX/2 is not 0

VARIABLES
  pc,     \* the next step of main()
  given,  \* the arguments of the call in progress, or of the last
  ans     \* its result

vars == <<pc, given, ans>>

UpTo(n, S) == UNION {[1 .. k -> S] : k \in 1 .. n}

\* C's remainder has the sign of the dividend.
Rem(i, n) == IF i < 0 THEN -((-i) % n) ELSE i % n

\* Mutant: by INT_MAX, which keeps almost every int as it is.
ReduceLess(i) == Rem(i, INT_MAX)

\* ar[i] %= (INT_MAX/2)
Reduce(i) == Rem(i, INT_MAX \div 2)

\* The array of testsort, from /dev/urandom.
Array == LET Value == IF Reduced THEN {Reduce(i) : i \in Int32} ELSE Int32
         IN UpTo(maxarsize, Value)

\* The strings of testconcat.
Text == {String(s) : s \in UpTo(maxslen, Letter)}

-----------------------------------------------------------------------------
Init == pc = "nothing" /\ given = <<>> /\ ans = <<>>

\* One call of main(), and where main() goes on.
Calls(at, next, args, results) ==
  /\ pc = at
  /\ pc' = next
  /\ given' = args
  /\ ans' \in results

nothing == Calls("nothing", "addtwo", <<>>, {Nothing})

\* add() and pickFirst() of the same two ints.
Two == <<Encode(-3), Encode(5)>>

addtwo   == Calls("addtwo", "pickFirst", Two, {add(2, Two)})
first    == Calls("pickFirst", "testsort", Two, {pickFirst(2, Two)})
testsort ==
  \E ar \in Array :
    Calls("testsort", "addtwoAgain", <<Bytes(ar)>>, max(1, <<Bytes(ar)>>))

\* "Does addtwo still work?"
Again == <<Encode(6), Encode(-4)>>

addtwoAgain == Calls("addtwoAgain", "testconcat", Again, {add(2, Again)})

testconcat ==
  \E s \in [1 .. 5 -> Text] : Calls("testconcat", "done", s, {concatStr(5, s)})

\* main() returns.
Done == pc = "done" /\ UNCHANGED vars

Next == nothing \/ addtwo \/ first \/ testsort \/ addtwoAgain \/ testconcat \/ Done

Spec == Init /\ [][Next]_vars

-----------------------------------------------------------------------------
TypeOK ==
  /\ pc \in {"nothing", "addtwo", "pickFirst", "testsort", "addtwoAgain",
             "testconcat", "done"}
  /\ given \in Seq(Seq(0 .. Base - 1 \cup Letter \cup {NUL}))
  /\ ans \in Seq(0 .. Base - 1 \cup Letter \cup {NUL})

\* "Returns them sorted" (sample_server_app.c:93): the array that comes back
\* from "max" has the values of the one that went, in order.  compar()
\* subtracts, and the subtraction may not overflow.
ReturnsThemSorted ==
  pc = "addtwoAgain" =>
    LET sent == Ints(given[1])
        back == Ints(ans)
    IN /\ Len(ans) = Len(given[1])
       /\ \A i \in 1 .. Len(back) - 1 : back[i] <= back[i + 1]
       /\ back \in Permuted(sent)

\* The size that concatStr returns counts one terminator, and what it covers is
\* the five strings in order: testconcat prints the answer with %s.
ConcatIsString ==
  pc = "done" =>
    /\ ans[Len(ans)] = NUL /\ strlen(ans) = Len(ans) - 1
    /\ Content(ans) = FlattenSeq([k \in 1 .. 5 |-> Content(given[k])])

=============================================================================
