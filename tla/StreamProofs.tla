----------------------------- MODULE StreamProofs -----------------------------
(* For every number of clients, every request and every way in which its     *)
(* bytes arrive: what the simplified RPC reads, answers and frees, and that  *)
(* each of its calls is a RemoteCall.                                        *)
EXTENDS StreamRPC, DataLemmas

-----------------------------------------------------------------------------
(* The blocks of a call.                                                     *)

\* The structures of n arguments, of which m have their value.
Blocks(n, m) ==
  {<<"fname", 0>>} \cup {<<"arg", i>> : i \in 1 .. n} \cup {<<"arg_val", i>> : i \in 1 .. m}

ArgsAreSequence == \E S : args \in Seq(S)

\* Where recvCall is, and what is allocated by then.
Allocated ==
  /\ pc = "recvCall" /\ want = "fnamelen" => heap = {}
  /\ pc = "recvCall" /\ want \in {"fname", "nparams"} => heap = Blocks(0, 0) /\ args = <<>>
  /\ pc = "recvCall" /\ want = "arg_size" => heap = Blocks(Len(args) + 1, Len(args))
  /\ pc = "recvCall" /\ want = "arg_val" => heap = Blocks(Len(args) + 1, Len(args) + 1)
  /\ pc = "makeCall" => heap = Blocks(Len(args), Len(args))
  /\ pc = "returnResult" => heap = Blocks(Len(args), Len(args)) \cup Held(ret)

\* A turn of the loop starts with nothing.
Fresh ==
  /\ pc \in {"main", "accept"} => heap = {} /\ want = "fnamelen"
  /\ pc \in {"main", "accept"} \/ want = "fnamelen" => args = <<>>

\* The inductive invariant.
HeapInv == ArgsAreSequence /\ Allocated /\ Fresh

\* args is a sequence.
LEMMA LengthsOfArgs ==
  ASSUME ArgsAreSequence
  PROVE  Len(args) \in Nat /\ DOMAIN args = 1 .. Len(args)
  BY DEF ArgsAreSequence

\* What is freed at the end of the turn is what was allocated.
LEMMA FreedIsAllocated ==
  ASSUME HeapInv
  PROVE  FreesWhatItAllocates /\ (pc = "returnResult" => heap \ Freed = {})
<1>1. DOMAIN args = 1 .. Len(args)
  BY LengthsOfArgs DEF HeapInv
<1>2. Freed = Blocks(Len(args), Len(args)) \cup Held(ret)
  BY <1>1 DEF Freed, Blocks
<1>3. pc = "returnResult" => heap = Freed
  BY <1>2 DEF HeapInv, Allocated
<1>4. pc = "accept" => heap = {}
  BY DEF HeapInv, Fresh
<1> QED  BY <1>3, <1>4 DEF FreesWhatItAllocates

-----------------------------------------------------------------------------
(* The invariant, one action after the other.                                *)

\* The blocks of an argument that recvCall goes on to, or none.
LEMMA NextArgumentKeeps ==
  ASSUME NEW i \in Nat, NEW n, nextArgument(i, n), heap = Blocks(i, i),
         ArgsAreSequence', Len(args') = i, pc = "recvCall",
         want \notin {"fnamelen"}
  PROVE  HeapInv'
<1>1. CASE i < n
  <2>1. /\ want' = "arg_size" /\ pc' = "recvCall"
        /\ heap' = Blocks(i, i) \cup {<<"arg", i + 1>>}
    BY <1>1 DEF nextArgument, Expect
  <2>2. 1 .. i + 1 = (1 .. i) \cup {i + 1}
    OBVIOUS
  <2>3. heap' = Blocks(i + 1, i)
    BY <2>1, <2>2 DEF Blocks
  <2> QED  BY <2>1, <2>3 DEF HeapInv, Allocated, Fresh
<1>2. CASE ~ i < n
  <2>1. pc' = "makeCall" /\ heap' = Blocks(i, i) /\ want' = want
    BY <1>2 DEF nextArgument
  <2> QED  BY <2>1 DEF HeapInv, Allocated, Fresh
<1> QED  BY <1>1, <1>2

\* A field of the request that is complete.
LEMMA FieldKeeps ==
  ASSUME HeapInv, gotNameLength \/ gotName \/ gotCount \/ gotSize \/ gotValue
  PROVE  HeapInv'
<1>1. CASE gotNameLength
  <2>1. /\ pc = "recvCall" /\ want = "fnamelen" /\ want' = "fname" /\ args = <<>>
        /\ heap' = heap \cup {<<"fname", 0>>} /\ UNCHANGED <<pc, args, ret>>
    BY <1>1 DEF gotNameLength, Received, Receiving, Expect, HeapInv, Fresh
  <2>2. heap' = Blocks(0, 0)
    BY <2>1 DEF Blocks, HeapInv, Allocated
  <2> QED  BY <2>1, <2>2 DEF HeapInv, ArgsAreSequence, Allocated, Fresh
<1>2. CASE gotName
  <2>1. /\ pc = "recvCall" /\ want = "fname" /\ want' = "nparams"
        /\ UNCHANGED <<pc, args, ret, heap>>
    BY <1>2 DEF gotName, Received, Receiving, Expect
  <2> QED  BY <2>1 DEF HeapInv, ArgsAreSequence, Allocated, Fresh
<1>3. CASE gotCount
  <2>1. /\ pc = "recvCall" /\ want = "nparams" /\ nextArgument(0, Decode(got)) /\ args' = args
    BY <1>3 DEF gotCount, Received, Receiving
  <2>2. heap = Blocks(0, 0) /\ args = <<>>
    BY <2>1 DEF HeapInv, Allocated
  <2>3. ArgsAreSequence' /\ Len(args') = 0
    BY <2>1, <2>2 DEF HeapInv, ArgsAreSequence
  <2> QED  BY <2>1, <2>2, <2>3, NextArgumentKeeps
<1>4. CASE gotSize
  <2>1. /\ pc = "recvCall" /\ want = "arg_size" /\ want' = "arg_val"
        /\ heap' = heap \cup {<<"arg_val", Len(args) + 1>>} /\ UNCHANGED <<pc, args, ret>>
    BY <1>4 DEF gotSize, Received, Receiving, Expect
  <2>2. 1 .. Len(args) + 1 = (1 .. Len(args)) \cup {Len(args) + 1}
    BY LengthsOfArgs DEF HeapInv
  <2>3. heap' = Blocks(Len(args) + 1, Len(args) + 1)
    BY <2>1, <2>2 DEF Blocks, HeapInv, Allocated
  <2> QED  BY <2>1, <2>3 DEF HeapInv, ArgsAreSequence, Allocated, Fresh
<1>5. CASE gotValue
  <2>1. /\ pc = "recvCall" /\ want = "arg_val" /\ args' = Append(args, got)
        /\ nextArgument(Len(args) + 1, nparams)
    BY <1>5 DEF gotValue, Received, Receiving
  <2>2. heap = Blocks(Len(args) + 1, Len(args) + 1)
    BY <2>1 DEF HeapInv, Allocated
  <2>3. PICK S : args \in Seq(S)
    BY DEF HeapInv, ArgsAreSequence
  <2>4. args \in Seq(S \cup {got}) /\ got \in S \cup {got}
    BY <2>3
  <2>5. args' \in Seq(S \cup {got}) /\ Len(args') = Len(args) + 1 /\ Len(args) \in Nat
    BY <2>1, <2>4
  <2>6. ArgsAreSequence'
    BY <2>5 DEF ArgsAreSequence
  <2> QED  BY <2>1, <2>2, <2>5, <2>6, NextArgumentKeeps
<1> QED  BY <1>1, <1>2, <1>3, <1>4, <1>5

\* The procedure returns a block of its own, and the end of the turn frees all.
LEMMA TurnKeeps ==
  ASSUME HeapInv, launch_server \/ accept \/ makeCall \/ closes
  PROVE  HeapInv'
<1>1. CASE launch_server \/ accept
  BY <1>1 DEF launch_server, accept, parse, HeapInv, ArgsAreSequence, Allocated, Fresh
<1>2. CASE makeCall
  <2>1. /\ pc = "makeCall" /\ pc' = "returnResult" /\ heap' = heap \cup Held(ret')
        /\ args' = args /\ want' = want
    BY <1>2 DEF makeCall, parse
  <2>2. heap' = Blocks(Len(args), Len(args)) \cup Held(ret')
    BY <2>1 DEF HeapInv, Allocated
  <2>3. Held(ret') = Held(ret)'
    BY DEF Held
  <2> QED  BY <2>1, <2>2, <2>3 DEF HeapInv, ArgsAreSequence, Allocated, Fresh
<1>3. CASE closes
  <2>1. /\ pc = "returnResult" /\ heap' = heap \ Freed /\ pc' = "accept"
        /\ want' = "fnamelen" /\ args' = <<>>
    BY <1>3 DEF closes, FreshCall
  <2>2. heap' = {}
    BY <2>1, FreedIsAllocated
  <2>3. ArgsAreSequence'
    BY <2>1 DEF ArgsAreSequence
  <2> QED  BY <2>1, <2>2, <2>3 DEF HeapInv, Allocated, Fresh
<1> QED  BY <1>1, <1>2, <1>3

\* All other steps leave the heap and what the invariant reads alone.
LEMMA OthersKeep ==
  ASSUME HeapInv, UNCHANGED <<want, args, ret, heap>>, pc' = pc \/ pc' = "exited"
  PROVE  HeapInv'
  BY DEF HeapInv, ArgsAreSequence, Allocated, Fresh, Held

\* Every step keeps the invariant.
LEMMA HeapStep ==
  ASSUME HeapInv, [Next]_vars
  PROVE  HeapInv'
<1>1. CASE register_procedure \/ recvSome \/ recvFails \/ emptyArgument \/ returnResult
           \/ returnResultFails
  BY <1>1, OthersKeep DEF register_procedure, recvSome, recvFails, emptyArgument, exits, returnResult,
     returnResultFails, parse
<1>2. CASE launch_server \/ accept \/ makeCall \/ closes
  BY <1>2, TurnKeeps
<1>3. CASE gotNameLength \/ gotName \/ gotCount \/ gotSize \/ gotValue
  BY <1>3, FieldKeeps
<1>4. ASSUME NEW c \in Client, Calling(c) \/ Killed(c) PROVE HeapInv'
  BY <1>4, OthersKeep DEF Calling, Killed, make_remote_call, connect, sendbytes, sent, recvbytes,
     gotReturnSize, returns, ConnectionLost, Leaves, parse
<1>5. CASE Ended \/ UNCHANGED vars
  BY <1>5, OthersKeep DEF Ended, vars, parse
<1> QED  BY <1>1, <1>2, <1>3, <1>4, <1>5 DEF Next, Server, recvCall

-----------------------------------------------------------------------------
\* Each block that recvCall, the procedure and makeCall allocate is freed at the
\* end of the turn, and between calls none is left, whatever the clients send
\* and in whatever pieces it comes (server_stub.c:279).
THEOREM BlocksAreFreed == Spec => []FreesWhatItAllocates
<1>1. Init => HeapInv
  BY DEF Init, HeapInv, ArgsAreSequence, Allocated, Fresh
<1>2. HeapInv /\ [Next]_vars => HeapInv'
  BY HeapStep
<1>3. HeapInv => FreesWhatItAllocates
  BY FreedIsAllocated
<1> QED  BY <1>1, <1>2, <1>3, PTL DEF Spec

-----------------------------------------------------------------------------
(* The request as it is sent.                                                *)

\* The arguments of a call after the first k, as they are sent.
RestOf(q, k) == FlattenSeq([i \in 1 .. Len(q.args) - k |-> Argument(q.args[k + i])])

\* What follows the name.
Header(q) == Cat(Encode(Len(q.args)), RestOf(q, 0))

\* The width of an int, and that its digits are bytes.
LEMMA BaseFacts ==
  /\ Base \in Nat /\ Base > 1 /\ Width \in Nat /\ INT_MAX \in Int
  /\ 0 .. Base - 1 \subseteq Byte /\ NUL \in Byte
<1>1. Base \in Nat /\ Base > 1
  BY BaseAssumption
<1>2. Base * Base \in Nat
  BY <1>1
<1>3. (Base * Base) \div 2 \in Int
  BY <1>2
<1> QED  BY <1>1, <1>2, <1>3 DEF Width, INT_MAX, Byte

\* An int that is sent is the int that is received.
LEMMA Encoded ==
  ASSUME NEW n \in Nat, n <= INT_MAX
  PROVE  Encode(n) \in Seq(Byte) /\ Len(Encode(n)) = IntSize /\ Decode(Encode(n)) = n
<1> DEFINE low  == LowDigit(Base, n)
           high == HighDigit(Base, n)
<1>1. n \in -((Base * Base) \div 2) .. ((Base * Base) \div 2) - 1
  <2>1. (Base * Base) \div 2 \in Int /\ n <= ((Base * Base) \div 2) - 1
    BY BaseFacts DEF INT_MAX, Width
  <2> QED  BY <2>1
<1>2. /\ low \in 0 .. Base - 1 /\ high \in 0 .. Base - 1
      /\ Signed(Base, low + Base * high) = n
  BY <1>1, BaseAssumption, TwosComplement
<1>3. Encode(n) = <<low, high>>
  BY DEF Encode, Width, LowDigit, HighDigit
<1> HIDE DEF low, high
<1>4. Encode(n) \in Seq(Byte) /\ Len(Encode(n)) = 2
  BY <1>2, <1>3, BaseFacts
<1>5. Decode(Encode(n)) = Signed(Base, low + Base * high)
  BY <1>3 DEF Decode, Wrap, Width, Signed
<1> QED  BY <1>2, <1>4, <1>5 DEF IntSize

\* A call as the assumptions describe it.
LEMMA CallFacts ==
  ASSUME NEW q \in Wanted
  PROVE  /\ q.name # NUL /\ q.name \in Byte
         /\ Len(q.args) \in Nat /\ Len(q.args) <= INT_MAX /\ q.args \in Seq(Seq(Byte))
         /\ DOMAIN q.args = 1 .. Len(q.args)
         /\ \A i \in 1 .. Len(q.args) :
              q.args[i] \in Seq(Byte) /\ Len(q.args[i]) \in Nat /\ Len(q.args[i]) <= INT_MAX
         /\ \A v \in Outcome(q) : v \in Seq(Byte) /\ Len(v) \in Nat /\ Len(v) <= INT_MAX
<1>1. /\ q.name # NUL /\ Len(q.args) <= INT_MAX /\ q.args \in Seq(Seq(Byte))
      /\ \A i \in DOMAIN q.args : Len(q.args[i]) <= INT_MAX
      /\ \A v \in Outcome(q) : v \in Seq(Byte) /\ Len(v) <= INT_MAX
  BY CallAssumption
<1>2. q.name \in Byte
  BY DEF Byte
<1>3. Len(q.args) \in Nat /\ DOMAIN q.args = 1 .. Len(q.args)
  BY <1>1
<1>4. \A i \in 1 .. Len(q.args) : q.args[i] \in Seq(Byte)
  BY <1>1
<1>5. \A s \in Seq(Byte) : Len(s) \in Nat
  OBVIOUS
<1> QED  BY <1>1, <1>2, <1>3, <1>4, <1>5

\* Two elements as a sequence, the first of them as a prefix.
LEMMA PairOf ==
  ASSUME NEW x, NEW y
  PROVE  Append(<<x>>, y) = <<x, y>> /\ SubSeq(<<x, y>>, 1, 1) = <<x>>
<1> DEFINE S == {x, y}
<1>1. x \in S /\ y \in S
  OBVIOUS
<1> HIDE DEF S
<1>2. <<x>> \in Seq(S) /\ <<x, y>> \in Seq(S) /\ Len(<<x>>) = 1 /\ Len(<<x, y>>) = 2
  BY <1>1
<1>3. Append(<<x>>, y) = <<x, y>>
  <2> DEFINE s == Append(<<x>>, y)
  <2>1. s \in Seq(S) /\ Len(s) = 2 /\ s[1] = x /\ s[2] = y
    BY <1>1, <1>2, AppendProperties
  <2> HIDE DEF s
  <2>2. \A i \in 1 .. 2 : s[i] = <<x, y>>[i]
    BY <2>1
  <2>3. s = <<x, y>>
    BY <1>2, <2>1, <2>2, SeqEqual
  <2> QED  BY <2>3 DEF s
<1>4. SubSeq(<<x, y>>, 1, 1) = <<x>>
  <2> DEFINE s == SubSeq(<<x, y>>, 1, 1)
  <2>1. s \in Seq(S) /\ Len(s) = 1 /\ s[1] = x
    BY <1>1, <1>2, SubSeqProperties
  <2> HIDE DEF s
  <2>2. s = <<x>>
    BY <1>2, <2>1, SeqEqual
  <2> QED  BY <2>2 DEF s
<1> QED  BY <1>3, <1>4

\* A name as it is sent, with its terminator, and as recvCall reads it back.
LEMMA NameAsString ==
  ASSUME NEW q \in Wanted
  PROVE  /\ String(<<q.name>>) \in Seq(Byte) /\ Len(String(<<q.name>>)) = IntSize
         /\ IntSize <= INT_MAX
         /\ Content(String(<<q.name>>)) = <<q.name>>
<1> DEFINE s == <<q.name, NUL>>
<1>1. String(<<q.name>>) = s
  BY PairOf DEF String
<1>2. s \in Seq(Byte) /\ Len(s) = 2
  BY CallFacts, BaseFacts
<1>3. strlen(s) = 1
  <2>1. DOMAIN s = 1 .. 2 /\ s[1] # NUL /\ s[2] = NUL
    BY CallFacts
  <2>2. \A i \in DOMAIN s : (s[i] = NUL /\ \A j \in 1 .. i - 1 : s[j] # NUL) <=> i = 2
    BY <2>1
  <2> HIDE DEF s
  <2>3. (CHOOSE i \in DOMAIN s : s[i] = NUL /\ \A j \in 1 .. i - 1 : s[j] # NUL) = 2
    BY <2>1, <2>2
  <2> QED  BY <2>3 DEF strlen
<1>4. Content(s) = <<q.name>>
  BY <1>3, PairOf DEF Content
<1>5. 2 <= INT_MAX
  BY <1>1, <1>2, CallAssumption
<1> QED  BY <1>1, <1>2, <1>4, <1>5 DEF IntSize

\* An argument is sent as its size and its bytes.
LEMMA ArgumentParts ==
  ASSUME NEW a \in Seq(Byte), Len(a) <= INT_MAX
  PROVE  Argument(a) = Cat(Encode(Len(a)), a) /\ Argument(a) \in Seq(Byte)
<1>1. Argument(a) = Cat(Encode(Len(a)), a)
  BY Zenon DEF Argument, Cat
<1>2. Encode(Len(a)) \in Seq(Byte)
  BY Encoded
<1> QED  BY <1>1, <1>2, CatType

\* What is sent of the arguments is bytes.
LEMMA RestType ==
  ASSUME NEW q \in Wanted, NEW k \in 0 .. Len(q.args)
  PROVE  /\ [i \in 1 .. Len(q.args) - k |-> Argument(q.args[k + i])] \in Seq(Seq(Byte))
         /\ RestOf(q, k) \in Seq(Byte)
<1> DEFINE m == Len(q.args) - k
           s == [i \in 1 .. m |-> Argument(q.args[k + i])]
<1>1. m \in Nat /\ \A i \in 1 .. m : k + i \in 1 .. Len(q.args)
  BY CallFacts
<1>2. \A i \in 1 .. m : Argument(q.args[k + i]) \in Seq(Byte)
  BY <1>1, CallFacts, ArgumentParts
<1>3. s \in Seq(Seq(Byte))
  BY <1>1, <1>2
<1> HIDE DEF s
<1>4. FlattenSeq(s) \in Seq(Byte)
  BY <1>3, FlattenType
<1> QED  BY <1>3, <1>4 DEF RestOf, s

\* The arguments after the first k are the next one and those after it.
LEMMA RestStep ==
  ASSUME NEW q \in Wanted, NEW k \in Nat, k < Len(q.args)
  PROVE  RestOf(q, k) = Cat(Encode(Len(q.args[k + 1])), Cat(q.args[k + 1], RestOf(q, k + 1)))
<1> DEFINE n == Len(q.args)
           a == q.args[k + 1]
           t == [i \in 1 .. n - k |-> Argument(q.args[k + i])]
           s == [i \in 1 .. n - (k + 1) |-> Argument(q.args[(k + 1) + i])]
<1>1. n \in Nat /\ k \in 0 .. n /\ k + 1 \in 0 .. n /\ k + 1 \in 1 .. n
  BY CallFacts
<1>2. t \in Seq(Seq(Byte)) /\ s \in Seq(Seq(Byte)) /\ RestOf(q, k + 1) \in Seq(Byte)
  BY <1>1, RestType
<1>3. a \in Seq(Byte) /\ Len(a) \in Nat /\ Len(a) <= INT_MAX
  BY <1>1, CallFacts
<1>4. Len(t) = n - k /\ Len(s) = n - (k + 1) /\ Len(t) = Len(s) + 1
  BY <1>1
<1>5. t[1] = Argument(a)
  BY <1>1
<1>6. \A i \in 1 .. Len(s) : t[i + 1] = s[i]
  <2>1. ASSUME NEW i \in 1 .. Len(s) PROVE t[i + 1] = s[i]
    <3>1. i \in 1 .. n - (k + 1) /\ i + 1 \in 1 .. n - k /\ k + (i + 1) = (k + 1) + i
      BY <1>1, <1>4, <2>1
    <3> QED  BY <3>1
  <2> QED  BY <2>1
<1>7. Argument(a) = Cat(Encode(Len(a)), a) /\ Argument(a) \in Seq(Byte) /\ Encode(Len(a)) \in Seq(Byte)
  BY <1>3, ArgumentParts, Encoded
<1> HIDE DEF a, t, s, n
<1>8. FlattenSeq(t) = Cat(Argument(a), FlattenSeq(s))
  BY <1>2, <1>4, <1>5, <1>6, <1>7, FlattenCons DEF Cat
<1>9. RestOf(q, k) = FlattenSeq(t) /\ RestOf(q, k + 1) = FlattenSeq(s)
  BY Zenon DEF RestOf, t, s, n
<1>10. Cat(Cat(Encode(Len(a)), a), RestOf(q, k + 1)) = Cat(Encode(Len(a)), Cat(a, RestOf(q, k + 1)))
  BY <1>2, <1>3, <1>7, CatAssociative
<1> QED  BY <1>7, <1>8, <1>9, <1>10 DEF a

\* After the last argument nothing is left.
LEMMA RestEnd ==
  ASSUME NEW q \in Wanted
  PROVE  RestOf(q, Len(q.args)) = <<>>
<1> DEFINE s == [i \in 1 .. Len(q.args) - Len(q.args) |-> Argument(q.args[Len(q.args) + i])]
<1>1. s = <<>>
  BY CallFacts
<1> HIDE DEF s
<1> QED  BY <1>1, FlattenEmpty DEF RestOf, s

\* The request in the order in which it is sent.
LEMMA MarshalParts ==
  ASSUME NEW q \in Wanted
  PROVE  /\ Marshal(q) = Cat(Encode(IntSize), Cat(String(<<q.name>>), Header(q)))
         /\ Marshal(q) \in Seq(Byte) /\ Header(q) \in Seq(Byte)
<1> DEFINE a == Encode(Len(String(<<q.name>>)))
           b == String(<<q.name>>)
           c == Encode(Len(q.args))
           d == FlattenSeq([i \in DOMAIN q.args |-> Argument(q.args[i])])
<1>1. Marshal(q) = Cat(Cat(Cat(a, b), c), d)
  BY Zenon DEF Marshal, Cat
<1>2. d = RestOf(q, 0)
  <2>1. DOMAIN q.args = 1 .. Len(q.args) - 0 /\ \A i \in 1 .. Len(q.args) - 0 : 0 + i = i
    BY CallFacts
  <2>2. [i \in DOMAIN q.args |-> Argument(q.args[i])] = [i \in 1 .. Len(q.args) - 0 |-> Argument(q.args[0 + i])]
    BY <2>1
  <2> QED  BY <2>2 DEF RestOf
<1>3. a = Encode(IntSize)
  BY NameAsString
<1>4. a \in Seq(Byte) /\ b \in Seq(Byte) /\ c \in Seq(Byte) /\ d \in Seq(Byte)
  <2>1. IntSize \in Nat /\ 0 \in 0 .. Len(q.args)
    BY CallFacts DEF IntSize
  <2>2. a \in Seq(Byte)
    BY <1>3, <2>1, NameAsString, Encoded
  <2>3. c \in Seq(Byte)
    BY CallFacts, Encoded
  <2> QED  BY <1>2, <2>1, <2>2, <2>3, NameAsString, RestType
<1> HIDE DEF a, b, c, d
<1>5. Cat(Cat(Cat(a, b), c), d) = Cat(Cat(a, b), Cat(c, d))
  BY <1>4, CatType, CatAssociative
<1>6. Cat(c, d) \in Seq(Byte) /\ Cat(a, b) \in Seq(Byte)
  BY <1>4, CatType
<1>7. Cat(Cat(a, b), Cat(c, d)) = Cat(a, Cat(b, Cat(c, d)))
  BY <1>4, <1>6, CatAssociative
<1>8. Header(q) = Cat(c, d)
  BY <1>2 DEF Header, c
<1>9. Cat(b, Cat(c, d)) \in Seq(Byte)
  BY <1>4, <1>6, CatType
<1>10. Cat(a, Cat(b, Cat(c, d))) \in Seq(Byte)
  BY <1>4, <1>9, CatType
<1> QED  BY <1>1, <1>3, <1>5, <1>6, <1>7, <1>8, <1>10 DEF b

-----------------------------------------------------------------------------
(* The procedure that is called.                                             *)

\* The list holds what main() has registered so far, newest first.
Registered ==
  /\ fnp \in Seq(ToSet(Registration)) /\ Len(fnp) <= Len(Registration)
  /\ \A i \in 1 .. Len(fnp) : fnp[i] = Registration[Len(fnp) + 1 - i]
  /\ pc # "main" => Len(fnp) = Len(Registration)

\* register_procedure() puts the next of them at the head of the list.
LEMMA RegisteredStep ==
  ASSUME Registered, register_procedure
  PROVE  Registered'
<1> DEFINE P == ToSet(Registration)
           n == Len(fnp)
           f == Registration[n + 1]
<1>1. Registration \in Seq(P)
  BY CallAssumption
<1> HIDE DEF P
<1>2. /\ fnp \in Seq(P) /\ n < Len(Registration) /\ pc = "main" /\ pc' = pc
      /\ fnp' = <<f>> \o fnp
  BY DEF Registered, register_procedure, pushed, P
<1>3. n \in Nat /\ Len(Registration) \in Nat
  BY <1>1, <1>2
<1>4. f \in P
  BY <1>1, <1>2, <1>3
<1>5. /\ fnp' \in Seq(P) /\ Len(fnp') = n + 1
      /\ \A i \in 1 .. n + 1 : fnp'[i] = IF i = 1 THEN f ELSE fnp[i - 1]
  BY <1>2, <1>3, <1>4
<1>6. \A i \in 1 .. n : fnp[i] = Registration[n + 1 - i]
  BY DEF Registered
<1>7. \A i \in 1 .. n + 1 : fnp'[i] = Registration[n + 2 - i]
  <2>1. SUFFICES ASSUME NEW i \in 1 .. n + 1, i # 1 PROVE fnp'[i] = Registration[n + 2 - i]
    BY <1>3, <1>5
  <2>2. i - 1 \in 1 .. n
    BY <1>3, <2>1
  <2>3. fnp[i - 1] = Registration[n + 1 - (i - 1)]
    BY <1>6, <2>2
  <2> QED  BY <1>3, <1>5, <2>1, <2>3
<1> QED  BY <1>2, <1>3, <1>5, <1>7 DEF Registered, P

\* The procedure found is the one registered last under the name for so many
\* arguments.
LEMMA ResultsAreOutcome ==
  ASSUME Registered, pc # "main", NEW q,
         fname = <<q.name>>, nparams = Len(q.args), args = q.args
  PROVE  Results = Outcome(q)
<1> DEFINE for == {i \in DOMAIN Registration :
                     Registration[i].name = q.name /\ Registration[i].nparams = Len(q.args)}
           found == {i \in DOMAIN fnp : Matches(fnp[i])}
           n == Len(Registration)
<1>1. /\ n \in Nat /\ DOMAIN Registration = 1 .. n /\ DOMAIN fnp = 1 .. n
      /\ \A i \in 1 .. n : fnp[i] = Registration[n + 1 - i]
  BY CallAssumption DEF Registered
<1> HIDE DEF n
<1>2. \A i \in 1 .. n : n + 1 - i \in 1 .. n /\ n + 1 - (n + 1 - i) = i
  BY <1>1
<1>3. \A f : Matches(f) <=> f.name = q.name /\ f.nparams = Len(q.args)
  BY DEF Matches
<1>4. \A i \in 1 .. n : i \in found <=> n + 1 - i \in for
  BY <1>1, <1>2, <1>3
<1>5. \A i \in 1 .. n : i \in for <=> n + 1 - i \in found
  BY <1>1, <1>2, <1>4
<1>6. found \subseteq 1 .. n /\ for \subseteq 1 .. n
  BY <1>1
<1> HIDE DEF found, for
<1>7. found = {} <=> for = {}
  BY <1>2, <1>4, <1>5, <1>6
<1>8. ASSUME found # {} PROVE fnp[Min(found)] = Registration[Max(for)]
  <2>1. PICK k \in found : k = Min(found) /\ \A j \in found : k <= j
    <3>1. found \in SUBSET Nat
      BY <1>1, <1>6
    <3> QED  BY <1>8, <3>1, MinOfNats
  <2>2. n + 1 - k \in for /\ \A j \in for : n + 1 - k >= j
    <3>1. n + 1 - k \in for
      BY <1>4, <1>6, <2>1
    <3>2. ASSUME NEW j \in for PROVE n + 1 - k >= j
      <4>1. n + 1 - j \in found
        BY <1>5, <1>6
      <4>2. k <= n + 1 - j
        BY <2>1, <4>1
      <4> QED  BY <1>1, <1>6, <2>1, <4>2
    <3> QED  BY <3>1, <3>2
  <2>3. Max(for) = n + 1 - k
    <3>1. \A j \in for : (\A x \in for : j >= x) => j = n + 1 - k
      BY <1>1, <1>6, <2>1, <2>2
    <3> QED  BY <2>2, <3>1 DEF Max
  <2>4. fnp[k] = Registration[n + 1 - k]
    BY <1>1, <1>6, <2>1
  <2> QED  BY <2>1, <2>3, <2>4
<1>9. Results = IF found = {} THEN {Nothing} ELSE Apply(fnp[Min(found)].proc, nparams, args)
  BY DEF Results, found
<1>10. Outcome(q) = IF for = {} THEN {Nothing} ELSE Apply(Registration[Max(for)].proc, Len(q.args), q.args)
  BY DEF Outcome, for
<1> QED  BY <1>7, <1>8, <1>9, <1>10

-----------------------------------------------------------------------------
(* The invariant.                                                            *)

\* TypeOK in two parts, and the type of executed.
ClientTypes ==
  /\ stage \in [Client -> {"idle", "connecting", "sending", "receiving", "gone"}]
  /\ request \in [Client -> Wanted \cup {NoRequest}]
  /\ unsent \in [Client -> Seq(Byte)]
  /\ rsize \in [Client -> Int] /\ rgot \in [Client -> Seq(Byte)]
  /\ up \in [Client -> Seq(Byte)] /\ down \in [Client -> Seq(Byte)]
  /\ \A c \in Client : Len(up[c]) <= Room /\ Len(down[c]) <= Room
  /\ executed \in [Client -> Seq(Seq(Byte))]

ServerTypes ==
  /\ backlog \in Seq(Client) /\ Len(backlog) <= BacklogSize
  /\ serving \in Client \cup {NoClient}
  /\ pc \in {"main", "accept", "recvCall", "makeCall", "returnResult", "exited"}
  /\ want \in {"fnamelen", "fname", "nparams", "arg_size", "arg_val"}
  /\ need \in Nat /\ got \in Seq(Byte) /\ Len(got) <= need
  /\ fname \in Seq(Byte) /\ nparams \in Int /\ args \in Seq(Seq(Byte))
  /\ ret \in Seq(Byte) /\ unsentback \in Seq(Byte)

\* What the server has still to send to a client.
Owed(c) == IF pc = "returnResult" /\ serving = c THEN unsentback ELSE <<>>

\* What a client has of an answer, and what is on its way.
Arriving(c) == Cat(rgot[c], Cat(down[c], Owed(c)))

\* All of it is the answer v.
Answered(c, v) ==
  \/ rsize[c] = -1 /\ Len(rgot[c]) <= IntSize /\ Arriving(c) = Cat(Encode(Len(v)), v)
  \/ rsize[c] = Len(v) /\ Arriving(c) = v

\* The two ends of a connection.
Open(c) == stage[c] \in {"sending", "receiving"}

\* A client that has a connection: it has nothing of an answer before its call has
\* been executed, and afterwards it has, gets or is owed one of the results.
CallerOK(c) ==
  /\ stage[c] \in {"idle", "connecting"} => executed[c] = <<>>
  /\ stage[c] \in {"idle", "connecting", "sending"} => rsize[c] = -1 /\ rgot[c] = <<>>
  /\ stage[c] # "idle" => request[c] \in Wanted
  /\ Open(c) /\ executed[c] = <<>> => rsize[c] = -1 /\ rgot[c] = <<>> /\ down[c] = <<>>
  /\ Open(c) /\ executed[c] # <<>> =>
       \E v \in Outcome(request[c]) : executed[c] = <<v>> /\ Answered(c, v)

Callers == \A c \in Client : CallerOK(c)

\* The server reads the request of this client, or has not sent all of its answer.
Busy(c) ==
  /\ serving = c
  /\ pc \in {"recvCall", "makeCall"} \/ (pc = "returnResult" /\ unsentback # <<>>)

Connected(c) == stage[c] \in {"sending", "receiving", "gone"}

\* What the server has still to read of a request.
Stream(c) == Cat(up[c], unsent[c])

\* A connection that waits to be accepted brings a whole request.
QueuedOK ==
  \A c \in Client : backlog = <<c>> =>
    /\ pc # "main" /\ Connected(c) /\ ~ Busy(c)
    /\ executed[c] = <<>> /\ Stream(c) = Marshal(request[c])

\* The field that is read, and what follows it.
Reads(field, beyond, stream) == need = Len(field) /\ Cat(got, stream) = Cat(field, beyond)

\* The arguments that have been read.
Parsed(q) ==
  /\ fname = <<q.name>> /\ nparams = Len(q.args)
  /\ Len(args) < Len(q.args) /\ \A i \in 1 .. Len(args) : args[i] = q.args[i]

\* Where recvCall is in the request q, stream being what is to come.
ReadSoFar(q, stream) ==
  \/ /\ want = "fnamelen" /\ args = <<>>
     /\ Reads(Encode(IntSize), Cat(String(<<q.name>>), Header(q)), stream)
  \/ /\ want = "fname" /\ args = <<>>
     /\ Reads(String(<<q.name>>), Header(q), stream)
  \/ /\ want = "nparams" /\ args = <<>> /\ fname = <<q.name>>
     /\ Reads(Encode(Len(q.args)), RestOf(q, 0), stream)
  \/ /\ want = "arg_size" /\ Parsed(q)
     /\ Reads(Encode(Len(q.args[Len(args) + 1])),
              Cat(q.args[Len(args) + 1], RestOf(q, Len(args) + 1)), stream)
  \/ /\ want = "arg_val" /\ Parsed(q)
     /\ Reads(q.args[Len(args) + 1], RestOf(q, Len(args) + 1), stream)

\* The client that is served: what recvCall has and what is still to come make up
\* its request, and its call is executed when the answer is on its way.
ServedOK ==
  \A c \in Client : Busy(c) =>
    /\ Connected(c)
    /\ executed[c] = <<>> <=> pc # "returnResult"
    /\ pc = "recvCall" => ReadSoFar(request[c], Stream(c))
    /\ pc = "makeCall" =>
         /\ up[c] = <<>> /\ unsent[c] = <<>>
         /\ fname = <<request[c].name>> /\ nparams = Len(request[c].args) /\ args = request[c].args

\* Between calls the parser is at the start of a request; during one a client is
\* served.
BetweenCalls ==
  /\ pc \in {"main", "accept"} => want = "fnamelen" /\ need = IntSize /\ got = <<>> /\ args = <<>>
  /\ pc \in {"recvCall", "makeCall", "returnResult"} => serving \in Client
  /\ pc = "main" => backlog = <<>>

\* The call with an empty argument is never answered.
ExitOK ==
  pc = "exited" =>
    \/ \E c \in Client : stage[c] = "gone"
    \/ /\ serving \in Client /\ Open(serving) /\ executed[serving] = <<>>
       /\ \E i \in DOMAIN request[serving].args : request[serving].args[i] = <<>>

\* The inductive invariant.
CallInv ==
  ClientTypes /\ ServerTypes /\ Registered /\ Callers /\ QueuedOK /\ ServedOK /\ BetweenCalls /\ ExitOK

-----------------------------------------------------------------------------
(* Steps of one client.                                                      *)

\* All that a step may change of a client.
Becomes(c, st, rq, un, rs, rg, u, dn, ex) ==
  /\ stage' = [stage EXCEPT ![c] = st] /\ request' = [request EXCEPT ![c] = rq]
  /\ unsent' = [unsent EXCEPT ![c] = un]
  /\ rsize' = [rsize EXCEPT ![c] = rs] /\ rgot' = [rgot EXCEPT ![c] = rg]
  /\ up' = [up EXCEPT ![c] = u] /\ down' = [down EXCEPT ![c] = dn]
  /\ executed' = [executed EXCEPT ![c] = ex]

\* Nothing happens to a client.
Same(d) ==
  /\ stage'[d] = stage[d] /\ request'[d] = request[d] /\ unsent'[d] = unsent[d]
  /\ rsize'[d] = rsize[d] /\ rgot'[d] = rgot[d]
  /\ up'[d] = up[d] /\ down'[d] = down[d] /\ executed'[d] = executed[d]

\* How the clients then are.
Now(c, st, rq, un, rs, rg, u, dn, ex) ==
  /\ ClientTypes'
  /\ stage'[c] = st /\ request'[c] = rq /\ unsent'[c] = un /\ rsize'[c] = rs /\ rgot'[c] = rg
  /\ up'[c] = u /\ down'[c] = dn /\ executed'[c] = ex
  /\ \A d \in Client \ {c} : Same(d)

\* The server is where it was.
ServerSame == UNCHANGED <<serving, pc, fnp, parse, ret, unsentback>>

\* A variable that a step leaves alone, in the form that Becomes has.
LEMMA Keeps ==
  ASSUME ClientTypes, NEW c \in Client
  PROVE  /\ stage = [stage EXCEPT ![c] = stage[c]] /\ request = [request EXCEPT ![c] = request[c]]
         /\ unsent = [unsent EXCEPT ![c] = unsent[c]]
         /\ rsize = [rsize EXCEPT ![c] = rsize[c]] /\ rgot = [rgot EXCEPT ![c] = rgot[c]]
         /\ up = [up EXCEPT ![c] = up[c]] /\ down = [down EXCEPT ![c] = down[c]]
         /\ executed = [executed EXCEPT ![c] = executed[c]]
<1>1. ASSUME NEW S, NEW f \in [Client -> S] PROVE f = [f EXCEPT ![c] = f[c]]
  OBVIOUS
<1> QED  BY <1>1 DEF ClientTypes

\* A step that changes the variables of one client leaves those of the others.
LEMMA BecomesView ==
  ASSUME ClientTypes, NEW c \in Client,
         NEW st \in {"idle", "connecting", "sending", "receiving", "gone"},
         NEW rq \in Wanted \cup {NoRequest}, NEW un \in Seq(Byte), NEW rs \in Int,
         NEW rg \in Seq(Byte), NEW u \in Seq(Byte), NEW dn \in Seq(Byte), NEW ex \in Seq(Seq(Byte)),
         Len(u) <= Room, Len(dn) <= Room,
         Becomes(c, st, rq, un, rs, rg, u, dn, ex)
  PROVE  Now(c, st, rq, un, rs, rg, u, dn, ex)
<1>1. ASSUME NEW S, NEW f \in [Client -> S], NEW x \in S
      PROVE  /\ [f EXCEPT ![c] = x] \in [Client -> S] /\ [f EXCEPT ![c] = x][c] = x
             /\ \A d \in Client \ {c} : [f EXCEPT ![c] = x][d] = f[d]
  OBVIOUS
<1>2. /\ stage' \in [Client -> {"idle", "connecting", "sending", "receiving", "gone"}]
      /\ stage'[c] = st /\ \A d \in Client \ {c} : stage'[d] = stage[d]
  BY <1>1 DEF ClientTypes, Becomes
<1>3. /\ request' \in [Client -> Wanted \cup {NoRequest}]
      /\ request'[c] = rq /\ \A d \in Client \ {c} : request'[d] = request[d]
  BY <1>1 DEF ClientTypes, Becomes
<1>4. /\ unsent' \in [Client -> Seq(Byte)]
      /\ unsent'[c] = un /\ \A d \in Client \ {c} : unsent'[d] = unsent[d]
  BY <1>1 DEF ClientTypes, Becomes
<1>5. /\ rsize' \in [Client -> Int]
      /\ rsize'[c] = rs /\ \A d \in Client \ {c} : rsize'[d] = rsize[d]
  BY <1>1 DEF ClientTypes, Becomes
<1>6. /\ rgot' \in [Client -> Seq(Byte)]
      /\ rgot'[c] = rg /\ \A d \in Client \ {c} : rgot'[d] = rgot[d]
  BY <1>1 DEF ClientTypes, Becomes
<1>7. /\ up' \in [Client -> Seq(Byte)]
      /\ up'[c] = u /\ \A d \in Client \ {c} : up'[d] = up[d]
  BY <1>1 DEF ClientTypes, Becomes
<1>8. /\ down' \in [Client -> Seq(Byte)]
      /\ down'[c] = dn /\ \A d \in Client \ {c} : down'[d] = down[d]
  BY <1>1 DEF ClientTypes, Becomes
<1>9. /\ executed' \in [Client -> Seq(Seq(Byte))]
      /\ executed'[c] = ex /\ \A d \in Client \ {c} : executed'[d] = executed[d]
  BY <1>1 DEF ClientTypes, Becomes
<1>10. \A d \in Client : Len(up'[d]) <= Room /\ Len(down'[d]) <= Room
  BY <1>7, <1>8 DEF ClientTypes
<1>11. ClientTypes'
  BY <1>2, <1>3, <1>4, <1>5, <1>6, <1>7, <1>8, <1>9, <1>10 DEF ClientTypes
<1>12. \A d \in Client \ {c} : Same(d)
  BY <1>2, <1>3, <1>4, <1>5, <1>6, <1>7, <1>8, <1>9 DEF Same
<1> QED  BY <1>2, <1>3, <1>4, <1>5, <1>6, <1>7, <1>8, <1>9, <1>11, <1>12 DEF Now

\* A client to which nothing happens.
LEMMA SameCaller ==
  ASSUME NEW d \in Client, CallerOK(d), Same(d), Owed(d)' = Owed(d)
  PROVE  CallerOK(d)'
  BY DEF CallerOK, Same, Open, Answered, Arriving

\* What the invariant says of the server holds while the server does nothing.
LEMMA SameServer ==
  ASSUME ServerTypes, Registered, BetweenCalls, ServerSame, backlog' = backlog
  PROVE  /\ ServerTypes' /\ Registered' /\ BetweenCalls'
         /\ \A c \in Client : Owed(c)' = Owed(c) /\ Busy(c)' = Busy(c)
         /\ \A q, s : ReadSoFar(q, s)' = ReadSoFar(q, s)
<1>1. ServerTypes' /\ BetweenCalls'
  BY DEF ServerTypes, BetweenCalls, ServerSame, parse
<1>2. Registered'
  BY DEF Registered, ServerSame
<1>3. \A c \in Client : Owed(c)' = Owed(c) /\ Busy(c)' = Busy(c)
  BY DEF ServerSame, Owed, Busy
<1>4. \A q, s : ReadSoFar(q, s)' = ReadSoFar(q, s)
  BY DEF ServerSame, parse, ReadSoFar, Reads, Parsed
<1> QED  BY <1>1, <1>2, <1>3, <1>4

\* A step of a client keeps the invariant if it keeps its own part, leaves what
\* the server knows of it as it is, and does not come back from being gone.
LEMMA ClientKeeps ==
  ASSUME CallInv, NEW c \in Client, ServerSame, backlog' = backlog, ClientTypes',
         \A d \in Client \ {c} : Same(d), CallerOK(c)',
         backlog = <<c>> \/ Busy(c) =>
           /\ Connected(c)' /\ executed'[c] = executed[c] /\ request'[c] = request[c]
           /\ Stream(c)' = Stream(c)
           /\ up[c] = <<>> /\ unsent[c] = <<>> => up'[c] = <<>> /\ unsent'[c] = <<>>,
         stage[c] = "gone" => stage'[c] = "gone",
         Open(c) /\ executed[c] = <<>> =>
           \/ stage'[c] = "gone"
           \/ Open(c)' /\ executed'[c] = executed[c] /\ request'[c] = request[c]
  PROVE  CallInv'
<1>1. /\ ServerTypes' /\ Registered' /\ BetweenCalls'
      /\ \A d \in Client : Owed(d)' = Owed(d) /\ Busy(d)' = Busy(d)
      /\ \A q, s : ReadSoFar(q, s)' = ReadSoFar(q, s)
  BY SameServer DEF CallInv
<1>2. Callers'
  <2>1. ASSUME NEW d \in Client, d # c PROVE CallerOK(d)'
    BY <1>1, <2>1, SameCaller DEF CallInv, Callers
  <2> QED  BY <2>1 DEF Callers
<1>3. \A d \in Client : backlog = <<d>> \/ Busy(d) =>
        /\ Connected(d) => Connected(d)'
        /\ executed'[d] = executed[d] /\ request'[d] = request[d]
        /\ Stream(d)' = Stream(d)
        /\ up[d] = <<>> /\ unsent[d] = <<>> => up'[d] = <<>> /\ unsent'[d] = <<>>
  BY DEF Same, Connected, Stream
<1>4. pc' = pc /\ fname' = fname /\ nparams' = nparams /\ args' = args
  BY DEF ServerSame, parse
<1>5. QueuedOK'
  <2> SUFFICES ASSUME NEW d \in Client, backlog = <<d>>
               PROVE  /\ pc # "main" /\ Connected(d)' /\ ~ Busy(d)
                      /\ executed'[d] = <<>> /\ Stream(d)' = Marshal(request'[d])
    BY <1>1, <1>4 DEF QueuedOK
  <2> QED  BY <1>3 DEF CallInv, QueuedOK
<1>6. ServedOK'
  <2> SUFFICES ASSUME NEW d \in Client, Busy(d)
               PROVE  /\ Connected(d)'
                      /\ executed'[d] = <<>> <=> pc # "returnResult"
                      /\ pc = "recvCall" => ReadSoFar(request'[d], Stream(d)')
                      /\ pc = "makeCall" =>
                           /\ up'[d] = <<>> /\ unsent'[d] = <<>>
                           /\ fname = <<request'[d].name>> /\ nparams = Len(request'[d].args)
                           /\ args = request'[d].args
    <3>1. \A d \in Client : ReadSoFar(request[d], Stream(d))' = ReadSoFar(request'[d], Stream(d)')
      BY <1>4 DEF ServerSame, parse, ReadSoFar, Reads, Parsed
    <3> QED  BY <1>1, <1>4, <3>1 DEF ServedOK
  <2> QED  BY <1>3 DEF CallInv, ServedOK
<1>7. ExitOK'
  <2> SUFFICES ASSUME pc = "exited" PROVE ExitOK'
    BY <1>4 DEF ExitOK
  <2>1. CASE \E d \in Client : stage[d] = "gone"
    BY <2>1 DEF ExitOK, Same
  <2>2. CASE /\ serving \in Client /\ Open(serving) /\ executed[serving] = <<>>
             /\ \E i \in DOMAIN request[serving].args : request[serving].args[i] = <<>>
    <3>1. serving' = serving
      BY DEF ServerSame
    <3>2. \/ stage'[serving] = "gone"
          \/ /\ Open(serving)' /\ executed'[serving] = executed[serving]
             /\ request'[serving] = request[serving]
      BY <2>2, <3>1 DEF Same, Open
    <3> QED  BY <2>2, <3>1, <3>2 DEF ExitOK
  <2> QED  BY <2>1, <2>2 DEF CallInv, ExitOK
<1> QED  BY <1>1, <1>2, <1>5, <1>6, <1>7 DEF CallInv

\* A send() moves bytes that are there into room that is there.
LEMMA SendableFacts ==
  ASSUME NEW s \in Seq(Byte), NEW t \in Seq(Byte), NEW n \in Sendable(s, t)
  PROVE  n \in 0 .. Len(s) /\ n > 0 /\ Len(t) + n <= Room
<1> DEFINE a == Len(s)
           b == Room - Len(t)
<1>1. a \in Int /\ b \in Int
  BY StreamAssumption
<1>2. n \in 1 .. Min({a, b})
  BY DEF Sendable
<1> HIDE DEF a, b
<1>3. n \in 1 .. a /\ n \in 1 .. b
  BY <1>1, <1>2, MinOfTwo
<1> QED  BY <1>1, <1>3, StreamAssumption DEF a, b

\* The bounds of a client's variables.
LEMMA ClientFacts ==
  ASSUME ClientTypes, NEW c \in Client
  PROVE  /\ stage[c] \in {"idle", "connecting", "sending", "receiving", "gone"}
         /\ request[c] \in Wanted \cup {NoRequest} /\ unsent[c] \in Seq(Byte)
         /\ rsize[c] \in Int /\ rgot[c] \in Seq(Byte)
         /\ up[c] \in Seq(Byte) /\ down[c] \in Seq(Byte)
         /\ Len(up[c]) <= Room /\ Len(down[c]) <= Room
         /\ executed[c] \in Seq(Seq(Byte))
         /\ <<>> \in Seq(Byte) /\ Len(<<>>) = 0 /\ 0 <= Room /\ -1 \in Int
  BY StreamAssumption DEF ClientTypes

\* What is on its way to a client and from it is bytes.
LEMMA CallerTypes ==
  ASSUME ClientTypes, ServerTypes, NEW c \in Client
  PROVE  /\ Owed(c) \in Seq(Byte) /\ Cat(down[c], Owed(c)) \in Seq(Byte) /\ Arriving(c) \in Seq(Byte)
         /\ Stream(c) \in Seq(Byte)
<1>1. Owed(c) \in Seq(Byte)
  BY DEF Owed, ServerTypes
<1>2. Cat(down[c], Owed(c)) \in Seq(Byte)
  BY <1>1, ClientFacts, CatType
<1> QED  BY <1>1, <1>2, ClientFacts, CatType DEF Arriving, Stream

\* A client that begins a call has no connection yet.
LEMMA CallKeeps ==
  ASSUME CallInv, NEW c \in Client, make_remote_call(c)
  PROVE  CallInv'
<1>0. /\ ClientTypes /\ ServerTypes
      /\ stage[c] \in {"idle", "connecting", "sending", "receiving", "gone"}
      /\ request[c] \in Wanted \cup {NoRequest} /\ unsent[c] \in Seq(Byte)
      /\ rsize[c] \in Int /\ rgot[c] \in Seq(Byte)
      /\ up[c] \in Seq(Byte) /\ down[c] \in Seq(Byte)
      /\ Len(up[c]) <= Room /\ Len(down[c]) <= Room
      /\ executed[c] \in Seq(Seq(Byte))
      /\ <<>> \in Seq(Byte) /\ Len(<<>>) = 0 /\ 0 <= Room /\ -1 \in Int
  BY ClientFacts DEF CallInv
<1>1. PICK q \in Wanted : request' = [request EXCEPT ![c] = q]
  BY DEF make_remote_call
<1>2. /\ stage[c] = "idle" /\ stage' = [stage EXCEPT ![c] = "connecting"]
      /\ ServerSame /\ backlog' = backlog
      /\ UNCHANGED <<unsent, rsize, rgot, up, down, executed>>
  BY DEF make_remote_call, Stage, ServerSame
<1>3. Becomes(c, "connecting", q, unsent[c], rsize[c], rgot[c], up[c], down[c], executed[c])
  BY <1>1, <1>2, Keeps DEF CallInv, Becomes
<1>4. Now(c, "connecting", q, unsent[c], rsize[c], rgot[c], up[c], down[c], executed[c])
  BY <1>3, <1>0, BecomesView
<1>5. CallerOK(c)'
  BY <1>2, <1>4 DEF Now, CallInv, Callers, CallerOK, Open
<1>6. ~ (backlog = <<c>> \/ Busy(c))
  BY <1>2 DEF CallInv, QueuedOK, ServedOK, Connected
<1> QED  BY <1>2, <1>4, <1>5, <1>6, ClientKeeps DEF Now, Open

\* A send() moves bytes within what the server has still to read.
LEMMA SendKeeps ==
  ASSUME CallInv, NEW c \in Client, sendbytes(c)
  PROVE  CallInv'
<1>0. /\ ClientTypes /\ ServerTypes
      /\ stage[c] \in {"idle", "connecting", "sending", "receiving", "gone"}
      /\ request[c] \in Wanted \cup {NoRequest} /\ unsent[c] \in Seq(Byte)
      /\ rsize[c] \in Int /\ rgot[c] \in Seq(Byte)
      /\ up[c] \in Seq(Byte) /\ down[c] \in Seq(Byte)
      /\ Len(up[c]) <= Room /\ Len(down[c]) <= Room
      /\ executed[c] \in Seq(Seq(Byte))
      /\ <<>> \in Seq(Byte) /\ Len(<<>>) = 0 /\ 0 <= Room /\ -1 \in Int
  BY ClientFacts DEF CallInv
<1>1. PICK n \in Sendable(unsent[c], up[c]) :
        /\ up' = [up EXCEPT ![c] = Cat(up[c], Ahead(unsent[c], n))]
        /\ unsent' = [unsent EXCEPT ![c] = Behind(unsent[c], n)]
  BY Zenon DEF sendbytes, First, After, Cat, Ahead, Behind
<1>2. /\ stage[c] = "sending"
      /\ ServerSame /\ backlog' = backlog
      /\ UNCHANGED <<stage, request, rsize, rgot, down, executed>>
  BY DEF sendbytes, ServerSame, history
<1>3. Becomes(c, stage[c], request[c], Behind(unsent[c], n), rsize[c], rgot[c],
              Cat(up[c], Ahead(unsent[c], n)), down[c], executed[c])
  BY <1>1, <1>2, Keeps DEF CallInv, Becomes
<1>4. n \in 0 .. Len(unsent[c]) /\ Len(up[c]) + n <= Room /\ n > 0
  BY ClientFacts, SendableFacts DEF CallInv
<1>5. /\ Cat(up[c], Ahead(unsent[c], n)) \in Seq(Byte)
      /\ Len(Cat(up[c], Ahead(unsent[c], n))) <= Room
      /\ Behind(unsent[c], n) \in Seq(Byte)
      /\ Cat(Cat(up[c], Ahead(unsent[c], n)), Behind(unsent[c], n)) = Cat(up[c], unsent[c])
  <2>1. Cat(up[c], Ahead(unsent[c], n)) \in Seq(Byte)
    BY <1>0, <1>4, Move
  <2>2. Len(Cat(up[c], Ahead(unsent[c], n))) = Len(up[c]) + n
    <3>1. up[c] \in Seq(Byte) /\ unsent[c] \in Seq(Byte) /\ n \in 0 .. Len(unsent[c])
      BY <1>0, <1>4
    <3> QED  BY ONLY <3>1, Move
  <2>3. Behind(unsent[c], n) \in Seq(Byte)
    BY <1>0, <1>4, Move
  <2>4. Cat(Cat(up[c], Ahead(unsent[c], n)), Behind(unsent[c], n)) = Cat(up[c], unsent[c])
    BY <1>0, <1>4, Move
  <2> QED  BY <1>4, <2>1, <2>2, <2>3, <2>4
<1>6. Now(c, stage[c], request[c], Behind(unsent[c], n), rsize[c], rgot[c],
              Cat(up[c], Ahead(unsent[c], n)), down[c], executed[c])
  BY <1>3, <1>5, <1>0, BecomesView
<1>7. Owed(c)' = Owed(c)
  BY <1>2, SameServer DEF CallInv
<1>8. CallerOK(c)'
  BY <1>2, <1>6, <1>7 DEF Now, CallInv, Callers, CallerOK, Open, Answered, Arriving
<1>9. /\ Stream(c)' = Stream(c)
      /\ ~ (up[c] = <<>> /\ unsent[c] = <<>>)
  BY <1>4, <1>5, <1>6 DEF Now, Stream
<1> QED  BY <1>2, <1>6, <1>8, <1>9, ClientKeeps DEF Now, Open, Connected

\* The client turns to recv() with nothing of an answer.
LEMMA SentKeeps ==
  ASSUME CallInv, NEW c \in Client, sent(c)
  PROVE  CallInv'
<1>0. /\ ClientTypes /\ ServerTypes
      /\ stage[c] \in {"idle", "connecting", "sending", "receiving", "gone"}
      /\ request[c] \in Wanted \cup {NoRequest} /\ unsent[c] \in Seq(Byte)
      /\ rsize[c] \in Int /\ rgot[c] \in Seq(Byte)
      /\ up[c] \in Seq(Byte) /\ down[c] \in Seq(Byte)
      /\ Len(up[c]) <= Room /\ Len(down[c]) <= Room
      /\ executed[c] \in Seq(Seq(Byte))
      /\ <<>> \in Seq(Byte) /\ Len(<<>>) = 0 /\ 0 <= Room /\ -1 \in Int
  BY ClientFacts DEF CallInv
<1>1. /\ stage[c] = "sending" /\ stage' = [stage EXCEPT ![c] = "receiving"]
      /\ rsize' = [rsize EXCEPT ![c] = -1] /\ rgot' = [rgot EXCEPT ![c] = <<>>]
      /\ ServerSame /\ backlog' = backlog
      /\ UNCHANGED <<unsent, request, up, down, executed>>
  BY DEF sent, Stage, ServerSame, history
<1>2. rsize[c] = -1 /\ rgot[c] = <<>>
  BY <1>1 DEF CallInv, Callers, CallerOK
<1>3. Becomes(c, "receiving", request[c], unsent[c], -1, <<>>, up[c], down[c], executed[c])
  BY <1>1, Keeps DEF CallInv, Becomes
<1>4. Now(c, "receiving", request[c], unsent[c], -1, <<>>, up[c], down[c], executed[c])
  BY <1>2, <1>3, <1>0, BecomesView
<1>5. Owed(c)' = Owed(c)
  BY <1>1, SameServer DEF CallInv
<1>6. CallerOK(c)'
  BY <1>1, <1>2, <1>4, <1>5 DEF Now, CallInv, Callers, CallerOK, Open, Answered, Arriving
<1>7. Stream(c)' = Stream(c)
  BY <1>4 DEF Now, Stream
<1> QED  BY <1>1, <1>4, <1>6, <1>7, ClientKeeps DEF Now, Open, Connected

\* A recv() moves bytes within the answer.
LEMMA RecvKeeps ==
  ASSUME CallInv, NEW c \in Client, recvbytes(c)
  PROVE  CallInv'
<1>0. /\ ClientTypes /\ ServerTypes
      /\ stage[c] \in {"idle", "connecting", "sending", "receiving", "gone"}
      /\ request[c] \in Wanted \cup {NoRequest} /\ unsent[c] \in Seq(Byte)
      /\ rsize[c] \in Int /\ rgot[c] \in Seq(Byte)
      /\ up[c] \in Seq(Byte) /\ down[c] \in Seq(Byte)
      /\ Len(up[c]) <= Room /\ Len(down[c]) <= Room
      /\ executed[c] \in Seq(Seq(Byte))
  BY ClientFacts DEF CallInv
<1>1. PICK n \in 1 .. Min({Outstanding(c), Len(down[c])}) :
        /\ rgot' = [rgot EXCEPT ![c] = Cat(rgot[c], Ahead(down[c], n))]
        /\ down' = [down EXCEPT ![c] = Behind(down[c], n)]
  BY Zenon DEF recvbytes, First, After, Cat, Ahead, Behind
<1>2. /\ stage[c] = "receiving"
      /\ ServerSame /\ backlog' = backlog
      /\ UNCHANGED <<stage, request, rsize, unsent, up, executed>>
  BY DEF recvbytes, ServerSame, history
<1>3. Becomes(c, stage[c], request[c], unsent[c], rsize[c], Cat(rgot[c], Ahead(down[c], n)),
              up[c], Behind(down[c], n), executed[c])
  BY <1>1, <1>2, Keeps DEF CallInv, Becomes
<1>4. n \in 0 .. Len(down[c]) /\ n <= Outstanding(c) /\ n > 0
  <2>1. Outstanding(c) \in Int /\ Len(down[c]) \in Int
    BY <1>0 DEF Outstanding, IntSize
  <2> QED  BY <2>1, MinOfTwo
<1>5. /\ Cat(rgot[c], Ahead(down[c], n)) \in Seq(Byte)
      /\ Len(Cat(rgot[c], Ahead(down[c], n))) = Len(rgot[c]) + n
      /\ Behind(down[c], n) \in Seq(Byte) /\ Len(Behind(down[c], n)) <= Room
  <2>1. rgot[c] \in Seq(Byte) /\ down[c] \in Seq(Byte) /\ n \in 0 .. Len(down[c])
    BY <1>0, <1>4
  <2>2. Cat(rgot[c], Ahead(down[c], n)) \in Seq(Byte)
    BY ONLY <2>1, Move
  <2>3. Len(Cat(rgot[c], Ahead(down[c], n))) = Len(rgot[c]) + n
    BY ONLY <2>1, Move
  <2>4. Behind(down[c], n) \in Seq(Byte) /\ Len(Behind(down[c], n)) = Len(down[c]) - n
    BY ONLY <2>1, Cut
  <2>5. Len(Behind(down[c], n)) <= Room
    BY <1>0, <1>4, <2>4, StreamAssumption
  <2> QED  BY <2>2, <2>3, <2>4, <2>5
<1>6. Now(c, stage[c], request[c], unsent[c], rsize[c], Cat(rgot[c], Ahead(down[c], n)),
          up[c], Behind(down[c], n), executed[c])
  BY <1>0, <1>3, <1>5, BecomesView
<1>7. Owed(c)' = Owed(c)
  BY <1>2, SameServer DEF CallInv
<1>8. Arriving(c)' = Arriving(c)
  <2>1. Owed(c) \in Seq(Byte)
    BY <1>0, CallerTypes
  <2>2. Cat(Cat(rgot[c], Ahead(down[c], n)), Cat(Behind(down[c], n), Owed(c))) = Cat(rgot[c], Cat(down[c], Owed(c)))
    BY <1>0, <1>4, <2>1, MoveAhead
  <2> QED  BY <1>6, <1>7, <2>2 DEF Now, Arriving
<1>9. executed[c] # <<>>
  <2>1. down[c] # <<>>
    BY <1>4
  <2> QED  BY <1>2, <2>1 DEF CallInv, Callers, CallerOK, Open
<1>10. PICK v \in Outcome(request[c]) : executed[c] = <<v>> /\ Answered(c, v)
  BY <1>2, <1>9 DEF CallInv, Callers, CallerOK, Open
<1>11. Answered(c, v)'
  <2>1. CASE rsize[c] = -1 /\ Len(rgot[c]) <= IntSize /\ Arriving(c) = Cat(Encode(Len(v)), v)
    <3>1. Len(rgot[c]) + n <= IntSize /\ rsize'[c] = -1
      BY <1>0, <1>4, <1>6, <2>1 DEF Outstanding, IntSize, Now
    <3> QED  BY <1>5, <1>6, <1>8, <2>1, <3>1 DEF Answered, Now
  <2>2. CASE rsize[c] = Len(v) /\ Arriving(c) = v
    BY <1>6, <1>8, <2>2 DEF Answered, Now
  <2> QED  BY <1>10, <2>1, <2>2 DEF Answered
<1>12. CallerOK(c)'
  <2>1. request[c] \in Wanted
    BY <1>2 DEF CallInv, Callers, CallerOK
  <2> QED  BY <1>2, <1>6, <1>9, <1>10, <1>11, <2>1 DEF Now, CallerOK, Open
<1>13. Stream(c)' = Stream(c)
  BY <1>6 DEF Stream, Now
<1> QED  BY <1>2, <1>6, <1>12, <1>13, ClientKeeps DEF Now, Open, Connected

\* The size that the client decodes is that of the answer that follows.
LEMMA SizeKeeps ==
  ASSUME CallInv, NEW c \in Client, gotReturnSize(c)
  PROVE  CallInv'
<1>0. /\ ClientTypes /\ ServerTypes
      /\ stage[c] \in {"idle", "connecting", "sending", "receiving", "gone"}
      /\ request[c] \in Wanted \cup {NoRequest} /\ unsent[c] \in Seq(Byte)
      /\ rsize[c] \in Int /\ rgot[c] \in Seq(Byte)
      /\ up[c] \in Seq(Byte) /\ down[c] \in Seq(Byte)
      /\ Len(up[c]) <= Room /\ Len(down[c]) <= Room
      /\ executed[c] \in Seq(Seq(Byte)) /\ <<>> \in Seq(Byte)
  BY ClientFacts DEF CallInv
<1>1. /\ stage[c] = "receiving" /\ rsize[c] = -1 /\ Len(rgot[c]) = IntSize
      /\ rsize' = [rsize EXCEPT ![c] = Decode(rgot[c])]
      /\ rgot' = [rgot EXCEPT ![c] = <<>>]
      /\ ServerSame /\ backlog' = backlog
      /\ UNCHANGED <<stage, request, unsent, up, down, executed>>
  <2>1. Len(rgot[c]) \in Int
    BY <1>0
  <2> QED  BY <2>1 DEF gotReturnSize, Outstanding, IntSize, ServerSame, history
<1>2. request[c] \in Wanted /\ executed[c] # <<>>
  BY <1>1 DEF CallInv, Callers, CallerOK, Open, IntSize
<1>3. PICK v \in Outcome(request[c]) : executed[c] = <<v>> /\ Answered(c, v)
  BY <1>1, <1>2 DEF CallInv, Callers, CallerOK, Open
<1>4. v \in Seq(Byte) /\ Len(v) \in Nat /\ Len(v) <= INT_MAX
  BY <1>2, <1>3, CallFacts
<1>5. rgot[c] = Encode(Len(v)) /\ Cat(down[c], Owed(c)) = v
  <2>1. Encode(Len(v)) \in Seq(Byte) /\ Len(Encode(Len(v))) = IntSize
    BY <1>4, Encoded
  <2>2. Cat(rgot[c], Cat(down[c], Owed(c))) = Cat(Encode(Len(v)), v)
    <3>1. rsize[c] # Len(v)
      BY <1>1, <1>4
    <3> QED  BY <1>3, <3>1 DEF Answered, Arriving
  <2>3. Cat(down[c], Owed(c)) \in Seq(Byte)
    BY <1>0, CallerTypes
  <2> QED  BY <1>0, <1>1, <1>4, <2>1, <2>2, <2>3, SamePrefix
<1>6. Decode(rgot[c]) = Len(v)
  BY <1>4, <1>5, Encoded
<1>7. Becomes(c, stage[c], request[c], unsent[c], Len(v), <<>>, up[c], down[c], executed[c])
  BY <1>1, <1>6, Keeps DEF CallInv, Becomes
<1>8. Now(c, stage[c], request[c], unsent[c], Len(v), <<>>, up[c], down[c], executed[c])
  <2>1. Len(v) \in Int
    BY <1>4
  <2> QED  BY <1>0, <1>7, <2>1, BecomesView
<1>9. Owed(c)' = Owed(c)
  BY <1>1, SameServer DEF CallInv
<1>10. Answered(c, v)'
  <2>1. Arriving(c)' = Cat(<<>>, Cat(down[c], Owed(c)))
    BY <1>8, <1>9 DEF Now, Arriving
  <2>2. Cat(<<>>, Cat(down[c], Owed(c))) = v
    BY <1>4, <1>5, CatEmpty
  <2> QED  BY <1>8, <2>1, <2>2 DEF Answered, Now
<1>11. CallerOK(c)'
  BY <1>1, <1>2, <1>3, <1>8, <1>10 DEF Now, CallerOK, Open
<1>12. Stream(c)' = Stream(c)
  BY <1>8 DEF Stream, Now
<1> QED  BY <1>1, <1>8, <1>11, <1>12, ClientKeeps DEF Now, Open, Connected

\* When a call returns the answer is there, and nothing is left of it.
LEMMA ReturnsTheResult ==
  ASSUME CallInv, NEW c \in Client, returns(c)
  PROVE  /\ request[c] \in Wanted /\ executed[c] = <<rgot[c]>>
         /\ backlog # <<c>> /\ ~ Busy(c)
<1>0. /\ ClientTypes /\ ServerTypes
      /\ rsize[c] \in Int /\ rgot[c] \in Seq(Byte) /\ <<>> \in Seq(Byte)
  BY ClientFacts DEF CallInv
<1>1. stage[c] = "receiving" /\ rsize[c] # -1 /\ Len(rgot[c]) = rsize[c]
  <2>1. Len(rgot[c]) \in Int
    BY <1>0
  <2> QED  BY <1>0, <2>1 DEF returns, Outstanding, Stage
<1>2. request[c] \in Wanted /\ executed[c] # <<>>
  BY <1>1 DEF CallInv, Callers, CallerOK, Open
<1>3. PICK v \in Outcome(request[c]) : executed[c] = <<v>> /\ Answered(c, v)
  BY <1>1, <1>2 DEF CallInv, Callers, CallerOK, Open
<1>4. v \in Seq(Byte)
  BY <1>2, <1>3, CallFacts
<1>5. Cat(down[c], Owed(c)) \in Seq(Byte) /\ down[c] \in Seq(Byte) /\ Owed(c) \in Seq(Byte)
  BY <1>0, CallerTypes, ClientFacts
<1>6. rgot[c] = v /\ Cat(down[c], Owed(c)) = <<>>
  <2>1. Cat(rgot[c], Cat(down[c], Owed(c))) = Cat(v, <<>>) /\ Len(rgot[c]) = Len(v)
    BY <1>1, <1>3, <1>4, CatEmpty DEF Answered, Arriving
  <2> QED  BY <1>0, <1>4, <1>5, <2>1, SamePrefix
<1>7. Owed(c) = <<>>
  <2>1. Len(Cat(down[c], Owed(c))) = Len(down[c]) + Len(Owed(c))
    BY <1>5, CatType
  <2>2. Len(Owed(c)) = 0
    BY <1>5, <1>6, <2>1
  <2> QED  BY <1>5, <2>2
<1>8. backlog # <<c>>
  BY <1>2 DEF CallInv, QueuedOK
<1>9. ~ Busy(c)
  BY <1>2, <1>7 DEF CallInv, ServedOK, Busy, Owed
<1> QED  BY <1>2, <1>3, <1>6, <1>8, <1>9

\* A call that returns is not queued or served any more.
LEMMA ReturnKeeps ==
  ASSUME CallInv, NEW c \in Client, returns(c)
  PROVE  CallInv'
<1>0. /\ ClientTypes /\ ServerTypes
      /\ unsent[c] \in Seq(Byte) /\ up[c] \in Seq(Byte) /\ down[c] \in Seq(Byte)
      /\ Len(up[c]) <= Room /\ Len(down[c]) <= Room
      /\ <<>> \in Seq(Byte) /\ <<>> \in Seq(Seq(Byte)) /\ -1 \in Int
      /\ NoRequest \in Wanted \cup {NoRequest}
  BY ClientFacts DEF CallInv
<1>1. /\ stage[c] = "receiving" /\ stage' = [stage EXCEPT ![c] = "idle"]
      /\ executed' = [executed EXCEPT ![c] = <<>>]
      /\ rsize' = [rsize EXCEPT ![c] = -1] /\ rgot' = [rgot EXCEPT ![c] = <<>>]
      /\ request' = [request EXCEPT ![c] = NoRequest]
      /\ ServerSame /\ backlog' = backlog
      /\ UNCHANGED <<unsent, up, down>>
  BY DEF returns, Stage, ServerSame
<1>2. Becomes(c, "idle", NoRequest, unsent[c], -1, <<>>, up[c], down[c], <<>>)
  BY <1>1, Keeps DEF CallInv, Becomes
<1>3. Now(c, "idle", NoRequest, unsent[c], -1, <<>>, up[c], down[c], <<>>)
  BY <1>0, <1>2, BecomesView
<1>4. CallerOK(c)'
  BY <1>3 DEF Now, CallerOK, Open
<1>5. backlog # <<c>> /\ ~ Busy(c) /\ executed[c] # <<>>
  BY ReturnsTheResult
<1> QED  BY <1>1, <1>3, <1>4, <1>5, ClientKeeps DEF Now

\* A client that dies leaves what the server has still to read.
LEMMA LeaveKeeps ==
  ASSUME CallInv, NEW c \in Client, Leaves(c), stage[c] # "idle"
  PROVE  CallInv'
<1>0. /\ ClientTypes /\ ServerTypes
      /\ stage[c] \in {"idle", "connecting", "sending", "receiving", "gone"}
      /\ request[c] \in Wanted \cup {NoRequest} /\ unsent[c] \in Seq(Byte)
      /\ rsize[c] \in Int /\ rgot[c] \in Seq(Byte)
      /\ up[c] \in Seq(Byte) /\ <<>> \in Seq(Byte)
      /\ Len(up[c]) <= Room /\ Len(<<>>) <= Room
      /\ executed[c] \in Seq(Seq(Byte))
  BY ClientFacts DEF CallInv
<1>1. /\ stage' = [stage EXCEPT ![c] = "gone"] /\ down' = [down EXCEPT ![c] = <<>>]
      /\ ServerSame /\ backlog' = backlog
      /\ UNCHANGED <<request, unsent, rsize, rgot, up, executed>>
  BY DEF Leaves, ServerSame, history
<1>2. Becomes(c, "gone", request[c], unsent[c], rsize[c], rgot[c], up[c], <<>>, executed[c])
  BY <1>1, Keeps DEF CallInv, Becomes
<1>3. Now(c, "gone", request[c], unsent[c], rsize[c], rgot[c], up[c], <<>>, executed[c])
  BY <1>0, <1>2, BecomesView
<1>4. CallerOK(c)'
  BY <1>3 DEF Now, CallInv, Callers, CallerOK, Open
<1>5. Stream(c)' = Stream(c)
  BY <1>3 DEF Now, Stream
<1> QED  BY <1>1, <1>3, <1>4, <1>5, ClientKeeps DEF Now, Connected

\* A connection is queued with the whole request to come.
LEMMA ConnectKeeps ==
  ASSUME CallInv, NEW c \in Client, connect(c)
  PROVE  CallInv'
<1>0. /\ ClientTypes /\ ServerTypes
      /\ rsize[c] \in Int /\ rgot[c] \in Seq(Byte)
      /\ <<>> \in Seq(Byte) /\ Len(<<>>) <= Room
      /\ executed[c] \in Seq(Seq(Byte))
  BY ClientFacts DEF CallInv
<1>1. /\ running /\ Len(backlog) < 1 /\ backlog' = Append(backlog, c)
      /\ stage[c] = "connecting" /\ stage' = [stage EXCEPT ![c] = "sending"]
      /\ unsent' = [unsent EXCEPT ![c] = Marshal(request[c])]
      /\ up' = [up EXCEPT ![c] = <<>>] /\ down' = [down EXCEPT ![c] = <<>>]
      /\ ServerSame
      /\ UNCHANGED <<request, rsize, rgot, executed>>
  BY DEF connect, Stage, ServerSame, history, BacklogSize
<1>2. request[c] \in Wanted /\ executed[c] = <<>> /\ rsize[c] = -1 /\ rgot[c] = <<>>
  BY <1>1 DEF CallInv, Callers, CallerOK
<1>3. Marshal(request[c]) \in Seq(Byte)
  BY <1>2, MarshalParts
<1>4. Becomes(c, "sending", request[c], Marshal(request[c]), rsize[c], rgot[c], <<>>, <<>>, executed[c])
  BY <1>1, Keeps DEF CallInv, Becomes
<1>5. Now(c, "sending", request[c], Marshal(request[c]), rsize[c], rgot[c], <<>>, <<>>, executed[c])
  <2>1. request[c] \in Wanted \cup {NoRequest}
    BY <1>2
  <2> QED  BY <1>0, <1>3, <1>4, <2>1, BecomesView
<1>6. backlog = <<>> /\ backlog' = <<c>>
  <2>1. backlog \in Seq(Client)
    BY <1>0 DEF ServerTypes
  <2>2. backlog = <<>>
    BY <1>1, <2>1, EmptySeq
  <2> QED  BY <1>1, <2>2
<1>7. ServerTypes'
  BY <1>0, <1>1, <1>6 DEF ServerTypes, ServerSame, parse, BacklogSize
<1>8. /\ \A d \in Client : Owed(d)' = Owed(d) /\ Busy(d)' = Busy(d)
      /\ \A q, s : ReadSoFar(q, s)' = ReadSoFar(q, s)
      /\ Registered' /\ pc' = pc /\ pc \notin {"main", "exited"} /\ pc' \notin {"main", "exited"}
  <2>1. \A d \in Client : Owed(d)' = Owed(d) /\ Busy(d)' = Busy(d)
    BY <1>1 DEF ServerSame, Owed, Busy
  <2>2. \A q, s : ReadSoFar(q, s)' = ReadSoFar(q, s)
    BY <1>1 DEF ServerSame, parse, ReadSoFar, Reads, Parsed
  <2>3. Registered'
    BY <1>1 DEF CallInv, Registered, ServerSame
  <2> QED  BY <1>1, <2>1, <2>2, <2>3 DEF ServerSame, running
<1>9. ~ Busy(c)
  BY <1>1 DEF CallInv, ServedOK, Connected
<1>10. Callers'
  <2>1. ASSUME NEW d \in Client, d # c PROVE CallerOK(d)'
    BY <1>5, <1>8, <2>1, SameCaller DEF CallInv, Callers, Now
  <2>2. CallerOK(c)'
    BY <1>2, <1>5 DEF Now, CallerOK, Open
  <2> QED  BY <2>1, <2>2 DEF Callers
<1>11. QueuedOK'
  <2>1. Stream(c)' = Marshal(request[c])
    BY <1>3, <1>5, CatEmpty DEF Now, Stream
  <2>2. \A d \in Client : <<c>> = <<d>> => d = c
    OBVIOUS
  <2> QED  BY <1>2, <1>5, <1>6, <1>8, <1>9, <2>1, <2>2 DEF QueuedOK, Now, Connected
<1>12. ServedOK'
  <2> SUFFICES ASSUME NEW d \in Client, Busy(d)
               PROVE  /\ Connected(d)'
                      /\ executed'[d] = <<>> <=> pc # "returnResult"
                      /\ pc = "recvCall" => ReadSoFar(request'[d], Stream(d)')
                      /\ pc = "makeCall" =>
                           /\ up'[d] = <<>> /\ unsent'[d] = <<>>
                           /\ fname = <<request'[d].name>> /\ nparams = Len(request'[d].args)
                           /\ args = request'[d].args
    <3>1. \A d \in Client : ReadSoFar(request[d], Stream(d))' = ReadSoFar(request'[d], Stream(d)')
      BY <1>1 DEF ServerSame, parse, ReadSoFar, Reads, Parsed
    <3> QED  BY <1>1, <1>8, <3>1 DEF ServedOK, ServerSame, parse
  <2>1. d # c
    BY <1>9
  <2>2. Same(d)
    BY <1>5, <2>1 DEF Now
  <2> QED  BY <2>2 DEF CallInv, ServedOK, Same, Connected, Stream
<1>13. BetweenCalls'
  BY <1>1, <1>8 DEF CallInv, BetweenCalls, ServerSame, parse
<1>14. ExitOK'
  BY <1>8 DEF ExitOK
<1>15. ClientTypes'
  BY <1>5 DEF Now
<1> QED  BY <1>7, <1>8, <1>10, <1>11, <1>12, <1>13, <1>14, <1>15 DEF CallInv

-----------------------------------------------------------------------------
(* Steps of the server.                                                      *)

ClientsSame == UNCHANGED <<stage, request, unsent, rsize, rgot, up, down, executed>>

\* A step of the server that no client sees.
LEMMA UnseenKeeps ==
  ASSUME CallInv, ClientsSame, ServerTypes', Registered',
         \A d \in Client : CallerOK(d) => Owed(d)' = Owed(d) \/ stage[d] = "gone",
         QueuedOK', ServedOK', BetweenCalls', ExitOK'
  PROVE  CallInv'
<1>1. ClientTypes'
  BY DEF CallInv, ClientTypes, ClientsSame
<1>2. Callers'
  <2>1. SUFFICES ASSUME NEW d \in Client PROVE CallerOK(d)'
    BY DEF Callers
  <2>2. CallerOK(d)
    BY DEF CallInv, Callers
  <2>3. CASE Owed(d)' = Owed(d)
    BY <2>2, <2>3, SameCaller DEF ClientsSame, Same
  <2>4. CASE stage[d] = "gone"
    BY <2>2, <2>4 DEF CallerOK, Open, ClientsSame
  <2> QED  BY <2>2, <2>3, <2>4
<1> QED  BY <1>1, <1>2 DEF CallInv

\* main() of the server, before any connection.
LEMMA StartKeeps ==
  ASSUME CallInv, register_procedure \/ launch_server
  PROVE  CallInv'
<1>1. /\ pc = "main" /\ pc' \in {"main", "accept"}
      /\ ClientsSame /\ UNCHANGED <<backlog, serving, want, need, got, fname, nparams, args, ret, unsentback>>
  BY DEF register_procedure, launch_server, ClientsSame, caller, parse, history
<1>2. Registered'
  <2>1. CASE register_procedure
    BY <2>1, RegisteredStep DEF CallInv
  <2>2. CASE launch_server
    BY <2>2 DEF CallInv, Registered, launch_server
  <2> QED  BY <2>1, <2>2
<1>3. ServerTypes'
  BY <1>1 DEF CallInv, ServerTypes
<1>4. backlog = <<>> /\ backlog' = <<>>
  BY <1>1 DEF CallInv, BetweenCalls
<1>5. QueuedOK'
  <2>1. \A d : <<>> # <<d>>
    OBVIOUS
  <2> QED  BY <1>4, <2>1 DEF QueuedOK
<1>6. ServedOK' /\ ExitOK' /\ \A d \in Client : Owed(d)' = Owed(d)
  BY <1>1 DEF ServedOK, Busy, ExitOK, Owed
<1>7. BetweenCalls'
  BY <1>1, <1>4 DEF CallInv, BetweenCalls
<1> QED  BY <1>1, <1>2, <1>3, <1>5, <1>6, <1>7, UnseenKeeps

\* The connection that is accepted brings a whole request, from its first field.
LEMMA AcceptKeeps ==
  ASSUME CallInv, accept
  PROVE  CallInv'
<1>1. /\ pc = "accept" /\ pc' = "recvCall" /\ backlog # <<>>
      /\ serving' = Head(backlog) /\ backlog' = Tail(backlog)
      /\ ClientsSame /\ UNCHANGED <<fnp, want, need, got, fname, nparams, args, ret, unsentback>>
  BY DEF accept, ClientsSame, caller, parse, history
<1>2. PICK c \in Client : backlog = <<c>> /\ serving' = c /\ backlog' = <<>>
  <2>1. backlog \in Seq(Client) /\ Len(backlog) <= 1
    BY DEF CallInv, ServerTypes, BacklogSize
  <2>2. backlog[1] \in Client /\ Len(backlog) = 1
    <3>1. Len(backlog) # 0
      BY <1>1, <2>1, EmptySeq
    <3>2. Len(backlog) \in Nat
      BY ONLY <2>1, LenProperties
    <3>3. Len(backlog) = 1
      BY ONLY <2>1, <3>1, <3>2
    <3> QED  BY <2>1, <3>3
  <2>3. backlog = <<backlog[1]>>
    BY <2>1, <2>2
  <2> QED  BY <1>1, <2>1, <2>2, <2>3
<1>3. /\ request[c] \in Wanted /\ Connected(c)
      /\ executed[c] = <<>> /\ Stream(c) = Marshal(request[c])
  BY <1>2 DEF CallInv, QueuedOK, Callers, CallerOK, Connected
<1>4. want = "fnamelen" /\ need = IntSize /\ got = <<>> /\ args = <<>>
  BY <1>1 DEF CallInv, BetweenCalls
<1>5. ReadSoFar(request[c], Stream(c))'
  <2> DEFINE q == request[c]
             b == Cat(String(<<q.name>>), Header(q))
  <2>1. Stream(c)' = Stream(c) /\ request'[c] = q
    BY <1>1 DEF ClientsSame, Stream
  <2>2. Marshal(q) = Cat(Encode(IntSize), b) /\ Marshal(q) \in Seq(Byte)
    BY <1>3, MarshalParts
  <2>3. Len(Encode(IntSize)) = IntSize
    BY <1>3, NameAsString, Encoded DEF IntSize
  <2>4. Cat(<<>>, Marshal(q)) = Marshal(q)
    BY <2>2, CatEmpty
  <2>5. need' = Len(Encode(IntSize)) /\ Cat(got', Stream(c)') = Cat(Encode(IntSize), b)
    BY <1>1, <1>3, <1>4, <2>1, <2>2, <2>3, <2>4
  <2> QED  BY <1>1, <1>4, <2>1, <2>5 DEF ReadSoFar, Reads
<1>6. ServerTypes'
  BY <1>1, <1>2 DEF CallInv, ServerTypes, BacklogSize
<1>7. Registered'
  BY <1>1 DEF CallInv, Registered
<1>8. QueuedOK'
  <2>1. \A d : <<>> # <<d>>
    OBVIOUS
  <2> QED  BY <1>2, <2>1 DEF QueuedOK
<1>9. ServedOK'
  <2>1. \A d \in Client : Busy(d)' => d = c
    BY <1>2 DEF Busy
  <2>2. Connected(c)' /\ executed'[c] = <<>> /\ pc' = "recvCall"
    BY <1>1, <1>3 DEF ClientsSame, Connected
  <2> QED  BY <1>5, <2>1, <2>2 DEF ServedOK
<1>10. BetweenCalls' /\ ExitOK' /\ \A d \in Client : Owed(d)' = Owed(d)
  BY <1>1, <1>2 DEF BetweenCalls, ExitOK, Owed
<1> QED  BY <1>1, <1>6, <1>7, <1>8, <1>9, <1>10, UnseenKeeps

\* The end of the process, once the invariant gives a cause for it.
LEMMA ExitKeeps ==
  ASSUME CallInv, pc \in {"recvCall", "returnResult"}, exits, ExitOK',
         pc = "returnResult" => stage[serving] = "gone"
  PROVE  CallInv'
<1>1. /\ pc' = "exited" /\ ClientsSame
      /\ UNCHANGED <<backlog, serving, fnp, want, need, got, fname, nparams, args, ret, unsentback>>
  BY DEF exits, ClientsSame, caller, parse, history
<1>2. ServerTypes' /\ Registered'
  BY <1>1 DEF CallInv, ServerTypes, Registered
<1>3. ServedOK' /\ BetweenCalls'
  BY <1>1 DEF ServedOK, BetweenCalls, Busy
<1>4. QueuedOK'
  BY <1>1 DEF CallInv, QueuedOK, ClientsSame, Connected, Busy, Stream
<1>5. \A d \in Client : Owed(d)' = Owed(d) \/ stage[d] = "gone"
  BY <1>1 DEF Owed
<1> QED  BY <1>1, <1>2, <1>3, <1>4, <1>5, UnseenKeeps

\* The client that is served while its request is read.
LEMMA ServedFacts ==
  ASSUME CallInv, pc \in {"recvCall", "makeCall"}
  PROVE  /\ serving \in Client /\ Busy(serving) /\ Connected(serving)
         /\ request[serving] \in Wanted /\ executed[serving] = <<>>
         /\ pc = "recvCall" => ReadSoFar(request[serving], Stream(serving))
<1>1. serving \in Client /\ Busy(serving)
  BY DEF CallInv, BetweenCalls, Busy
<1>2. /\ Connected(serving) /\ executed[serving] = <<>>
      /\ pc = "recvCall" => ReadSoFar(request[serving], Stream(serving))
  BY <1>1 DEF CallInv, ServedOK
<1>3. request[serving] \in Wanted
  BY <1>1, <1>2 DEF Connected, CallInv, Callers, CallerOK
<1> QED  BY <1>1, <1>2, <1>3

\* recv() or send() reports that the client is gone.
LEMMA PeerGoneKeeps ==
  ASSUME CallInv, recvFails \/ returnResultFails
  PROVE  CallInv'
<1>1. /\ pc \in {"recvCall", "returnResult"} /\ exits /\ stage[serving] = "gone"
  BY DEF recvFails, returnResultFails
<1>2. serving \in Client
  BY <1>1 DEF CallInv, BetweenCalls
<1>3. ExitOK'
  BY <1>1, <1>2 DEF exits, caller, ExitOK
<1> QED  BY <1>1, <1>3, ExitKeeps

\* A field that is complete is what was sent.
LEMMA FieldIsWhatWasSent ==
  ASSUME got \in Seq(Byte), Len(got) = need,
         NEW f \in Seq(Byte), NEW b \in Seq(Byte), NEW s \in Seq(Byte), Reads(f, b, s)
  PROVE  got = f /\ s = b
  BY SamePrefix DEF Reads

\* The next field is read from its start.
LEMMA NextField ==
  ASSUME NEW f, NEW len, NEW v, NEW b, NEW s \in Seq(Byte),
         Expect(f, len), len = Len(v), s = Cat(v, b)
  PROVE  want' = f /\ need' = Len(v) /\ Cat(got', s) = Cat(v, b)
  BY CatEmpty DEF Expect

\* A step of recvCall between two fields.
LEMMA ParseKeeps ==
  ASSUME CallInv, ClientsSame, UNCHANGED <<backlog, serving, fnp, ret, unsentback>>,
         pc = "recvCall", pc' \in {"recvCall", "makeCall"}, ServerTypes',
         pc' = "recvCall" => ReadSoFar(request[serving], Stream(serving))',
         pc' = "makeCall" =>
           /\ Stream(serving) = <<>>
           /\ fname' = <<request[serving].name>> /\ nparams' = Len(request[serving].args)
           /\ args' = request[serving].args
  PROVE  CallInv'
<1>1. Registered' /\ BetweenCalls' /\ ExitOK' /\ \A d \in Client : Owed(d)' = Owed(d)
  BY DEF CallInv, Registered, BetweenCalls, ExitOK, Owed
<1>2. QueuedOK'
  BY DEF CallInv, QueuedOK, ClientsSame, Connected, Busy, Stream
<1>3. /\ serving \in Client /\ Connected(serving)' /\ executed'[serving] = <<>>
  BY ServedFacts DEF ClientsSame, Connected
<1>4. Stream(serving) = <<>> => up[serving] = <<>> /\ unsent[serving] = <<>>
  <2>1. up[serving] \in Seq(Byte) /\ unsent[serving] \in Seq(Byte)
    BY <1>3, ClientFacts DEF CallInv
  <2> QED  BY <2>1, CatIsEmpty DEF Stream
<1>5. ServedOK'
  <2>1. \A d \in Client : Busy(d)' => d = serving
    BY DEF Busy
  <2> QED  BY <1>3, <1>4, <2>1 DEF ServedOK, ClientsSame
<1> QED  BY <1>1, <1>2, <1>5, UnseenKeeps

\* What the steps of recvCall share.
LEMMA ParseFrame ==
  ASSUME CallInv, gotNameLength \/ gotName \/ gotCount \/ gotSize \/ gotValue
  PROVE  /\ ClientsSame /\ UNCHANGED <<backlog, serving, fnp, ret, unsentback>>
         /\ pc = "recvCall" /\ Len(got) = need /\ got \in Seq(Byte)
         /\ backlog \in Seq(Client) /\ Len(backlog) <= BacklogSize
         /\ serving \in Client /\ request[serving] \in Wanted /\ Stream(serving) \in Seq(Byte)
         /\ Stream(serving)' = Stream(serving) /\ request' = request
<1>1. /\ ClientsSame /\ UNCHANGED <<backlog, serving, fnp, ret, unsentback>>
      /\ pc = "recvCall" /\ Len(got) = need
  BY DEF gotNameLength, gotName, gotCount, gotSize, gotValue, Received, Receiving,
         ClientsSame, caller, history
<1>2. serving \in Client /\ request[serving] \in Wanted
  BY <1>1, ServedFacts
<1>3. got \in Seq(Byte) /\ backlog \in Seq(Client) /\ Len(backlog) <= BacklogSize
  BY DEF CallInv, ServerTypes
<1>4. Stream(serving) \in Seq(Byte)
  BY <1>2, CallerTypes DEF CallInv
<1>5. Stream(serving)' = Stream(serving) /\ request' = request
  BY <1>1 DEF ClientsSame, Stream
<1> QED  BY <1>1, <1>2, <1>3, <1>4, <1>5

\* The length of the name is there: the name is read next.
LEMMA NameLengthKeeps ==
  ASSUME CallInv, gotNameLength
  PROVE  CallInv'
<1> DEFINE q == request[serving]
           s == Stream(serving)
<1>1. /\ ClientsSame /\ UNCHANGED <<backlog, serving, fnp, ret, unsentback>>
      /\ pc = "recvCall" /\ Len(got) = need /\ got \in Seq(Byte)
      /\ serving \in Client /\ q \in Wanted /\ s \in Seq(Byte)
      /\ Stream(serving)' = s /\ request' = request
  BY ParseFrame
<1>2. /\ want = "fnamelen" /\ Expect("fname", Decode(got))
      /\ UNCHANGED <<pc, fname, nparams, args>>
  BY DEF gotNameLength, Received, Receiving
<1>3. args = <<>> /\ Reads(Encode(IntSize), Cat(String(<<q.name>>), Header(q)), s)
  BY <1>1, <1>2, ServedFacts DEF ReadSoFar
<1>4. /\ String(<<q.name>>) \in Seq(Byte) /\ Len(String(<<q.name>>)) = IntSize
      /\ Header(q) \in Seq(Byte) /\ Cat(String(<<q.name>>), Header(q)) \in Seq(Byte)
      /\ Encode(IntSize) \in Seq(Byte) /\ Decode(Encode(IntSize)) = IntSize
  <2>1. String(<<q.name>>) \in Seq(Byte) /\ Len(String(<<q.name>>)) = IntSize /\ IntSize <= INT_MAX
    BY <1>1, NameAsString
  <2>2. Header(q) \in Seq(Byte)
    BY <1>1, MarshalParts
  <2>3. Encode(IntSize) \in Seq(Byte) /\ Decode(Encode(IntSize)) = IntSize
    <3>1. IntSize \in Nat
      BY DEF IntSize
    <3> QED  BY <2>1, <3>1, Encoded
  <2> QED  BY <2>1, <2>2, <2>3, CatType
<1>5. got = Encode(IntSize) /\ s = Cat(String(<<q.name>>), Header(q))
  BY <1>1, <1>3, <1>4, FieldIsWhatWasSent
<1>6. /\ want' = "fname" /\ need' = Len(String(<<q.name>>))
      /\ Cat(got', s) = Cat(String(<<q.name>>), Header(q))
  BY <1>1, <1>2, <1>4, <1>5, NextField
<1>7. ReadSoFar(q, s)'
  BY <1>1, <1>2, <1>3, <1>6 DEF ReadSoFar, Reads
<1>8. ServerTypes'
  <2>1. want' = "fname" /\ need' \in Nat /\ got' \in Seq(Byte) /\ Len(got') <= need'
    BY <1>2, <1>4, <1>6 DEF Expect, IntSize
  <2> QED  BY <1>1, <1>2, <2>1 DEF CallInv, ServerTypes
<1> QED  BY <1>1, <1>2, <1>7, <1>8, ParseKeeps

\* The name is there: the number of arguments is read next.
LEMMA NameKeeps ==
  ASSUME CallInv, gotName
  PROVE  CallInv'
<1> DEFINE q == request[serving]
           s == Stream(serving)
<1>1. /\ ClientsSame /\ UNCHANGED <<backlog, serving, fnp, ret, unsentback>>
      /\ pc = "recvCall" /\ Len(got) = need /\ got \in Seq(Byte)
      /\ serving \in Client /\ q \in Wanted /\ s \in Seq(Byte)
      /\ Stream(serving)' = s /\ request' = request
  BY ParseFrame
<1>2. /\ want = "fname" /\ Expect("nparams", IntSize) /\ fname' = Content(got)
      /\ UNCHANGED <<pc, nparams, args>>
  BY DEF gotName, Received, Receiving
<1>3. args = <<>> /\ Reads(String(<<q.name>>), Header(q), s)
  BY <1>1, <1>2, ServedFacts DEF ReadSoFar
<1>4. String(<<q.name>>) \in Seq(Byte) /\ Content(String(<<q.name>>)) = <<q.name>>
  BY <1>1, NameAsString
<1>5. Header(q) \in Seq(Byte)
  BY <1>1, MarshalParts
<1>6. got = String(<<q.name>>) /\ s = Header(q)
  BY <1>1, <1>3, <1>4, <1>5, FieldIsWhatWasSent
<1>7. Len(Encode(Len(q.args))) = IntSize
  BY <1>1, CallFacts, Encoded
<1>8. /\ want' = "nparams" /\ need' = Len(Encode(Len(q.args)))
      /\ Cat(got', s) = Cat(Encode(Len(q.args)), RestOf(q, 0))
  <2>1. s = Cat(Encode(Len(q.args)), RestOf(q, 0))
    BY <1>6 DEF Header
  <2> QED  BY <1>1, <1>2, <1>7, <2>1, NextField
<1>9. fname' = <<q.name>>
  BY <1>2, <1>4, <1>6
<1>10. ReadSoFar(q, s)'
  BY <1>1, <1>2, <1>3, <1>8, <1>9 DEF ReadSoFar, Reads
<1>11. ServerTypes'
  <2>1. want' = "nparams" /\ need' \in Nat /\ got' \in Seq(Byte) /\ Len(got') <= need'
    BY <1>2 DEF Expect, IntSize
  <2>2. fname' \in Seq(Byte)
    BY <1>1, <1>9, CallFacts
  <2> QED  BY <1>1, <1>2, <2>1, <2>2 DEF CallInv, ServerTypes
<1> QED  BY <1>1, <1>2, <1>10, <1>11, ParseKeeps

\* The loop over the arguments, after the first k of them.
LEMMA NextKeeps ==
  ASSUME CallInv, ClientsSame, UNCHANGED <<backlog, serving, fnp, ret, unsentback>>,
         pc = "recvCall", want \in {"nparams", "arg_val"},
         NEW k \in 0 .. Len(request[serving].args),
         nextArgument(k, Len(request[serving].args)),
         Stream(serving) = RestOf(request[serving], k),
         fname' = <<request[serving].name>>, nparams' = Len(request[serving].args),
         args' \in Seq(Seq(Byte)), Len(args') = k,
         \A i \in 1 .. k : args'[i] = request[serving].args[i]
  PROVE  CallInv'
<1> DEFINE q == request[serving]
           s == Stream(serving)
<1>1. /\ serving \in Client /\ q \in Wanted /\ s \in Seq(Byte)
      /\ Stream(serving)' = s /\ request' = request
  <2>1. serving \in Client /\ q \in Wanted
    BY ServedFacts
  <2> QED  BY <2>1, CallerTypes DEF CallInv, ClientsSame, Stream
<1>2. /\ Len(q.args) \in Nat /\ Len(q.args) <= INT_MAX /\ q.args \in Seq(Seq(Byte))
      /\ k \in Nat /\ fname' \in Seq(Byte) /\ nparams' \in Int
  BY <1>1, CallFacts
<1>3. CASE k < Len(q.args)
  <2> DEFINE a == q.args[k + 1]
  <2>1. pc' = "recvCall" /\ Expect("arg_size", IntSize)
    BY <1>2, <1>3 DEF nextArgument
  <2>2. a \in Seq(Byte) /\ Len(a) \in Nat /\ Len(a) <= INT_MAX
    <3>1. k + 1 \in 1 .. Len(q.args)
      BY <1>2, <1>3
    <3> QED  BY <1>1, <3>1, CallFacts
  <2>3. Len(Encode(Len(a))) = IntSize
    BY <2>2, Encoded
  <2>4. s = Cat(Encode(Len(a)), Cat(a, RestOf(q, k + 1)))
    BY <1>1, <1>2, <1>3, RestStep
  <2> HIDE DEF a
  <2>5. /\ want' = "arg_size" /\ need' = Len(Encode(Len(a)))
        /\ Cat(got', s) = Cat(Encode(Len(a)), Cat(a, RestOf(q, k + 1)))
    <3> DEFINE b == Cat(a, RestOf(q, k + 1))
    <3>1. s = Cat(Encode(Len(a)), b) /\ IntSize = Len(Encode(Len(a))) /\ s \in Seq(Byte)
      BY <1>1, <2>3, <2>4
    <3> HIDE DEF b, s
    <3>2. want' = "arg_size" /\ need' = Len(Encode(Len(a))) /\ Cat(got', s) = Cat(Encode(Len(a)), b)
      BY ONLY <2>1, <3>1, NextField
    <3> QED  BY <3>2 DEF b
  <2>6. Parsed(q)'
    <3>1. Len(args') < Len(q.args) /\ \A i \in 1 .. Len(args') : args'[i] = q.args[i]
      BY <1>3
    <3> QED  BY <1>1, <3>1 DEF Parsed
  <2>7. ReadSoFar(q, s)'
    <3>1. a = q'.args[Len(args') + 1] /\ q' = q /\ Len(args') + 1 = k + 1
      BY <1>1 DEF a
    <3>2. Reads(Encode(Len(q.args[Len(args) + 1])),
                Cat(q.args[Len(args) + 1], RestOf(q, Len(args) + 1)), s)'
      BY <1>1, <2>5, <3>1 DEF Reads
    <3> QED  BY <2>5, <2>6, <3>2 DEF ReadSoFar
  <2>8. ServerTypes'
    <3>1. want' = "arg_size" /\ need' \in Nat /\ got' \in Seq(Byte) /\ Len(got') <= need'
      BY <2>1 DEF Expect, IntSize
    <3> QED  BY <1>2, <2>1, <3>1 DEF CallInv, ServerTypes
  <2> QED  BY <1>1, <2>1, <2>7, <2>8, ParseKeeps
<1>4. CASE k = Len(q.args)
  <2>1. pc' = "makeCall" /\ UNCHANGED <<want, need, got>>
    BY <1>2, <1>4 DEF nextArgument
  <2>2. s = <<>>
    BY <1>1, <1>4, RestEnd
  <2>3. args' = q.args
    BY <1>2, <1>4, SeqEqual
  <2>4. ServerTypes'
    BY <1>2, <2>1 DEF CallInv, ServerTypes
  <2> QED  BY <2>1, <2>2, <2>3, <2>4, ParseKeeps
<1> QED  BY <1>2, <1>3, <1>4

\* The number of arguments is there.
LEMMA CountKeeps ==
  ASSUME CallInv, gotCount
  PROVE  CallInv'
<1> DEFINE q == request[serving]
           s == Stream(serving)
<1>1. /\ ClientsSame /\ UNCHANGED <<backlog, serving, fnp, ret, unsentback>>
      /\ pc = "recvCall" /\ Len(got) = need /\ got \in Seq(Byte)
      /\ serving \in Client /\ q \in Wanted /\ s \in Seq(Byte)
  BY ParseFrame
<1>2. /\ want = "nparams" /\ nparams' = Decode(got) /\ nextArgument(0, Decode(got))
      /\ UNCHANGED <<fname, args>>
  BY DEF gotCount, Received, Receiving
<1>3. args = <<>> /\ fname = <<q.name>> /\ Reads(Encode(Len(q.args)), RestOf(q, 0), s)
  BY <1>1, <1>2, ServedFacts DEF ReadSoFar
<1>4. Len(q.args) \in Nat /\ Len(q.args) <= INT_MAX
  BY <1>1, CallFacts
<1>5. Encode(Len(q.args)) \in Seq(Byte) /\ Decode(Encode(Len(q.args))) = Len(q.args)
  BY <1>4, Encoded
<1>6. 0 \in 0 .. Len(q.args) /\ RestOf(q, 0) \in Seq(Byte)
  <2>1. 0 \in 0 .. Len(q.args)
    BY <1>4
  <2> QED  BY <1>1, <2>1, RestType
<1>7. got = Encode(Len(q.args)) /\ s = RestOf(q, 0)
  BY <1>1, <1>3, <1>5, <1>6, FieldIsWhatWasSent
<1>8. nparams' = Len(q.args) /\ nextArgument(0, Len(q.args))
  BY <1>2, <1>5, <1>7
<1>9. args' \in Seq(Seq(Byte)) /\ Len(args') = 0 /\ \A i \in 1 .. 0 : args'[i] = q.args[i]
  BY <1>2, <1>3
<1>10. fname' = <<q.name>>
  BY <1>2, <1>3
<1> QED  BY <1>1, <1>2, <1>6, <1>7, <1>8, <1>9, <1>10, NextKeeps

\* The argument that is read, its size first.
LEMMA ArgumentFacts ==
  ASSUME CallInv, pc = "recvCall", want \in {"arg_size", "arg_val"}
  PROVE  /\ Parsed(request[serving]) /\ Len(args) \in Nat /\ Len(request[serving].args) \in Nat
         /\ Len(args) + 1 \in 1 .. Len(request[serving].args)
         /\ request[serving].args[Len(args) + 1] \in Seq(Byte)
         /\ Len(request[serving].args[Len(args) + 1]) \in Nat
         /\ Len(request[serving].args[Len(args) + 1]) <= INT_MAX
         /\ RestOf(request[serving], Len(args) + 1) \in Seq(Byte)
<1> DEFINE q == request[serving]
<1>1. q \in Wanted /\ ReadSoFar(q, Stream(serving))
  BY ServedFacts
<1>2. Parsed(q)
  BY <1>1 DEF ReadSoFar
<1>3. Len(args) \in Nat
  BY DEF CallInv, ServerTypes
<1>4. Len(q.args) \in Nat
  BY <1>1, CallFacts
<1>5. Len(args) + 1 \in 1 .. Len(q.args) /\ Len(args) + 1 \in 0 .. Len(q.args)
  BY <1>2, <1>3, <1>4 DEF Parsed
<1>6. /\ q.args[Len(args) + 1] \in Seq(Byte) /\ Len(q.args[Len(args) + 1]) \in Nat
      /\ Len(q.args[Len(args) + 1]) <= INT_MAX
  BY <1>1, <1>5, CallFacts
<1>7. RestOf(q, Len(args) + 1) \in Seq(Byte)
  BY <1>1, <1>5, RestType
<1> QED  BY <1>2, <1>3, <1>4, <1>5, <1>6, <1>7

\* The size that is decoded is that of the argument that follows.
LEMMA SizeRead ==
  ASSUME CallInv, Received("arg_size")
  PROVE  LET a == request[serving].args[Len(args) + 1]
         IN Decode(got) = Len(a) /\ Stream(serving) = Cat(a, RestOf(request[serving], Len(args) + 1))
<1> DEFINE q == request[serving]
           s == Stream(serving)
           a == q.args[Len(args) + 1]
           r == RestOf(q, Len(args) + 1)
<1>1. pc = "recvCall" /\ want = "arg_size" /\ Len(got) = need
  BY DEF Received, Receiving
<1>2. ReadSoFar(q, s) /\ serving \in Client
  BY <1>1, ServedFacts
<1>3. Reads(Encode(Len(a)), Cat(a, r), s)
  BY <1>1, <1>2 DEF ReadSoFar
<1>4. a \in Seq(Byte) /\ Len(a) \in Nat /\ Len(a) <= INT_MAX /\ r \in Seq(Byte)
  BY <1>1, ArgumentFacts
<1>5. got \in Seq(Byte) /\ s \in Seq(Byte)
  BY <1>2, CallerTypes DEF CallInv, ServerTypes
<1> HIDE DEF q, s, a, r
<1>6. Encode(Len(a)) \in Seq(Byte) /\ Decode(Encode(Len(a))) = Len(a)
  BY <1>4, Encoded
<1>7. Cat(a, r) \in Seq(Byte)
  BY <1>4, CatType
<1>8. got = Encode(Len(a)) /\ s = Cat(a, r)
  BY <1>1, <1>3, <1>5, <1>6, <1>7, FieldIsWhatWasSent
<1> QED  BY <1>6, <1>8 DEF q, s, a, r

\* The size of an argument is there: its bytes are read next.
LEMMA ArgumentSizeKeeps ==
  ASSUME CallInv, gotSize
  PROVE  CallInv'
<1> DEFINE q == request[serving]
           s == Stream(serving)
           a == q.args[Len(args) + 1]
           r == RestOf(q, Len(args) + 1)
<1>1. /\ ClientsSame /\ UNCHANGED <<backlog, serving, fnp, ret, unsentback>>
      /\ pc = "recvCall" /\ got \in Seq(Byte)
      /\ serving \in Client /\ q \in Wanted /\ s \in Seq(Byte)
      /\ Stream(serving)' = s /\ request' = request
  BY ParseFrame
<1>2. /\ want = "arg_size" /\ Expect("arg_val", Decode(got))
      /\ UNCHANGED <<pc, fname, nparams, args>>
  BY DEF gotSize, Received, Receiving
<1>3. Decode(got) = Len(a) /\ s = Cat(a, r)
  BY SizeRead DEF gotSize
<1>4. Parsed(q) /\ Len(a) \in Nat
  BY <1>1, <1>2, ArgumentFacts
<1>5. want' = "arg_val" /\ need' = Len(a) /\ Cat(got', s) = Cat(a, r)
  <2>1. s \in Seq(Byte)
    BY <1>1
  <2> HIDE DEF s, a, r
  <2> QED  BY ONLY <1>2, <1>3, <2>1, NextField
<1>6. Parsed(q)' /\ Reads(a, r, s)'
  BY <1>1, <1>2, <1>4, <1>5 DEF Parsed, Reads
<1>7. ReadSoFar(q, s)'
  BY <1>5, <1>6 DEF ReadSoFar
<1>8. ServerTypes'
  <2>1. want' = "arg_val" /\ need' \in Nat /\ got' \in Seq(Byte) /\ Len(got') <= need'
    BY <1>2, <1>4, <1>5 DEF Expect
  <2> QED  BY <1>1, <1>2, <2>1 DEF CallInv, ServerTypes
<1> QED  BY <1>1, <1>2, <1>7, <1>8, ParseKeeps

\* The server exits at an argument of size 0, which the request then has.
LEMMA EmptyArgumentKeeps ==
  ASSUME CallInv, emptyArgument
  PROVE  CallInv'
<1> DEFINE q == request[serving]
           a == q.args[Len(args) + 1]
<1>1. pc = "recvCall" /\ want = "arg_size" /\ Decode(got) <= 0 /\ exits
  BY DEF emptyArgument, Received, Receiving
<1>2. Decode(got) = Len(a)
  BY SizeRead DEF emptyArgument
<1>3. Len(args) + 1 \in 1 .. Len(q.args) /\ a \in Seq(Byte) /\ Len(a) \in Nat
  BY <1>1, ArgumentFacts
<1>4. a = <<>>
  <2>1. Len(a) = 0
    BY <1>1, <1>2, <1>3
  <2> QED  BY <1>3, <2>1, EmptySeq
<1>5. /\ serving \in Client /\ Connected(serving) /\ executed[serving] = <<>>
      /\ DOMAIN q.args = 1 .. Len(q.args)
  BY <1>1, ServedFacts, CallFacts
<1>6. ExitOK'
  <2>1. UNCHANGED <<stage, request, executed, serving>>
    BY <1>1 DEF exits, caller, history
  <2>2. \E i \in DOMAIN q.args : q.args[i] = <<>>
    BY <1>3, <1>4, <1>5
  <2>3. CASE stage[serving] = "gone"
    BY <1>5, <2>1, <2>3 DEF ExitOK
  <2>4. CASE Open(serving)
    BY <1>5, <2>1, <2>2, <2>4 DEF ExitOK, Open
  <2> QED  BY <1>5, <2>3, <2>4 DEF Connected, Open
<1> QED  BY <1>1, <1>6, ExitKeeps

\* An argument is there.
LEMMA ValueKeeps ==
  ASSUME CallInv, gotValue
  PROVE  CallInv'
<1> DEFINE q == request[serving]
           s == Stream(serving)
           k == Len(args) + 1
<1>1. /\ ClientsSame /\ UNCHANGED <<backlog, serving, fnp, ret, unsentback>>
      /\ pc = "recvCall" /\ Len(got) = need /\ got \in Seq(Byte)
      /\ serving \in Client /\ q \in Wanted /\ s \in Seq(Byte)
  BY ParseFrame
<1>2. /\ want = "arg_val" /\ args' = Append(args, got) /\ nextArgument(k, nparams)
      /\ UNCHANGED <<fname, nparams>>
  BY DEF gotValue, Received, Receiving
<1>3. /\ Parsed(q) /\ k \in 1 .. Len(q.args) /\ Len(args) \in Nat /\ Len(q.args) \in Nat
      /\ q.args[k] \in Seq(Byte) /\ RestOf(q, k) \in Seq(Byte)
  BY <1>1, <1>2, ArgumentFacts
<1>4. Reads(q.args[k], RestOf(q, k), s)
  BY <1>1, <1>2, ServedFacts DEF ReadSoFar
<1>5. got = q.args[k] /\ s = RestOf(q, k)
  BY <1>1, <1>3, <1>4, FieldIsWhatWasSent
<1>6. fname' = <<q.name>> /\ nparams' = Len(q.args) /\ nextArgument(k, Len(q.args))
  BY <1>2, <1>3 DEF Parsed
<1>7. args' \in Seq(Seq(Byte)) /\ Len(args') = k /\ \A i \in 1 .. k : args'[i] = q.args[i]
  <2>1. args \in Seq(Seq(Byte))
    BY DEF CallInv, ServerTypes
  <2>2. args' \in Seq(Seq(Byte)) /\ Len(args') = k
    BY <1>1, <1>2, <2>1, AppendProperties
  <2>3. \A i \in 1 .. Len(args) : args'[i] = args[i]
    BY <1>1, <1>2, <2>1, AppendProperties
  <2>4. args'[k] = got
    BY <1>1, <1>2, <2>1, AppendProperties
  <2>5. \A i \in 1 .. k : i = k \/ i \in 1 .. Len(args)
    BY <1>3
  <2> QED  BY <1>3, <1>5, <2>2, <2>3, <2>4, <2>5 DEF Parsed
<1>8. k \in 0 .. Len(q.args)
  BY <1>3
<1> QED  BY <1>1, <1>2, <1>5, <1>6, <1>7, <1>8, NextKeeps

\* A recv() moves bytes within what is left of the request.
LEMMA RecvSomeKeeps ==
  ASSUME CallInv, recvSome
  PROVE  CallInv'
<1>1. pc = "recvCall"
  BY DEF recvSome
<1>c. PICK c \in Client : c = serving
  BY <1>1, ServedFacts
<1>2. Busy(c) /\ Connected(c) /\ executed[c] = <<>> /\ ReadSoFar(request[c], Stream(c))
  BY <1>1, <1>c, ServedFacts
<1>3. /\ ClientTypes /\ ServerTypes
      /\ stage[c] \in {"idle", "connecting", "sending", "receiving", "gone"}
      /\ request[c] \in Wanted \cup {NoRequest} /\ unsent[c] \in Seq(Byte)
      /\ rsize[c] \in Int /\ rgot[c] \in Seq(Byte)
      /\ up[c] \in Seq(Byte) /\ down[c] \in Seq(Byte)
      /\ Len(up[c]) <= Room /\ Len(down[c]) <= Room
      /\ executed[c] \in Seq(Seq(Byte)) /\ got \in Seq(Byte) /\ need \in Nat
  BY <1>2, ClientFacts DEF CallInv, ServerTypes
<1>4. PICK n \in 1 .. Min({need - Len(got), Len(up[c])}) :
        /\ got' = Cat(got, Ahead(up[c], n))
        /\ up' = [up EXCEPT ![c] = Behind(up[c], n)]
  BY <1>c, Zenon DEF recvSome, First, After, Cat, Ahead, Behind
<1>5. /\ UNCHANGED <<stage, request, unsent, rsize, rgot, down, executed>>
      /\ UNCHANGED <<backlog, serving, pc, fnp, want, need, fname, nparams, args, ret, unsentback>>
  BY DEF recvSome, caller, history
<1>6. n \in 0 .. Len(up[c]) /\ n <= need - Len(got)
  <2>1. need - Len(got) \in Int /\ Len(up[c]) \in Int
    BY <1>3
  <2> QED  BY <2>1, MinOfTwo
<1>7. /\ got' \in Seq(Byte) /\ Len(got') = Len(got) + n
      /\ Behind(up[c], n) \in Seq(Byte) /\ Len(Behind(up[c], n)) <= Room
      /\ Cat(got', Cat(Behind(up[c], n), unsent[c])) = Cat(got, Cat(up[c], unsent[c]))
  <2>1. got \in Seq(Byte) /\ up[c] \in Seq(Byte) /\ unsent[c] \in Seq(Byte) /\ n \in 0 .. Len(up[c])
    BY <1>3, <1>6
  <2>2. Cat(got, Ahead(up[c], n)) \in Seq(Byte)
    BY ONLY <2>1, Move
  <2>3. Len(Cat(got, Ahead(up[c], n))) = Len(got) + n
    BY ONLY <2>1, Move
  <2>4. Behind(up[c], n) \in Seq(Byte) /\ Len(Behind(up[c], n)) = Len(up[c]) - n
    BY ONLY <2>1, Cut
  <2>5. Len(Behind(up[c], n)) <= Room
    BY <1>3, <1>6, <2>4, StreamAssumption
  <2>6. Cat(Cat(got, Ahead(up[c], n)), Cat(Behind(up[c], n), unsent[c])) = Cat(got, Cat(up[c], unsent[c]))
    BY ONLY <2>1, MoveAhead
  <2> QED  BY <1>4, <2>2, <2>3, <2>4, <2>5, <2>6
<1>8. Becomes(c, stage[c], request[c], unsent[c], rsize[c], rgot[c], Behind(up[c], n), down[c], executed[c])
  BY <1>3, <1>4, <1>5, Keeps DEF Becomes
<1>9. Now(c, stage[c], request[c], unsent[c], rsize[c], rgot[c], Behind(up[c], n), down[c], executed[c])
  BY <1>2, <1>3, <1>7, <1>8, BecomesView
<1>10. Cat(got', Stream(c)') = Cat(got, Stream(c)) /\ request'[c] = request[c]
  <2>1. Stream(c)' = Cat(Behind(up[c], n), unsent[c])
    BY <1>9 DEF Now, Stream
  <2> QED  BY <1>7, <1>9, <2>1 DEF Now, Stream
<1>11. ServerTypes'
  <2>1. Len(got') <= need
    BY <1>3, <1>6, <1>7
  <2> QED  BY <1>3, <1>5, <1>7, <2>1 DEF ServerTypes
<1>12. Registered' /\ BetweenCalls' /\ ExitOK'
  BY <1>1, <1>5 DEF CallInv, Registered, BetweenCalls, ExitOK
<1>13. \A d \in Client : Owed(d)' = Owed(d) /\ Busy(d)' = Busy(d)
  BY <1>5 DEF Owed, Busy
<1>14. Callers'
  <2>1. ASSUME NEW d \in Client, d # c PROVE CallerOK(d)'
    BY <1>9, <1>13, <2>1, SameCaller DEF CallInv, Callers, Now
  <2>2. CallerOK(c)'
    BY <1>2, <1>5, <1>13 DEF CallInv, Callers, CallerOK, Open, Answered, Arriving
  <2> QED  BY <2>1, <2>2 DEF Callers
<1>15. QueuedOK'
  <2>1. SUFFICES ASSUME NEW d \in Client, backlog' = <<d>>
                 PROVE  /\ pc' # "main" /\ Connected(d)' /\ ~ Busy(d)'
                        /\ executed'[d] = <<>> /\ Stream(d)' = Marshal(request'[d])
    BY DEF QueuedOK
  <2>2. d # c
    BY <1>2, <1>5, <2>1 DEF CallInv, QueuedOK
  <2>3. Same(d)
    BY <1>9, <2>2 DEF Now
  <2> QED  BY <1>5, <1>13, <2>1, <2>3 DEF CallInv, QueuedOK, Same, Connected, Stream
<1>16. ReadSoFar(request[c], Stream(c))'
  BY <1>2, <1>5, <1>10 DEF ReadSoFar, Reads, Parsed
<1>17. ServedOK'
  <2>1. \A d \in Client : Busy(d)' => d = c
    BY <1>c, <1>5 DEF Busy
  <2>2. Connected(c)' /\ executed'[c] = <<>> /\ pc' = "recvCall"
    BY <1>1, <1>2, <1>5 DEF Connected
  <2> QED  BY <1>16, <2>1, <2>2 DEF ServedOK
<1>18. ClientTypes'
  BY <1>9 DEF Now
<1> QED  BY <1>11, <1>12, <1>14, <1>15, <1>17, <1>18 DEF CallInv

\* The call is executed once, for its own arguments.
LEMMA MakeCallKeeps ==
  ASSUME CallInv, makeCall
  PROVE  /\ CallInv'
         /\ serving \in Client /\ request[serving] \in Wanted /\ stage[serving] # "idle"
         /\ executed[serving] = <<>> /\ ret' \in Outcome(request[serving])
         /\ executed' = [executed EXCEPT ![serving] = <<ret'>>]
<1>0. pc = "makeCall"
  BY DEF makeCall
<1>c. PICK c \in Client : c = serving
  BY <1>0, ServedFacts
<1>q. PICK q \in Wanted : q = request[c]
  BY <1>0, <1>c, ServedFacts
<1>v. PICK v : v = ret'
  OBVIOUS
<1>1. /\ pc = "makeCall" /\ pc' = "returnResult" /\ v \in Results
      /\ unsentback' = Cat(Encode(Len(v)), v)
      /\ executed' = [executed EXCEPT ![c] = Append(executed[c], v)]
  BY <1>c, <1>v, Zenon DEF makeCall, Cat
<1>2. /\ UNCHANGED <<stage, request, unsent, rsize, rgot, up, down>>
      /\ UNCHANGED <<backlog, serving, fnp, want, need, got, fname, nparams, args>>
  BY DEF makeCall, caller, parse
<1>3. Busy(c) /\ Connected(c) /\ executed[c] = <<>>
  BY <1>0, <1>c, ServedFacts
<1>4. /\ fname = <<q.name>> /\ nparams = Len(q.args) /\ args = q.args
  BY <1>0, <1>3, <1>q DEF CallInv, ServedOK
<1>5. v \in Outcome(q)
  <2>1. Results = Outcome(q)
    BY <1>1, <1>4, ResultsAreOutcome DEF CallInv
  <2> QED  BY <1>1, <2>1
<1>6. v \in Seq(Byte) /\ Len(v) \in Nat /\ Len(v) <= INT_MAX
  BY <1>3, <1>5, CallFacts
<1>7. Encode(Len(v)) \in Seq(Byte) /\ Len(Encode(Len(v))) = IntSize
  BY <1>6, Encoded
<1>8. unsentback' \in Seq(Byte) /\ unsentback' # <<>>
  <2>1. unsentback' \in Seq(Byte)
    BY <1>1, <1>6, <1>7, CatType
  <2>2. unsentback' # <<>>
    <3>1. Len(Encode(Len(v))) # 0
      BY <1>7 DEF IntSize
    <3> QED  BY <1>1, <1>6, <1>7, <3>1, CatIsEmpty, EmptySeq
  <2> QED  BY <2>1, <2>2
<1>9. executed' = [executed EXCEPT ![c] = <<v>>]
  BY <1>1, <1>3
<1>10. /\ ClientTypes
       /\ stage[c] \in {"idle", "connecting", "sending", "receiving", "gone"}
       /\ request[c] \in Wanted \cup {NoRequest} /\ unsent[c] \in Seq(Byte)
       /\ rsize[c] \in Int /\ rgot[c] \in Seq(Byte)
       /\ up[c] \in Seq(Byte) /\ down[c] \in Seq(Byte)
       /\ Len(up[c]) <= Room /\ Len(down[c]) <= Room
       /\ <<v>> \in Seq(Seq(Byte))
  BY <1>6, ClientFacts DEF CallInv
<1>11. Becomes(c, stage[c], request[c], unsent[c], rsize[c], rgot[c], up[c], down[c], <<v>>)
  BY <1>2, <1>3, <1>9, <1>10, Keeps DEF Becomes
<1>12. Now(c, stage[c], request[c], unsent[c], rsize[c], rgot[c], up[c], down[c], <<v>>)
  BY <1>3, <1>10, <1>11, BecomesView
<1>13. ServerTypes'
  <2>1. ret' \in Seq(Byte)
    BY <1>v, <1>6
  <2> QED  BY <1>1, <1>2, <1>8, <2>1 DEF CallInv, ServerTypes
<1>14. Registered' /\ BetweenCalls' /\ ExitOK'
  BY <1>1, <1>2 DEF CallInv, Registered, BetweenCalls, ExitOK
<1>15. \A d \in Client : d # c => Owed(d)' = Owed(d) /\ Busy(d)' = Busy(d)
  BY <1>c, <1>2 DEF Owed, Busy
<1>16. CallerOK(c)'
  <2>1. Owed(c)' = Cat(Encode(Len(v)), v)
    BY <1>c, <1>1, <1>2 DEF Owed
  <2>2. ASSUME Open(c) PROVE rsize[c] = -1 /\ rgot[c] = <<>> /\ down[c] = <<>>
    BY <1>3, <2>2 DEF CallInv, Callers, CallerOK
  <2>3. ASSUME Open(c) PROVE Answered(c, v)'
    <3>1. Arriving(c)' = Cat(<<>>, Cat(<<>>, Cat(Encode(Len(v)), v)))
      BY <1>12, <2>1, <2>2, <2>3 DEF Now, Arriving
    <3>2. Cat(Encode(Len(v)), v) \in Seq(Byte)
      BY <1>6, <1>7, CatType
    <3>3. Cat(<<>>, Cat(<<>>, Cat(Encode(Len(v)), v))) = Cat(Encode(Len(v)), v)
      BY <3>2, CatEmpty
    <3>4. rsize'[c] = -1 /\ Len(rgot'[c]) <= IntSize
      BY <1>12, <2>2, <2>3 DEF Now, IntSize
    <3> QED  BY <3>1, <3>3, <3>4 DEF Answered
  <2>4. stage[c] \notin {"idle", "connecting"} /\ request'[c] = q /\ executed'[c] = <<v>> /\ <<v>> # <<>>
    BY <1>q, <1>3, <1>12 DEF Now, Connected
  <2>5. stage[c] = "sending" => rsize'[c] = -1 /\ rgot'[c] = <<>>
    BY <1>12, <2>2 DEF Now, Open
  <2>6. stage'[c] = stage[c]
    BY <1>12 DEF Now
  <2> QED  BY <1>3, <1>5, <2>3, <2>4, <2>5, <2>6 DEF CallerOK, Open
<1>17. Callers'
  <2>1. ASSUME NEW d \in Client, d # c PROVE CallerOK(d)'
    BY <1>12, <1>15, <2>1, SameCaller DEF CallInv, Callers, Now
  <2> QED  BY <1>16, <2>1, <1>c DEF Callers
<1>18. QueuedOK'
  <2>1. SUFFICES ASSUME NEW d \in Client, backlog' = <<d>>
                 PROVE  /\ pc' # "main" /\ Connected(d)' /\ ~ Busy(d)'
                        /\ executed'[d] = <<>> /\ Stream(d)' = Marshal(request'[d])
    BY DEF QueuedOK
  <2>2. d # c
    BY <1>2, <1>3, <2>1 DEF CallInv, QueuedOK
  <2>3. Same(d)
    BY <1>12, <2>2 DEF Now
  <2> QED  BY <1>1, <1>2, <1>15, <2>1, <2>2, <2>3 DEF CallInv, QueuedOK, Same, Connected, Stream
<1>19. ServedOK'
  <2>1. \A d \in Client : Busy(d)' => d = c
    BY <1>c, <1>2 DEF Busy
  <2>2. Connected(c)' /\ executed'[c] # <<>>
    BY <1>3, <1>12, <1>c DEF Now, Connected
  <2> QED  BY <1>1, <1>c, <2>1, <2>2 DEF ServedOK
<1>20. CallInv'
  BY <1>12, <1>13, <1>14, <1>17, <1>18, <1>19 DEF CallInv, Now
<1>21. stage[c] # "idle"
  BY <1>3 DEF Connected
<1> QED  BY <1>3, <1>5, <1>9, <1>20, <1>21, <1>c, <1>q, <1>v

\* A send() moves bytes within the answer.
LEMMA ReturnResultKeeps ==
  ASSUME CallInv, returnResult
  PROVE  CallInv'
<1>0. pc = "returnResult"
  BY DEF returnResult
<1>c. PICK c \in Client : c = serving
  BY <1>0 DEF CallInv, BetweenCalls
<1>1. PICK n \in Sendable(unsentback, down[c]) :
        /\ unsentback' = Behind(unsentback, n)
        /\ down' = [down EXCEPT ![c] =
                      IF stage[c] = "gone" THEN down[c] ELSE Cat(down[c], Ahead(unsentback, n))]
  BY <1>c, Zenon DEF returnResult, First, After, Cat, Ahead, Behind
<1>2. /\ UNCHANGED <<stage, request, unsent, rsize, rgot, up, executed>>
      /\ UNCHANGED <<backlog, serving, pc, fnp, want, need, got, fname, nparams, args, ret>>
  BY DEF returnResult, caller, parse, history
<1>3. PICK dn : dn = IF stage[c] = "gone" THEN down[c] ELSE Cat(down[c], Ahead(unsentback, n))
  OBVIOUS
<1>4. /\ ClientTypes
      /\ stage[c] \in {"idle", "connecting", "sending", "receiving", "gone"}
      /\ request[c] \in Wanted \cup {NoRequest} /\ unsent[c] \in Seq(Byte)
      /\ rsize[c] \in Int /\ rgot[c] \in Seq(Byte)
      /\ up[c] \in Seq(Byte) /\ down[c] \in Seq(Byte)
      /\ Len(up[c]) <= Room /\ Len(down[c]) <= Room
      /\ executed[c] \in Seq(Seq(Byte)) /\ unsentback \in Seq(Byte)
  BY ClientFacts DEF CallInv, ServerTypes
<1>5. n \in 0 .. Len(unsentback) /\ n > 0 /\ Len(down[c]) + n <= Room
  BY <1>4, SendableFacts
<1>6. /\ Cat(down[c], Ahead(unsentback, n)) \in Seq(Byte)
      /\ Len(Cat(down[c], Ahead(unsentback, n))) = Len(down[c]) + n
      /\ Behind(unsentback, n) \in Seq(Byte)
      /\ Cat(Cat(down[c], Ahead(unsentback, n)), Behind(unsentback, n)) = Cat(down[c], unsentback)
  <2>1. down[c] \in Seq(Byte) /\ unsentback \in Seq(Byte) /\ n \in 0 .. Len(unsentback)
    BY <1>4, <1>5
  <2>2. Cat(down[c], Ahead(unsentback, n)) \in Seq(Byte)
    BY ONLY <2>1, Move
  <2>3. Len(Cat(down[c], Ahead(unsentback, n))) = Len(down[c]) + n
    BY ONLY <2>1, Move
  <2>4. Behind(unsentback, n) \in Seq(Byte)
    BY ONLY <2>1, Move
  <2>5. Cat(Cat(down[c], Ahead(unsentback, n)), Behind(unsentback, n)) = Cat(down[c], unsentback)
    BY ONLY <2>1, Move
  <2> QED  BY <2>2, <2>3, <2>4, <2>5
<1>7. dn \in Seq(Byte) /\ Len(dn) <= Room
  BY <1>3, <1>4, <1>5, <1>6
<1>8. Becomes(c, stage[c], request[c], unsent[c], rsize[c], rgot[c], up[c], dn, executed[c])
  BY <1>1, <1>2, <1>3, <1>4, Keeps DEF Becomes
<1>9. Now(c, stage[c], request[c], unsent[c], rsize[c], rgot[c], up[c], dn, executed[c])
  BY <1>4, <1>7, <1>8, BecomesView
<1>10. unsentback # <<>> /\ Busy(c)
  <2>1. unsentback # <<>>
    BY <1>5
  <2> QED  BY <1>0, <1>c, <2>1 DEF Busy
<1>11. Connected(c) /\ executed[c] # <<>>
  BY <1>0, <1>10 DEF CallInv, ServedOK
<1>12. ServerTypes'
  BY <1>1, <1>2, <1>6 DEF CallInv, ServerTypes
<1>13. Registered' /\ BetweenCalls' /\ ExitOK'
  BY <1>0, <1>2 DEF CallInv, Registered, BetweenCalls, ExitOK
<1>14. \A d \in Client : d # c => Owed(d)' = Owed(d) /\ Busy(d)' = Busy(d)
  BY <1>c, <1>2 DEF Owed, Busy
<1>15. CallerOK(c)'
  <2>1. request[c] \in Wanted /\ CallerOK(c)
    BY <1>11 DEF CallInv, Callers, CallerOK, Connected
  <2>2. CASE stage[c] = "gone"
    BY <1>9, <2>1, <2>2 DEF Now, CallerOK, Open
  <2>3. CASE Open(c)
    <3>1. PICK v \in Outcome(request[c]) : executed[c] = <<v>> /\ Answered(c, v)
      BY <1>11, <2>1, <2>3 DEF CallerOK
    <3>2. Owed(c) = unsentback /\ Owed(c)' = Behind(unsentback, n)
      BY <1>0, <1>c, <1>1, <1>2 DEF Owed
    <3>3. down'[c] = Cat(down[c], Ahead(unsentback, n)) /\ rgot'[c] = rgot[c] /\ rsize'[c] = rsize[c]
      BY <1>3, <1>9, <2>3 DEF Now, Open
    <3>4. Arriving(c)' = Arriving(c)
      BY <1>6, <3>2, <3>3 DEF Arriving
    <3>5. Answered(c, v)'
      BY <3>1, <3>3, <3>4 DEF Answered
    <3> QED  BY <1>9, <1>11, <2>1, <2>3, <3>1, <3>5 DEF Now, CallerOK, Open
  <2> QED  BY <1>11, <2>2, <2>3 DEF Connected, Open
<1>16. Callers'
  <2>1. ASSUME NEW d \in Client, d # c PROVE CallerOK(d)'
    BY <1>9, <1>14, <2>1, SameCaller DEF CallInv, Callers, Now
  <2> QED  BY <1>15, <2>1 DEF Callers
<1>17. QueuedOK'
  <2>1. SUFFICES ASSUME NEW d \in Client, backlog' = <<d>>
                 PROVE  /\ pc' # "main" /\ Connected(d)' /\ ~ Busy(d)'
                        /\ executed'[d] = <<>> /\ Stream(d)' = Marshal(request'[d])
    BY DEF QueuedOK
  <2>2. d # c
    BY <1>2, <1>10, <2>1 DEF CallInv, QueuedOK
  <2>3. Same(d)
    BY <1>9, <2>2 DEF Now
  <2> QED  BY <1>2, <1>14, <2>1, <2>2, <2>3 DEF CallInv, QueuedOK, Same, Connected, Stream
<1>18. ServedOK'
  <2>1. \A d \in Client : Busy(d)' => d = c
    BY <1>c, <1>2 DEF Busy
  <2>2. Connected(c)' /\ executed'[c] # <<>> /\ pc' = "returnResult"
    BY <1>0, <1>2, <1>11 DEF Connected
  <2> QED  BY <2>1, <2>2 DEF ServedOK
<1>19. ClientTypes'
  BY <1>9 DEF Now
<1> QED  BY <1>12, <1>13, <1>16, <1>17, <1>18, <1>19 DEF CallInv

\* The turn ends when all of the answer has been sent.
LEMMA CloseKeeps ==
  ASSUME CallInv, closes
  PROVE  CallInv'
<1>1. /\ pc = "returnResult" /\ unsentback = <<>> /\ pc' = "accept"
      /\ serving' = NoClient /\ FreshCall
      /\ ClientsSame /\ UNCHANGED <<backlog, fnp, unsentback>>
  BY DEF closes, ClientsSame, caller, history
<1>2. \A d \in Client : Owed(d)' = Owed(d) /\ ~ Busy(d)'
  BY <1>1 DEF Owed, Busy
<1>3. ServerTypes'
  <2>1. <<>> \in Seq(Byte) /\ <<>> \in Seq(Seq(Byte)) /\ Len(<<>>) <= 2 /\ 2 \in Nat
    OBVIOUS
  <2>2. /\ want' = "fnamelen" /\ need' = 2 /\ got' = <<>> /\ fname' = <<>>
        /\ nparams' = 0 /\ args' = <<>> /\ ret' = <<>>
    BY <1>1 DEF FreshCall, IntSize, Nothing
  <2> QED  BY <1>1, <2>1, <2>2 DEF CallInv, ServerTypes
<1>4. Registered' /\ ExitOK'
  BY <1>1 DEF CallInv, Registered, ExitOK
<1>5. BetweenCalls'
  BY <1>1 DEF BetweenCalls, FreshCall
<1>6. QueuedOK'
  BY <1>1, <1>2 DEF CallInv, QueuedOK, ClientsSame, Connected, Stream
<1>7. ServedOK'
  BY <1>2 DEF ServedOK
<1> QED  BY <1>1, <1>2, <1>3, <1>4, <1>5, <1>6, <1>7, UnseenKeeps

\* A step that does nothing.
LEMMA NothingKeeps ==
  ASSUME CallInv, UNCHANGED vars
  PROVE  CallInv'
<1>1. /\ ClientsSame /\ UNCHANGED <<backlog, serving, pc, fnp, want, need, got, fname, nparams,
                                    args, ret, unsentback>>
  BY DEF vars, caller, parse, history, ClientsSame
<1>2. ServerTypes' /\ Registered' /\ BetweenCalls' /\ \A d \in Client : Owed(d)' = Owed(d)
  BY <1>1 DEF CallInv, ServerTypes, Registered, BetweenCalls, Owed
<1>3. ExitOK'
  BY <1>1 DEF CallInv, ExitOK, ClientsSame, Open
<1>4. QueuedOK'
  BY <1>1 DEF CallInv, QueuedOK, ClientsSame, Connected, Busy, Stream
<1>5. ServedOK'
  BY <1>1 DEF CallInv, ServedOK, ClientsSame, Connected, Busy, Stream, ReadSoFar, Reads, Parsed
<1> QED  BY <1>1, <1>2, <1>3, <1>4, <1>5, UnseenKeeps

-----------------------------------------------------------------------------
(* The theorems.                                                             *)

\* The invariant holds at the start.
LEMMA InitCallInv ==
  ASSUME Init
  PROVE  CallInv
<1>1. ClientTypes
  <2>1. <<>> \in Seq(Byte) /\ <<>> \in Seq(Seq(Byte)) /\ Len(<<>>) <= Room /\ -1 \in Int
    BY StreamAssumption
  <2> QED  BY <2>1 DEF Init, ClientTypes
<1>2. ServerTypes
  <2>1. <<>> \in Seq(Byte) /\ <<>> \in Seq(Seq(Byte)) /\ <<>> \in Seq(Client) /\ Len(<<>>) = 0 /\ 0 \in Int
    OBVIOUS
  <2> QED  BY <2>1 DEF Init, ServerTypes, IntSize, BacklogSize
<1>3. Registered
  <2>1. /\ pc = "main" /\ fnp = <<>>
    BY DEF Init
  <2>2. Len(Registration) \in Nat
    BY CallAssumption
  <2> QED  BY <2>1, <2>2 DEF Registered
<1>4. Callers /\ ServedOK /\ BetweenCalls /\ ExitOK
  BY DEF Init, Callers, CallerOK, Open, ServedOK, Busy, BetweenCalls, ExitOK
<1>5. QueuedOK
  <2>1. \A d : <<>> # <<d>>
    OBVIOUS
  <2> QED  BY <2>1 DEF Init, QueuedOK
<1> QED  BY <1>1, <1>2, <1>3, <1>4, <1>5 DEF CallInv

\* Every step keeps the invariant.
LEMMA NextCallInv ==
  ASSUME CallInv, [Next]_vars
  PROVE  CallInv'
<1>1. ASSUME NEW c \in Client, Calling(c) PROVE CallInv'
  BY <1>1, CallKeeps, ConnectKeeps, SendKeeps, SentKeeps, RecvKeeps, SizeKeeps, ReturnKeeps,
     LeaveKeeps DEF Calling, ConnectionLost
<1>2. ASSUME NEW c \in Client, Killed(c) PROVE CallInv'
  BY <1>2, LeaveKeeps DEF Killed
<1>3. ASSUME recvCall PROVE CallInv'
  BY <1>3, RecvSomeKeeps, PeerGoneKeeps, NameLengthKeeps, NameKeeps, CountKeeps, ArgumentSizeKeeps,
     EmptyArgumentKeeps, ValueKeeps DEF recvCall
<1>4. ASSUME Server PROVE CallInv'
  BY <1>3, <1>4, StartKeeps, AcceptKeeps, MakeCallKeeps, ReturnResultKeeps, PeerGoneKeeps, CloseKeeps
     DEF Server
<1>5. ASSUME Ended \/ UNCHANGED vars PROVE CallInv'
  BY <1>5, NothingKeeps DEF Ended
<1> QED  BY <1>1, <1>2, <1>4, <1>5 DEF Next

\* The invariant holds the invariants that a run checks.
LEMMA CallInvImplies ==
  ASSUME CallInv
  PROVE  TypeOK /\ RequestReadOut /\ EndsForACause
<1>1. TypeOK
  BY DEF CallInv, ClientTypes, ServerTypes, TypeOK
<1>2. RequestReadOut
  <2>1. SUFFICES ASSUME pc = "makeCall" PROVE up[serving] = <<>> /\ unsent[serving] = <<>>
    BY DEF RequestReadOut
  <2>2. serving \in Client /\ Busy(serving)
    BY <2>1, ServedFacts
  <2> QED  BY <2>1, <2>2 DEF CallInv, ServedOK
<1>3. EndsForACause
  BY DEF CallInv, ExitOK, EndsForACause
<1> QED  BY <1>1, <1>2, <1>3

\* Every variable has its type and every stream its bound, whatever the clients
\* call and however their bytes are cut up.
THEOREM StreamTypes == Spec => []TypeOK
<1>1. CallInv => TypeOK
  BY CallInvImplies
<1> QED  BY <1>1, InitCallInv, NextCallInv, PTL DEF Spec

\* recvCall reads a request to its end and not beyond (server_stub.c:72): when
\* the procedure is called nothing of the connection is left to read.
THEOREM RequestIsReadOut == Spec => []RequestReadOut
<1>1. CallInv => RequestReadOut
  BY CallInvImplies
<1> QED  BY <1>1, InitCallInv, NextCallInv, PTL DEF Spec

\* The loop of launch_server() ends only for a client that is gone or an argument
\* of size 0 (server_stub.c:256).
THEOREM ExitsForACause == Spec => []EndsForACause
<1>1. CallInv => EndsForACause
  BY CallInvImplies
<1> QED  BY <1>1, InitCallInv, NextCallInv, PTL DEF Spec

-----------------------------------------------------------------------------
(* The refinement.                                                           *)

\* A step within a call, or outside of one.
LEMMA StepsWithin ==
  ASSUME UNCHANGED <<request, executed, returned>>,
         \A c \in Client : stage'[c] = "idle" <=> stage[c] = "idle"
  PROVE  UNCHANGED Call!vars
  BY DEF Call!vars

\* The steps of a client that show in RemoteCall are the call and its return.
LEMMA ClientRefines ==
  ASSUME CallInv, NEW c \in Client, Calling(c) \/ Killed(c)
  PROVE  [Call!Next]_Call!vars
<1>0. stage \in [Client -> {"idle", "connecting", "sending", "receiving", "gone"}]
      /\ request \in [Client -> Wanted \cup {NoRequest}]
  BY DEF CallInv, ClientTypes
<1>1. CASE make_remote_call(c)
  <2>1. PICK q \in Wanted : request' = [request EXCEPT ![c] = q]
    BY <1>1 DEF make_remote_call
  <2>2. /\ stage[c] = "idle" /\ stage' = [stage EXCEPT ![c] = "connecting"]
        /\ returned' = [returned EXCEPT ![c] = <<>>] /\ executed' = executed
    BY <1>1 DEF make_remote_call, Stage
  <2>3. Call!Call(c)
    BY <1>0, <2>1, <2>2 DEF Call!Call
  <2> QED  BY <2>3 DEF Call!Next
<1>2. CASE returns(c)
  <2>1. /\ stage[c] = "receiving" /\ stage' = [stage EXCEPT ![c] = "idle"]
        /\ returned' = [returned EXCEPT ![c] = <<request[c], rgot[c]>>]
        /\ executed' = [executed EXCEPT ![c] = <<>>]
        /\ request' = [request EXCEPT ![c] = NoRequest]
    BY <1>2 DEF returns, Stage
  <2>2. executed[c] = <<rgot[c]>>
    BY <1>2, ReturnsTheResult
  <2>3. Call!Return(c)
    <3> DEFINE calling == [d \in Client |-> IF stage[d] = "idle" THEN <<>> ELSE <<request[d]>>]
    <3>1. calling[c] = <<request[c]>>
      BY <2>1
    <3>2. calling' = [calling EXCEPT ![c] = <<>>]
      BY <1>0, <2>1
    <3> HIDE DEF calling
    <3>3. executed[c] # <<>> /\ calling[c] # <<>>
      BY <2>2, <3>1
    <3>4. returned' = [returned EXCEPT ![c] = <<calling[c][1], executed[c][1]>>]
      BY <2>1, <2>2, <3>1
    <3> QED  BY <2>1, <3>2, <3>3, <3>4 DEF Call!Return, calling
  <2> QED  BY <2>3 DEF Call!Next
<1>3. CASE connect(c) \/ sendbytes(c) \/ sent(c) \/ recvbytes(c) \/ gotReturnSize(c)
  <2>1. UNCHANGED <<request, executed, returned>>
    BY <1>3 DEF connect, sendbytes, sent, recvbytes, gotReturnSize, history
  <2>2. \A d \in Client : stage'[d] = "idle" <=> stage[d] = "idle"
    BY <1>0, <1>3 DEF connect, sendbytes, sent, recvbytes, gotReturnSize, Stage
  <2> QED  BY <2>1, <2>2, StepsWithin
<1>4. CASE ConnectionLost(c) \/ Killed(c)
  <2>1. UNCHANGED <<request, executed, returned>>
    BY <1>4 DEF ConnectionLost, Killed, Leaves, history
  <2>2. \A d \in Client : stage'[d] = "idle" <=> stage[d] = "idle"
    BY <1>0, <1>4 DEF ConnectionLost, Killed, Leaves
  <2> QED  BY <2>1, <2>2, StepsWithin
<1> QED  BY <1>1, <1>2, <1>3, <1>4 DEF Calling

\* The step of the server that shows in RemoteCall is the execution.
LEMMA ServerRefines ==
  ASSUME CallInv, Server
  PROVE  [Call!Next]_Call!vars
<1>1. CASE makeCall
  <2>1. /\ serving \in Client /\ request[serving] \in Wanted /\ stage[serving] # "idle"
        /\ executed[serving] = <<>> /\ ret' \in Outcome(request[serving])
        /\ executed' = [executed EXCEPT ![serving] = <<ret'>>]
    BY <1>1, MakeCallKeeps
  <2>2. UNCHANGED <<stage, request, returned>>
    BY <1>1 DEF makeCall, caller
  <2>3. Call!Execute(serving)
    BY <2>1, <2>2 DEF Call!Execute
  <2> QED  BY <2>1, <2>3 DEF Call!Next
<1>2. CASE register_procedure \/ launch_server \/ accept \/ recvCall \/ returnResult \/ returnResultFails \/ closes
  <2>1. UNCHANGED <<stage, request, executed, returned>>
    BY <1>2 DEF register_procedure, launch_server, accept, recvCall, recvSome, recvFails, gotNameLength,
       gotName, gotCount, gotSize, emptyArgument, gotValue, exits, returnResult, returnResultFails, closes,
       caller, history
  <2> QED  BY <2>1, StepsWithin
<1> QED  BY <1>1, <1>2 DEF Server

\* A call, its execution and its return are steps of RemoteCall, and no other
\* step shows there.
THEOREM ImplementsCall == Spec => ImplementsRemoteCall
<1>1. Init => Call!Init
  BY DEF Init, Call!Init
<1>2. CallInv /\ [Next]_vars => [Call!Next]_Call!vars
  <2> SUFFICES ASSUME CallInv, [Next]_vars PROVE [Call!Next]_Call!vars
    OBVIOUS
  <2>1. CASE Ended \/ UNCHANGED vars
    BY <2>1, StepsWithin DEF Ended, vars, caller, history
  <2> QED  BY <2>1, ClientRefines, ServerRefines DEF Next
<1> QED  BY <1>1, <1>2, InitCallInv, NextCallInv, PTL DEF Spec, ImplementsRemoteCall, Call!Spec

===============================================================================
