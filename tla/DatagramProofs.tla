--------------------------- MODULE DatagramProofs ---------------------------
(* Whose answer a client of assignment 1 gets, for every number of clients,  *)
(* calls, ports, lost and duplicated datagrams.                              *)
EXTENDS DatagramRPC, DataLemmas, SequenceTheorems, TLAPS

-----------------------------------------------------------------------------
(* The result of a call.                                                     *)

Value(q) == CHOOSE v : v \in Outcome(q)

Body(q) == IF Known(q) THEN Carrying(Value(q)) ELSE Empty

\* A request has one outcome; an unknown name has none but Nothing.
LEMMA OneOutcome ==
  ASSUME NEW q
  PROVE  Outcome(q) = {Value(q)} /\ (~ Known(q) => Value(q) = Nothing)
<1>1. PICK v : Outcome(q) = {v} /\ (~ Known(q) => v = Nothing)
  BY DEF Outcome, Known
<1>2. Value(q) = v
  BY <1>1 DEF Value
<1> QED  BY <1>1, <1>2

\* The list holds the registrations so far, the last one first.
Registered ==
  /\ function_list \in Seq([name : STRING, nparams : Nat, proc : {"nop", "add", "concat"}])
  /\ Len(function_list) <= Len(Registration)
  /\ \A i \in 1 .. Len(function_list) :
       function_list[i] = Registration[Len(function_list) + 1 - i]
  /\ pc # "main" => Len(function_list) = Len(Registration)

\* The next registration is the one that follows in main().
LEMMA RegisteredStep ==
  ASSUME Registered, register_procedure
  PROVE  Registered'
<1> DEFINE P == [name : STRING, nparams : Nat, proc : {"nop", "add", "concat"}]
           n == Len(function_list)
           f == Registration[n + 1]
<1> HIDE DEF P
<1>1. /\ Registration \in Seq(P) /\ function_list \in Seq(P)
      /\ n < Len(Registration) /\ pc = "main" /\ pc' = pc
      /\ function_list' = <<f>> \o function_list
  BY DatagramAssumption DEF Registered, register_procedure, push_front, P
<1>2. n \in Nat /\ Len(Registration) \in Nat
  BY <1>1
<1>3. f \in P
  BY <1>1, <1>2
<1>4. /\ function_list' \in Seq(P) /\ Len(function_list') = n + 1
      /\ \A i \in 1 .. n + 1 : function_list'[i] = IF i = 1 THEN f ELSE function_list[i - 1]
  BY <1>1, <1>2, <1>3
<1>5. \A i \in 1 .. n : function_list[i] = Registration[n + 1 - i]
  BY DEF Registered
<1>6. \A i \in 1 .. n + 1 : function_list'[i] = Registration[n + 2 - i]
  <2>1. SUFFICES ASSUME NEW i \in 1 .. n + 1, i # 1 PROVE function_list'[i] = Registration[n + 2 - i]
    BY <1>2, <1>4
  <2>2. i - 1 \in 1 .. n
    BY <1>2, <2>1
  <2>3. function_list[i - 1] = Registration[n + 1 - (i - 1)]
    BY <1>5, <2>2
  <2> QED  BY <1>2, <1>4, <2>1, <2>3
<1> QED  BY <1>1, <1>2, <1>4, <1>6 DEF Registered, P

\* The procedure found is the one registered last under the name.
LEMMA LastRegistered ==
  ASSUME Registered, pc # "main", NEW name
  PROVE  LET for == {i \in DOMAIN Registration : Registration[i].name = name}
         IN  /\ find(name) = {} <=> for = {}
             /\ find(name) # {} => Found(name) = Registration[Max(for)]
<1> DEFINE for == {i \in DOMAIN Registration : Registration[i].name = name}
           n   == Len(Registration)
<1>1. /\ n \in Nat /\ DOMAIN Registration = 1 .. n /\ DOMAIN function_list = 1 .. n
      /\ \A i \in 1 .. n : function_list[i] = Registration[n + 1 - i]
  BY DatagramAssumption DEF Registered
<1> HIDE DEF n
<1>2. \A i \in 1 .. n : n + 1 - i \in 1 .. n
  BY <1>1
<1>3. \A i \in 1 .. n : i \in find(name) <=> n + 1 - i \in for
  BY <1>1, <1>2 DEF find
<1>4. \A i \in 1 .. n : i \in for <=> n + 1 - i \in find(name)
  <2>1. ASSUME NEW i \in 1 .. n PROVE i \in for <=> n + 1 - i \in find(name)
    <3>1. n + 1 - (n + 1 - i) = i
      BY <1>1
    <3> QED  BY <1>2, <1>3, <3>1
  <2> QED  BY <2>1
<1>5. find(name) \subseteq 1 .. n /\ for \subseteq 1 .. n
  BY <1>1 DEF find
<1>6. find(name) = {} <=> for = {}
  BY <1>2, <1>3, <1>4, <1>5
<1>7. ASSUME find(name) # {} PROVE Found(name) = Registration[Max(for)]
  <2>1. PICK k \in find(name) : \A j \in find(name) : k <= j
    <3>1. find(name) \in SUBSET Nat
      BY <1>1, <1>5
    <3> QED  BY <1>7, <3>1, MinOfNats
  <2>2. Min(find(name)) = k
    <3>1. \A j \in find(name) : (\A x \in find(name) : j <= x) => j = k
      BY <1>1, <1>5, <2>1
    <3> QED  BY <2>1, <3>1 DEF Min
  <2>3. n + 1 - k \in for /\ \A j \in for : n + 1 - k >= j
    <3>1. n + 1 - k \in for
      BY <1>3, <1>5, <2>1
    <3>2. ASSUME NEW j \in for PROVE n + 1 - k >= j
      <4>1. n + 1 - j \in find(name)
        BY <1>4, <1>5
      <4>2. k <= n + 1 - j
        BY <2>1, <4>1
      <4> QED  BY <1>1, <1>5, <2>1, <4>2
    <3> QED  BY <3>1, <3>2
  <2>4. Max(for) = n + 1 - k
    <3>1. \A j \in for : (\A x \in for : j >= x) => j = n + 1 - k
      BY <1>1, <1>5, <2>1, <2>3
    <3> QED  BY <2>3, <3>1 DEF Max
  <2>5. function_list[k] = Registration[n + 1 - k]
    BY <1>1, <1>5, <2>1
  <2> QED  BY <2>2, <2>4, <2>5 DEF Found
<1> QED  BY <1>6, <1>7

-----------------------------------------------------------------------------
(* The invariant.                                                            *)

\* A datagram on its way has these fields, and is about a call that was made.
Datagrams ==
  \A m \in net :
    /\ DOMAIN m = {"to", "port", "tag", "copy", "body"}
    /\ m.tag[2] <= calls[m.tag[1]]

\* Two waiting clients have two ports.
Sockets ==
  /\ \A c \in Client : IF stage[c] = "waiting" THEN sock[c] \in Port ELSE sock[c] = NoPort
  /\ \A c, d \in Client : stage[c] = "waiting" /\ stage[d] = "waiting" /\ sock[c] = sock[d] => c = d

\* What is about the call that a client is in goes to or from its port, and
\* says what it should; nothing else does, if the port was quiet at first.
Theirs ==
  \A m \in net, c \in Client : stage[c] = "waiting" =>
    /\ m.tag = <<c, calls[c]>> =>
         /\ m.port = sock[c]
         /\ m.body = IF m.to = "server" THEN request[c] ELSE Body(request[c])
    /\ m.port = sock[c] /\ c \notin crossed => m.tag = <<c, calls[c]>>

\* While nothing has been duplicated, the request or the answer is on its way,
\* not both, and the procedure has run if it is the answer.
Single ==
  copies = MaxCopies =>
    /\ \A m, n \in net : m.tag = n.tag => m = n
    /\ \A m \in net, c \in Client : stage[c] = "waiting" /\ m.tag = <<c, calls[c]>> =>
         executed[c] = IF m.to = "server" THEN <<>> ELSE <<Value(request[c])>>

History ==
  /\ DOMAIN executed = Client /\ DOMAIN returned = Client
  /\ \A c \in Client : /\ stage[c] = "idle" => executed[c] = <<>>
                       /\ stage[c] = "waiting" => returned[c] = <<>>

\* The inductive invariant.
DatagramInv ==
  /\ TypeOK /\ Registered /\ Datagrams /\ Sockets /\ Theirs /\ Single /\ History /\ AnswerIsOwn

-----------------------------------------------------------------------------
(* The invariant, one action after the other.                                *)

\* It holds at first.
LEMMA Initially == Init => DatagramInv
<1> SUFFICES ASSUME Init PROVE DatagramInv
  OBVIOUS
<1>1. TypeOK
  BY DatagramAssumption DEF Init, TypeOK
<1>2. Registered
  BY DatagramAssumption DEF Init, Registered
<1>3. Datagrams /\ Sockets /\ Theirs /\ Single /\ History /\ AnswerIsOwn
  BY DEF Init, Datagrams, Sockets, Theirs, Single, History, AnswerIsOwn
<1> QED  BY <1>1, <1>2, <1>3 DEF DatagramInv

\* A client calls: the number of its call is new, and so is its port, unless it is
\* crossed.
LEMMA CallKeeps ==
  ASSUME DatagramInv, NEW c \in Client, make_remote_call(c)
  PROVE  DatagramInv'
<1>1. PICK q \in Wanted, p \in FreePort :
        /\ request' = [request EXCEPT ![c] = q]
        /\ sock' = [sock EXCEPT ![c] = p]
        /\ crossed' = IF Crossing(p) THEN crossed \cup {c} ELSE crossed \ {c}
        /\ net' = net \cup {Asks(p, <<c, calls'[c]>>, q)}
  BY DEF make_remote_call, Send, Tag
<1> DEFINE new == Asks(p, <<c, calls'[c]>>, q)
<1>2. /\ stage[c] = "idle" /\ calls[c] < MaxCalls
      /\ stage' = [stage EXCEPT ![c] = "waiting"]
      /\ calls' = [calls EXCEPT ![c] = @ + 1]
      /\ returned' = [returned EXCEPT ![c] = <<>>]
      /\ UNCHANGED <<copies, lossless, pc, function_list, arg_list, lost, executed>>
  BY DEF make_remote_call, server
<1>3. p \in Port /\ \A d \in Client : sock[d] # p
  BY DEF FreePort
<1>4. TypeOK /\ MaxCalls \in Nat /\ MaxCopies \in Nat /\ NoPort \notin Port
  BY DatagramAssumption DEF DatagramInv
<1>5. /\ stage'[c] = "waiting" /\ sock'[c] = p /\ request'[c] = q /\ calls'[c] = calls[c] + 1
      /\ calls[c] \in Nat /\ calls'[c] \in 1 .. MaxCalls
      /\ \A d \in Client \ {c} : /\ stage'[d] = stage[d] /\ sock'[d] = sock[d]
                                 /\ request'[d] = request[d] /\ calls'[d] = calls[d]
  BY <1>1, <1>2, <1>4 DEF TypeOK
<1>6. /\ DOMAIN new = {"to", "port", "tag", "copy", "body"}
      /\ new.to = "server" /\ new.port = p /\ new.tag = <<c, calls'[c]>> /\ new.copy = 0
      /\ new.body = q
  BY DEF Asks
<1>7. net' = net \cup {new}
  BY <1>1
<1> HIDE DEF new
<1>8. TypeOK'
  <2>1. /\ stage' \in [Client -> {"idle", "waiting", "gone"}]
        /\ sock' \in [Client -> Port \cup {NoPort}]
        /\ request' \in [Client -> Wanted \cup {NoRequest}]
        /\ crossed' \subseteq Client
    BY <1>1, <1>2, <1>3, <1>4 DEF TypeOK
  <2>2. calls' \in [Client -> 0 .. MaxCalls]
    BY <1>2, <1>4, <1>5 DEF TypeOK
  <2>3. ASSUME NEW m \in net'
        PROVE  /\ m.to \in {"client", "server"} /\ m.port \in Port
               /\ m.tag \in Client \X (1 .. MaxCalls) /\ m.copy \in 0 .. MaxCopies
               /\ m.to = "server" => m.body \in Wanted
    <3>1. CASE m \in net
      BY <1>4, <3>1 DEF TypeOK
    <3>2. CASE m = new
      <4>1. m.to = "server" /\ m.port = p /\ m.tag = <<c, calls'[c]>> /\ m.copy = 0 /\ m.body = q
        BY <1>6, <3>2
      <4>2. 0 \in 0 .. MaxCopies /\ calls'[c] \in 1 .. MaxCalls
        BY <1>4, <1>5
      <4> QED  BY <1>3, <4>1, <4>2
    <3> QED  BY <1>7, <2>3, <3>1, <3>2
  <2> QED  BY <1>2, <1>4, <2>1, <2>2, <2>3 DEF TypeOK
<1>9. Registered'
  BY <1>2 DEF DatagramInv, Registered
<1>10. ASSUME NEW m \in net
       PROVE  /\ c \notin crossed' => m.port # p
              /\ m.tag # <<c, calls'[c]>>
              /\ m.tag[2] <= calls'[m.tag[1]]
  <2>1. /\ m.tag \in Client \X (1 .. MaxCalls) /\ m.tag[2] <= calls[m.tag[1]]
    BY <1>4 DEF DatagramInv, Datagrams, TypeOK
  <2>2. m.tag[1] \in Client /\ m.tag[2] \in Nat /\ calls[m.tag[1]] \in Nat
    BY <1>4, <2>1 DEF TypeOK
  <2>3. m.tag[2] <= calls'[m.tag[1]]
    BY <1>5, <2>1, <2>2
  <2>4. ASSUME m.tag = <<c, calls'[c]>> PROVE FALSE
    <3>1. m.tag[1] = c /\ m.tag[2] = calls[c] + 1
      BY <1>5, <2>4
    <3> QED  BY <1>5, <2>1, <3>1
  <2>5. ASSUME m.port = p PROVE c \in crossed'
    BY <1>1, <2>5 DEF Crossing
  <2> QED  BY <2>3, <2>4, <2>5
<1>11. Datagrams'
  <2>1. ASSUME NEW m \in net'
        PROVE  /\ DOMAIN m = {"to", "port", "tag", "copy", "body"}
               /\ m.tag[2] <= calls'[m.tag[1]]
    <3>1. CASE m \in net
      BY <1>1, <1>10, <3>1 DEF DatagramInv, Datagrams
    <3>2. CASE m = new
      BY <1>1, <1>5, <1>6, <3>2
    <3> QED  BY <1>7, <2>1, <3>1, <3>2
  <2> QED  BY <2>1 DEF Datagrams
<1>12. Sockets'
  BY <1>1, <1>3, <1>5 DEF DatagramInv, Sockets
<1>13. \A d \in Client \ {c} : sock[d] # p /\ (d \in crossed' <=> d \in crossed)
  BY <1>1, <1>3
<1>14. Theirs'
  <2>1. ASSUME NEW m \in net', NEW d \in Client, stage'[d] = "waiting"
        PROVE  /\ m.tag = <<d, calls'[d]>> =>
                    /\ m.port = sock'[d]
                    /\ m.body = IF m.to = "server" THEN request'[d] ELSE Body(request'[d])
               /\ m.port = sock'[d] /\ d \notin crossed' => m.tag = <<d, calls'[d]>>
    <3>1. CASE m \in net /\ d = c
      BY <1>5, <1>10, <3>1
    <3>2. CASE m \in net /\ d # c
      BY <1>5, <1>13, <2>1, <3>2 DEF DatagramInv, Theirs
    <3>3. CASE m = new /\ d = c
      BY <1>5, <1>6, <3>3
    <3>4. CASE m = new /\ d # c
      BY <1>5, <1>6, <1>13, <2>1, <3>4
    <3> QED  BY <1>7, <2>1, <3>1, <3>2, <3>3, <3>4
  <2> QED  BY <2>1 DEF Theirs
<1>15. Single'
  <2>1. SUFFICES ASSUME copies = MaxCopies
        PROVE /\ \A m, n \in net' : m.tag = n.tag => m = n
              /\ \A m \in net', d \in Client : stage'[d] = "waiting" /\ m.tag = <<d, calls'[d]>> =>
                   executed'[d] = IF m.to = "server" THEN <<>> ELSE <<Value(request'[d])>>
    BY <1>2 DEF Single
  <2>2. /\ \A m, n \in net : m.tag = n.tag => m = n
        /\ \A m \in net, d \in Client : stage[d] = "waiting" /\ m.tag = <<d, calls[d]>> =>
             executed[d] = IF m.to = "server" THEN <<>> ELSE <<Value(request[d])>>
    BY <2>1 DEF DatagramInv, Single
  <2>3. \A m, n \in net' : m.tag = n.tag => m = n
    BY <1>6, <1>7, <1>10, <2>2
  <2>4. executed[c] = <<>>
    BY <1>2 DEF DatagramInv, History
  <2>5. ASSUME NEW m \in net', NEW d \in Client, stage'[d] = "waiting", m.tag = <<d, calls'[d]>>
        PROVE  executed'[d] = IF m.to = "server" THEN <<>> ELSE <<Value(request'[d])>>
    <3>1. CASE d = c
      BY <1>2, <1>5, <1>6, <1>7, <1>10, <2>4, <2>5, <3>1
    <3>2. CASE d # c
      <4>1. stage[d] = "waiting" /\ m \in net /\ m.tag = <<d, calls[d]>>
        BY <1>5, <1>6, <1>7, <2>5, <3>2
      <4> QED  BY <1>2, <1>5, <2>2, <3>2, <4>1
    <3> QED  BY <3>1, <3>2
  <2> QED  BY <2>3, <2>5
<1>16. History'
  BY <1>2, <1>5 DEF DatagramInv, History
<1>17. AnswerIsOwn'
  <2>1. \A d \in Client : returned'[d] = IF d = c THEN <<>> ELSE returned[d]
    BY <1>2 DEF DatagramInv, History
  <2> QED  BY <1>13, <2>1 DEF DatagramInv, AnswerIsOwn
<1> QED  BY <1>8, <1>9, <1>11, <1>12, <1>14, <1>15, <1>16, <1>17 DEF DatagramInv

\* Datagrams vanish, and clients that wait for nothing any more.
LEMMA LessKeeps ==
  ASSUME DatagramInv, net' \subseteq net,
         UNCHANGED <<calls, crossed, request, copies, function_list, arg_list>>,
         \A c \in Client : \/ UNCHANGED <<stage[c], sock[c], executed[c]>>
                           \/ stage'[c] # "waiting" /\ sock'[c] = NoPort
                              /\ (stage'[c] = "idle" => executed'[c] = <<>>),
         stage' \in [Client -> {"idle", "waiting", "gone"}],
         sock' \in [Client -> Port \cup {NoPort}],
         DOMAIN executed' = Client, returned' = returned,
         lossless' \in BOOLEAN, pc' \in {"main", "serving", "exited"}, lost' \in Nat,
         (pc' # "main") => (pc # "main"),
         AnswerIsOwn'
  PROVE  DatagramInv'
<1>1. TypeOK'
  BY DEF DatagramInv, TypeOK
<1>2. Registered'
  BY DEF DatagramInv, Registered
<1>3. Datagrams'
  BY DEF DatagramInv, Datagrams
<1>4. \A c \in Client : stage'[c] = "waiting" => UNCHANGED <<stage[c], sock[c], executed[c]>>
  OBVIOUS
<1>5. Sockets'
  BY <1>4 DEF DatagramInv, Sockets
<1>6. Theirs'
  BY <1>4 DEF DatagramInv, Theirs
<1>7. Single'
  BY <1>4 DEF DatagramInv, Single
<1>8. History'
  BY DEF DatagramInv, History
<1> QED  BY <1>1, <1>2, <1>3, <1>5, <1>6, <1>7, <1>8 DEF DatagramInv

\* A client takes the datagram that has come to its port, which answers its call,
\* if nothing else could come there.
LEMMA Received ==
  ASSUME DatagramInv, NEW c \in Client, recv(c)
  PROVE  \E m, v :
           /\ m \in net /\ m.to = "client" /\ m.port = sock[c] /\ net' = net \ {m}
           /\ stage[c] = "waiting" /\ (c \notin crossed => m.tag = <<c, calls[c]>>)
           /\ c \notin crossed /\ Known(request[c]) => v = Value(request[c])
           /\ returned' = [returned EXCEPT ![c] = <<request[c], v>>]
<1>1. PICK m \in net : /\ m.to = "client" /\ m.port = sock[c] /\ net' = net \ {m}
                       /\ \E v \in Read(m) : returned' = [returned EXCEPT ![c] = <<request[c], v>>]
  BY DEF recv
<1>2. PICK v \in Read(m) : returned' = [returned EXCEPT ![c] = <<request[c], v>>]
  BY <1>1
<1>3. stage[c] = "waiting"
  BY DEF recv
<1>4. c \notin crossed => m.tag = <<c, calls[c]>> /\ m.body = Body(request[c])
  BY <1>1, <1>3 DEF DatagramInv, Theirs
<1>5. c \notin crossed /\ Known(request[c]) => v = Value(request[c])
  BY <1>2, <1>4 DEF Read, Body, Carrying, Empty
<1> QED  BY <1>1, <1>2, <1>3, <1>4, <1>5

\* A client takes its answer.
LEMMA RecvKeeps ==
  ASSUME DatagramInv, NEW c \in Client, recv(c)
  PROVE  DatagramInv'
<1>1. PICK m, v :
        /\ m \in net /\ net' = net \ {m}
        /\ c \notin crossed /\ Known(request[c]) => v = Value(request[c])
        /\ returned' = [returned EXCEPT ![c] = <<request[c], v>>]
  BY Received
<1>2. /\ stage' = [stage EXCEPT ![c] = "idle"] /\ sock' = [sock EXCEPT ![c] = NoPort]
      /\ request' = [request EXCEPT ![c] = NoRequest] /\ executed' = [executed EXCEPT ![c] = <<>>]
      /\ UNCHANGED <<calls, crossed, copies, lossless, pc, function_list, arg_list, lost>>
  BY DEF recv, server
<1>3. TypeOK /\ History /\ AnswerIsOwn
  BY DEF DatagramInv
<1>4. /\ stage'[c] = "idle" /\ sock'[c] = NoPort /\ executed'[c] = <<>>
      /\ \A d \in Client \ {c} : UNCHANGED <<stage[d], sock[d], executed[d], request[d]>>
  BY <1>2, <1>3 DEF TypeOK, History
<1>5. AnswerIsOwn'
  <2>1. \A d \in Client : returned'[d] = IF d = c THEN <<request[c], v>> ELSE returned[d]
    BY <1>1, <1>3 DEF History
  <2>2. c \notin crossed /\ Known(request[c]) => v \in Outcome(request[c])
    BY <1>1, OneOutcome
  <2> QED  BY <1>2, <1>3, <2>1, <2>2 DEF AnswerIsOwn
<1>6. TypeOK'
  BY <1>1, <1>2, <1>3 DEF TypeOK
<1>7. Registered' /\ Datagrams'
  BY <1>1, <1>2 DEF DatagramInv, Registered, Datagrams
<1>8. Sockets'
  BY <1>2, <1>4 DEF DatagramInv, Sockets
<1>9. Theirs'
  <2>1. ASSUME NEW n \in net', NEW d \in Client, stage'[d] = "waiting"
        PROVE  /\ n.tag = <<d, calls'[d]>> =>
                    /\ n.port = sock'[d]
                    /\ n.body = IF n.to = "server" THEN request'[d] ELSE Body(request'[d])
               /\ n.port = sock'[d] /\ d \notin crossed' => n.tag = <<d, calls'[d]>>
    <3>1. n \in net /\ d # c /\ UNCHANGED <<stage[d], sock[d], request[d], calls, crossed>>
      BY <1>1, <1>2, <1>4, <2>1
    <3> QED  BY <2>1, <3>1 DEF DatagramInv, Theirs
  <2> QED  BY <2>1 DEF Theirs
<1>10. Single'
  <2>1. SUFFICES ASSUME copies = MaxCopies
        PROVE /\ \A k, n \in net' : k.tag = n.tag => k = n
              /\ \A n \in net', d \in Client : stage'[d] = "waiting" /\ n.tag = <<d, calls'[d]>> =>
                   executed'[d] = IF n.to = "server" THEN <<>> ELSE <<Value(request'[d])>>
    BY <1>2 DEF Single
  <2>2. \A k, n \in net' : k.tag = n.tag => k = n
    BY <1>1, <2>1 DEF DatagramInv, Single
  <2>3. ASSUME NEW n \in net', NEW d \in Client, stage'[d] = "waiting", n.tag = <<d, calls'[d]>>
        PROVE  executed'[d] = IF n.to = "server" THEN <<>> ELSE <<Value(request'[d])>>
    <3>1. n \in net /\ d # c /\ UNCHANGED <<stage[d], request[d], executed[d], calls>>
      BY <1>1, <1>2, <1>4, <2>3
    <3> QED  BY <2>1, <2>3, <3>1 DEF DatagramInv, Single
  <2> QED  BY <2>2, <2>3
<1>11. History'
  <2>1. DOMAIN executed' = Client /\ DOMAIN returned' = Client
    BY <1>1, <1>2, <1>3 DEF History
  <2>2. \A d \in Client \ {c} : returned'[d] = returned[d]
    BY <1>1, <1>3 DEF History
  <2> QED  BY <1>3, <1>4, <2>1, <2>2 DEF History
<1> QED  BY <1>5, <1>6, <1>7, <1>8, <1>9, <1>10, <1>11 DEF DatagramInv

\* A client dies, a datagram is lost, and the server does not come to answer.
LEMMA LossKeeps ==
  ASSUME DatagramInv, (\E c \in Client : Killed(c) \/ recvCrashes(c)) \/ Loses \/ Undeliverable \/ crashes
  PROVE  DatagramInv'
<1>1. CASE \E c \in Client : Killed(c) \/ recvCrashes(c)
  <2>1. PICK c \in Client : Dies(c) /\ net' \subseteq net
    BY <1>1 DEF Killed, recvCrashes
  <2>2. /\ stage' = [stage EXCEPT ![c] = "gone"] /\ sock' = [sock EXCEPT ![c] = NoPort]
        /\ UNCHANGED <<request, calls, crossed, copies, lossless, pc, function_list, arg_list,
                       lost, executed, returned>>
    BY <2>1 DEF Dies, server
  <2>3. \A d \in Client : \/ UNCHANGED <<stage[d], sock[d], executed[d]>>
                          \/ stage'[d] = "gone" /\ sock'[d] = NoPort
    BY <2>2 DEF DatagramInv, TypeOK
  <2>4. /\ stage' \in [Client -> {"idle", "waiting", "gone"}]
        /\ sock' \in [Client -> Port \cup {NoPort}]
        /\ lossless' \in BOOLEAN /\ pc' \in {"main", "serving", "exited"} /\ lost' \in Nat
    BY <2>2 DEF DatagramInv, TypeOK
  <2>5. AnswerIsOwn' /\ DOMAIN executed' = Client /\ returned' = returned
    BY <2>2 DEF DatagramInv, AnswerIsOwn, History
  <2> QED  BY <2>1, <2>2, <2>3, <2>4, <2>5, LessKeeps
<1>2. CASE Loses \/ Undeliverable \/ crashes
  <2>1. /\ net' \subseteq net /\ (pc' # "main" => pc # "main")
        /\ lossless' \in BOOLEAN /\ pc' \in {"main", "serving", "exited"} /\ lost' \in Nat
        /\ UNCHANGED <<stage, sock, request, calls, crossed, copies, function_list, arg_list,
                       executed, returned>>
    BY <1>2 DEF Loses, Undeliverable, crashes, caller, server, DatagramInv, TypeOK
  <2>2. AnswerIsOwn' /\ DOMAIN executed' = Client /\ returned' = returned
    BY <2>1 DEF DatagramInv, AnswerIsOwn, History
  <2>3. /\ stage' \in [Client -> {"idle", "waiting", "gone"}]
        /\ sock' \in [Client -> Port \cup {NoPort}]
    BY <2>1 DEF DatagramInv, TypeOK
  <2> QED  BY <2>1, <2>2, <2>3, LessKeeps
<1> QED  BY <1>1, <1>2

\* The server is in main().
LEMMA MainKeeps ==
  ASSUME DatagramInv, register_procedure \/ launch_server
  PROVE  DatagramInv'
<1>1. /\ UNCHANGED <<stage, sock, request, calls, crossed, net, copies, lossless, arg_list, lost,
                     executed, returned>>
      /\ pc' \in {"main", "serving"}
  BY DEF register_procedure, launch_server, caller, network
<1>2. Registered'
  <2>1. CASE register_procedure
    BY <2>1, RegisteredStep DEF DatagramInv
  <2>2. CASE launch_server
    BY <2>2 DEF launch_server, DatagramInv, Registered
  <2> QED  BY <2>1, <2>2
<1>3. TypeOK'
  BY <1>1 DEF DatagramInv, TypeOK
<1>4. Datagrams' /\ Sockets' /\ Theirs' /\ Single' /\ History' /\ AnswerIsOwn'
  BY <1>1 DEF DatagramInv, Datagrams, Sockets, Theirs, Single, History, AnswerIsOwn
<1> QED  BY <1>2, <1>3, <1>4 DEF DatagramInv

\* The network duplicates a datagram: the copy says the same.
LEMMA DuplicateKeeps ==
  ASSUME DatagramInv, Duplicates
  PROVE  DatagramInv'
<1>1. PICK m \in net : net' = net \cup {[m EXCEPT !.copy = copies]}
  BY DEF Duplicates, Send
<1> DEFINE twin == [m EXCEPT !.copy = copies]
<1>2. /\ copies > 0 /\ copies' = copies - 1
      /\ UNCHANGED <<stage, sock, request, calls, crossed, lossless, pc, function_list, arg_list,
                     lost, executed, returned>>
  BY DEF Duplicates, caller, server
<1>3. /\ DOMAIN twin = {"to", "port", "tag", "copy", "body"}
      /\ twin.to = m.to /\ twin.port = m.port /\ twin.tag = m.tag /\ twin.body = m.body
      /\ twin.copy = copies
  BY DEF DatagramInv, Datagrams
<1>4. net' = net \cup {twin}
  BY <1>1
<1> HIDE DEF twin
<1>5. copies \in 0 .. MaxCopies /\ copies' \in 0 .. MaxCopies /\ copies' # MaxCopies
  BY <1>2, DatagramAssumption DEF DatagramInv, TypeOK
<1>6. TypeOK'
  BY <1>2, <1>3, <1>4, <1>5 DEF DatagramInv, TypeOK
<1>7. Registered' /\ Sockets' /\ History' /\ AnswerIsOwn'
  BY <1>2 DEF DatagramInv, Registered, Sockets, History, AnswerIsOwn
<1>8. Datagrams' /\ Theirs'
  BY <1>2, <1>3, <1>4 DEF DatagramInv, Datagrams, Theirs
<1>9. Single'
  BY <1>5 DEF Single
<1> QED  BY <1>6, <1>7, <1>8, <1>9 DEF DatagramInv

\* The server answers one request: the result is that of the last registration.
LEMMA Served ==
  ASSUME DatagramInv, serves
  PROVE  \E m \in net :
           /\ m.to = "server" /\ m.body \in Wanted
           /\ net' = (net \ {m}) \cup {Answer(m, Body(m.body))}
           /\ executed' = IF stage[m.tag[1]] = "waiting" /\ calls[m.tag[1]] = m.tag[2]
                            THEN [executed EXCEPT ![m.tag[1]] = Append(@, Value(m.body))]
                            ELSE executed
           /\ lost' \in Nat /\ arg_list' = <<>>
<1> DEFINE Result(m) == Apply(Found(m.body.name).proc, Len(m.body.args), Appended(m.body.args))
<1>1. PICK m \in net :
        /\ m.to = "server"
        /\ \/ /\ find(m.body.name) # {}
              /\ Reply(m, Carrying(Result(m))) /\ Record(m, Result(m))
           \/ /\ find(m.body.name) = {}
              /\ Reply(m, Empty) /\ Record(m, Nothing)
        /\ lost' = lost + Unfreed(m.body.args)
        /\ arg_list' = <<>>
  BY DEF serves, FreedList
<1> DEFINE q   == m.body
           for == {i \in DOMAIN Registration : Registration[i].name = q.name}
<1>2. q \in Wanted /\ lost \in Nat /\ arg_list = <<>>
  BY <1>1 DEF DatagramInv, TypeOK
<1>3. q.args \in Seq(Seq(0 .. Base - 1 \cup {NUL}))
  BY <1>2, DatagramAssumption
<1>4. Appended(q.args) = q.args /\ Len(q.args) \in Nat
  BY <1>2, <1>3 DEF Appended
<1>5. Registered /\ pc # "main"
  BY DEF DatagramInv, serves
<1>6. /\ find(q.name) = {} <=> for = {}
      /\ find(q.name) # {} => Found(q.name) = Registration[Max(for)]
  BY <1>5, LastRegistered
<1>7. Known(q) <=> find(q.name) # {}
  BY <1>6 DEF Known
<1>8. Known(q) => Value(q) = Result(m)
  BY <1>4, <1>6, <1>7 DEF Value, Outcome
<1>9. ~ Known(q) => Value(q) = Nothing
  BY OneOutcome
<1>10. Reply(m, Body(q)) /\ Record(m, Value(q))
  BY <1>1, <1>7, <1>8, <1>9 DEF Body
<1>11. lost' \in Nat
  BY <1>1, <1>2, <1>4 DEF Unfreed
<1> QED  BY <1>1, <1>2, <1>10, <1>11 DEF Reply, Record

\* The server serves a request.
LEMMA ServesKeeps ==
  ASSUME DatagramInv, serves
  PROVE  DatagramInv'
<1>1. PICK m \in net :
        /\ m.to = "server" /\ m.body \in Wanted
        /\ net' = (net \ {m}) \cup {Answer(m, Body(m.body))}
        /\ executed' = IF stage[m.tag[1]] = "waiting" /\ calls[m.tag[1]] = m.tag[2]
                         THEN [executed EXCEPT ![m.tag[1]] = Append(@, Value(m.body))]
                         ELSE executed
        /\ lost' \in Nat /\ arg_list' = <<>>
  BY Served
<1> DEFINE answer == Answer(m, Body(m.body))
           who    == m.tag[1]
<1>2. UNCHANGED <<stage, sock, request, calls, crossed, copies, lossless, pc, function_list, returned>>
  BY DEF serves, caller
<1>3. /\ DOMAIN answer = {"to", "port", "tag", "copy", "body"}
      /\ answer.to = "client" /\ answer.port = m.port /\ answer.tag = m.tag
      /\ answer.copy = m.copy /\ answer.body = Body(m.body)
  BY DEF DatagramInv, Datagrams, Answer
<1>4. net' = (net \ {m}) \cup {answer}
  BY <1>1
<1> HIDE DEF answer
<1>5. m.tag \in Client \X (1 .. MaxCalls) /\ who \in Client /\ m.tag = <<who, m.tag[2]>>
  BY DEF DatagramInv, TypeOK
<1>6. History /\ Theirs
  BY DEF DatagramInv
<1>7. DOMAIN executed' = Client
  BY <1>1, <1>6 DEF History
<1>8. \A d \in Client : executed'[d] = IF /\ d = who /\ stage[who] = "waiting"
                                          /\ calls[who] = m.tag[2]
                                         THEN Append(executed[d], Value(m.body)) ELSE executed[d]
  BY <1>1, <1>6 DEF History
<1>9. TypeOK'
  <2>1. ASSUME NEW n \in net'
        PROVE  /\ n.to \in {"client", "server"} /\ n.port \in Port
               /\ n.tag \in Client \X (1 .. MaxCalls) /\ n.copy \in 0 .. MaxCopies
               /\ n.to = "server" => n.body \in Wanted
    <3>1. CASE n \in net
      BY <3>1 DEF DatagramInv, TypeOK
    <3>2. CASE n = answer
      <4>1. m.port \in Port /\ m.copy \in 0 .. MaxCopies
        BY DEF DatagramInv, TypeOK
      <4> QED  BY <1>3, <1>5, <3>2, <4>1
    <3> QED  BY <1>4, <2>1, <3>1, <3>2
  <2> QED  BY <1>1, <1>2, <2>1 DEF DatagramInv, TypeOK
<1>10. Registered' /\ Sockets' /\ AnswerIsOwn'
  BY <1>2 DEF DatagramInv, Registered, Sockets, AnswerIsOwn
<1>11. Datagrams'
  BY <1>2, <1>3, <1>4 DEF DatagramInv, Datagrams
<1>12. Theirs'
  BY <1>1, <1>2, <1>3, <1>4 DEF DatagramInv, Theirs
<1>13. Single'
  <2>1. SUFFICES ASSUME copies = MaxCopies
        PROVE /\ \A k, n \in net' : k.tag = n.tag => k = n
              /\ \A n \in net', d \in Client : stage[d] = "waiting" /\ n.tag = <<d, calls[d]>> =>
                   executed'[d] = IF n.to = "server" THEN <<>> ELSE <<Value(request[d])>>
    BY <1>2 DEF Single
  <2>2. /\ \A k, n \in net : k.tag = n.tag => k = n
        /\ \A n \in net, d \in Client : stage[d] = "waiting" /\ n.tag = <<d, calls[d]>> =>
             executed[d] = IF n.to = "server" THEN <<>> ELSE <<Value(request[d])>>
    BY <2>1 DEF DatagramInv, Single
  <2>3. \A k, n \in net' : k.tag = n.tag => k = n
    BY <1>3, <1>4, <2>2
  <2>4. ASSUME NEW n \in net', NEW d \in Client, stage[d] = "waiting", n.tag = <<d, calls[d]>>
        PROVE  executed'[d] = IF n.to = "server" THEN <<>> ELSE <<Value(request[d])>>
    <3>1. CASE n = answer
      <4>1. m.tag = <<d, calls[d]>>
        BY <1>3, <2>4, <3>1
      <4>2. m.body = request[d] /\ executed[d] = <<>>
        BY <1>1, <1>6, <2>2, <2>4, <4>1 DEF Theirs
      <4>3. who = d /\ m.tag[2] = calls[d]
        BY <4>1
      <4>4. executed'[d] = <<Value(request[d])>>
        <5>1. executed'[d] = Append(executed[d], Value(m.body))
          BY <1>8, <2>4, <4>3
        <5>2. executed'[d] = Append(<<>>, Value(request[d]))
          BY <4>2, <5>1
        <5> QED  BY <5>2
      <4> QED  BY <1>3, <3>1, <4>4
    <3>2. CASE n \in net \ {m}
      <4>1. m.tag # <<d, calls[d]>>
        BY <2>2, <2>4, <3>2
      <4>2. executed'[d] = executed[d]
        BY <1>5, <1>8, <4>1
      <4> QED  BY <2>2, <2>4, <3>2, <4>2
    <3> QED  BY <1>4, <2>4, <3>1, <3>2
  <2> QED  BY <2>3, <2>4
<1>14. History'
  BY <1>2, <1>6, <1>7, <1>8 DEF History
<1> QED  BY <1>9, <1>10, <1>11, <1>12, <1>13, <1>14 DEF DatagramInv

\* Every action keeps the invariant,
LEMMA StepKeeps ==
  ASSUME DatagramInv, [Next]_vars
  PROVE  DatagramInv'
<1>1. CASE Server
  BY <1>1, MainKeeps, ServesKeeps, LossKeeps DEF Server
<1>2. CASE Network
  BY <1>2, LossKeeps, DuplicateKeeps DEF Network
<1>3. CASE \E c \in Client : make_remote_call(c) \/ recv(c) \/ recvCrashes(c) \/ Killed(c)
  BY <1>3, CallKeeps, RecvKeeps, LossKeeps
<1>4. CASE UNCHANGED vars
  BY <1>4 DEF vars, caller, network, server, DatagramInv, TypeOK, Registered, Datagrams, Sockets,
              Theirs, Single, History, AnswerIsOwn
<1> QED  BY <1>1, <1>2, <1>3, <1>4 DEF Next

\* so it always holds.
LEMMA DatagramAlways == Spec => []DatagramInv
<1>1. DatagramInv /\ [Next]_vars => DatagramInv'
  BY StepKeeps
<1> QED  BY Initially, <1>1, PTL DEF Spec

-----------------------------------------------------------------------------
(* The theorems.                                                             *)

\* The variables have their types, and the list that append() builds is empty
\* between two requests (1/server_stub.c:157-166).
THEOREM DatagramsAreTyped == Spec => []TypeOK
<1>1. DatagramInv => TypeOK
  BY DEF DatagramInv
<1> QED  BY DatagramAlways, <1>1, PTL

\* A client gets the result of its own call, whatever is lost, duplicated,
\* overtaken, or still on its way for a client that was killed, unless some of
\* that is from or to the port that it was given.
THEOREM AnswersAreOwn == Spec => []AnswerIsOwn
<1>1. DatagramInv => AnswerIsOwn
  BY DEF DatagramInv
<1> QED  BY DatagramAlways, <1>1, PTL

-----------------------------------------------------------------------------
(* The remote call that the datagrams implement.                             *)

Calling == [c \in Client |-> IF stage[c] = "idle" THEN <<>> ELSE <<request[c]>>]

Returned == [c \in Client |-> IF returned[c] = <<>> \/ Known(returned[c][1]) THEN returned[c]
                              ELSE <<returned[c][1], Nothing>>]

\* A request is a call,
LEMMA CallStep ==
  ASSUME DatagramInv, NEW c \in Client, make_remote_call(c)
  PROVE  Call!Call(c)
<1>1. PICK q \in Wanted : request' = [request EXCEPT ![c] = q]
  BY DEF make_remote_call
<1>2. /\ stage[c] = "idle" /\ stage' = [stage EXCEPT ![c] = "waiting"]
      /\ returned' = [returned EXCEPT ![c] = <<>>] /\ executed' = executed
  BY DEF make_remote_call
<1>3. /\ stage'[c] = "waiting" /\ request'[c] = q
      /\ \A d \in Client \ {c} : stage'[d] = stage[d] /\ request'[d] = request[d]
  BY <1>1, <1>2 DEF DatagramInv, TypeOK
<1>4. Calling[c] = <<>> /\ Calling' = [Calling EXCEPT ![c] = <<q>>]
  BY <1>2, <1>3 DEF Calling
<1>5. \A d \in Client : returned'[d] = IF d = c THEN <<>> ELSE returned[d]
  BY <1>2 DEF DatagramInv, History
<1>6. Returned' = [Returned EXCEPT ![c] = <<>>]
  BY <1>5 DEF Returned
<1> QED  BY <1>2, <1>4, <1>6 DEF Call!Call, Calling, Returned

\* the answer a return,
LEMMA ReturnStep ==
  ASSUME DatagramInv, NEW c \in Client, recv(c), copies = MaxCopies, ~ Misled
  PROVE  Call!Return(c)
<1>1. PICK m, v :
        /\ m \in net /\ m.to = "client" /\ stage[c] = "waiting"
        /\ c \notin crossed => m.tag = <<c, calls[c]>>
        /\ c \notin crossed /\ Known(request[c]) => v = Value(request[c])
        /\ returned' = [returned EXCEPT ![c] = <<request[c], v>>]
  BY Received
<1>2. /\ stage' = [stage EXCEPT ![c] = "idle"] /\ request' = [request EXCEPT ![c] = NoRequest]
      /\ executed' = [executed EXCEPT ![c] = <<>>]
  BY DEF recv
<1>3. executed[c] = <<Value(request[c])>> /\ c \notin crossed
  <2>1. returned'[c] = <<request[c], v>> /\ <<request[c], v>> # <<>>
    BY <1>1 DEF DatagramInv, History
  <2>2. c \notin crossed \/ returned[c] = <<request[c], v>>
    BY <2>1 DEF Misled
  <2> QED  BY <1>1, <2>2 DEF DatagramInv, Single, History
<1>4. /\ stage'[c] = "idle"
      /\ \A d \in Client \ {c} : stage'[d] = stage[d] /\ request'[d] = request[d]
  BY <1>2 DEF DatagramInv, TypeOK
<1>5. Calling[c] = <<request[c]>> /\ Calling' = [Calling EXCEPT ![c] = <<>>]
  BY <1>1, <1>4 DEF Calling
<1>6. \A d \in Client : returned'[d] = IF d = c THEN <<request[c], v>> ELSE returned[d]
  BY <1>1 DEF DatagramInv, History
<1>7. ~ Known(request[c]) => Value(request[c]) = Nothing
  BY OneOutcome
<1>8. Returned' = [Returned EXCEPT ![c] = <<request[c], Value(request[c])>>]
  <2>1. Returned'[c] = <<request[c], Value(request[c])>>
    BY <1>1, <1>3, <1>6, <1>7 DEF Returned
  <2>2. \A d \in Client \ {c} : Returned'[d] = Returned[d]
    BY <1>6 DEF Returned
  <2> QED  BY <2>1, <2>2 DEF Returned
<1>9. Calling[c] # <<>> /\ executed[c] # <<>> /\ Calling[c][1] = request[c]
      /\ executed[c][1] = Value(request[c])
  BY <1>3, <1>5
<1> QED  BY <1>2, <1>5, <1>8, <1>9 DEF Call!Return, Calling, Returned

\* The procedure runs for a call that waits, or for one that nobody waits for.
LEMMA ExecuteStep ==
  ASSUME DatagramInv, serves, copies = MaxCopies
  PROVE  (\E c \in Client : Call!Execute(c)) \/ UNCHANGED Call!vars
<1>1. PICK m \in net :
        /\ m.to = "server"
        /\ executed' = IF stage[m.tag[1]] = "waiting" /\ calls[m.tag[1]] = m.tag[2]
                         THEN [executed EXCEPT ![m.tag[1]] = Append(@, Value(m.body))]
                         ELSE executed
  BY Served
<1> DEFINE who == m.tag[1]
<1>2. UNCHANGED <<stage, request, returned>>
  BY DEF serves, caller
<1>3. Calling' = Calling /\ Returned' = Returned
  BY <1>2 DEF Calling, Returned
<1>4. who \in Client /\ m.tag = <<who, m.tag[2]>>
  BY DEF DatagramInv, TypeOK
<1>5. CASE ~ (stage[who] = "waiting" /\ calls[who] = m.tag[2])
  BY <1>1, <1>3, <1>5 DEF Call!vars, Calling, Returned
<1>6. CASE stage[who] = "waiting" /\ calls[who] = m.tag[2]
  <2>1. m.port = sock[who] /\ m.body = request[who]
    BY <1>1, <1>4, <1>6 DEF DatagramInv, Theirs
  <2>2. executed[who] = <<>>
    BY <1>1, <1>4, <1>6, <2>1 DEF DatagramInv, Single
  <2>3. Append(executed[who], Value(m.body)) = <<Value(request[who])>>
    <3>1. Append(<<>>, Value(request[who])) = <<Value(request[who])>>
      OBVIOUS
    <3> QED  BY <2>1, <2>2, <3>1
  <2>4. executed' = [executed EXCEPT ![who] = <<Value(request[who])>>]
    BY <1>1, <1>6, <2>3
  <2>5. Calling[who] = <<request[who]>>
    BY <1>4, <1>6 DEF Calling
  <2>6. Calling[who] # <<>> /\ Calling[who][1] = request[who]
    BY <2>5
  <2>7. Value(request[who]) \in Outcome(request[who])
    BY OneOutcome
  <2>8. Call!Execute(who)
    BY <1>3, <2>2, <2>4, <2>6, <2>7 DEF Call!Execute, Calling, Returned
  <2> QED  BY <1>4, <2>8
<1> QED  BY <1>5, <1>6

\* and nothing else is either.
LEMMA NextStep ==
  ASSUME DatagramInv, [Next]_vars, copies' = MaxCopies, ~ Misled
  PROVE  Call!Next \/ UNCHANGED Call!vars
<1>1. copies = MaxCopies
  BY DatagramAssumption DEF DatagramInv, TypeOK, Next, Server, Network, make_remote_call, recv,
     recvCrashes, Killed, Dies,
     Loses, Duplicates, Undeliverable, register_procedure, launch_server, serves, crashes,
     vars, network
<1>2. CASE \E c \in Client : make_remote_call(c)
  BY <1>2, CallStep DEF Call!Next
<1>3. CASE \E c \in Client : recv(c)
  BY <1>1, <1>3, ReturnStep DEF Call!Next
<1>4. CASE serves
  BY <1>1, <1>4, ExecuteStep DEF Call!Next
<1>5. CASE \E c \in Client : Killed(c) \/ recvCrashes(c)
  <2>1. PICK c \in Client : Dies(c)
    BY <1>5 DEF Killed, recvCrashes
  <2>2. /\ stage[c] = "waiting" /\ stage' = [stage EXCEPT ![c] = "gone"]
        /\ UNCHANGED <<request, executed, returned>>
    BY <2>1 DEF Dies
  <2>3. \A d \in Client : stage'[d] = "idle" <=> stage[d] = "idle"
    BY <2>2 DEF DatagramInv, TypeOK
  <2>4. Calling' = Calling /\ Returned' = Returned
    BY <2>2, <2>3 DEF Calling, Returned
  <2> QED  BY <2>2, <2>4 DEF Call!vars, Calling, Returned
<1>6. CASE Network \/ register_procedure \/ launch_server \/ crashes \/ UNCHANGED vars
  <2>1. UNCHANGED <<stage, request, executed, returned>>
    BY <1>6 DEF Network, Loses, Duplicates, Undeliverable, register_procedure, launch_server,
       crashes, vars, caller
  <2>2. Calling' = Calling /\ Returned' = Returned
    BY <2>1 DEF Calling, Returned
  <2> QED  BY <2>1, <2>2 DEF Call!vars, Calling, Returned
<1> QED  BY <1>2, <1>3, <1>4, <1>5, <1>6 DEF Next, Server

\* As long as nothing is duplicated, the calls are those of RemoteCall: executed
\* at most once, and never returned without, to a client whose port was quiet
\* when it was given out (1/client_stub.c, 1/server_stub.c).
THEOREM CallsHappenOnce == Spec => AtMostOnce
<1>1. Init => Call!Init
  BY DEF Init, Call!Init
<1>2. DatagramInv /\ [Next]_vars => [copies' = MaxCopies /\ ~ Misled => Call!Next]_(Call!vars)
  BY NextStep
<1> QED  BY DatagramAlways, <1>1, <1>2, PTL DEF Spec, AtMostOnce

=============================================================================
