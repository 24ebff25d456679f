----------------------------- MODULE DatagramRPC -----------------------------
(* The RPC of assignment 1 (1/client_stub.c, 1/server_stub.c, 1/queue.c) and *)
(* its sample programs (1/client.c, 1/server.c): one datagram to the server, *)
(* one back, from a new socket for every call.  A datagram is a whole.       *)
EXTENDS Procedures

CONSTANTS
  Client,        \* processes that make remote calls, one after another
  Port, NoPort,  \* the addresses that the kernel gives to their sockets
  Registration,  \* what main() of the server registers, in order
  Wanted,        \* the calls made: a name and arguments
  MaxCalls,      \* bound on the calls of a client
  MaxCopies,     \* bound on the datagrams the network duplicates
  Lossy,         \* may the network lose a datagram?
  MayDie,        \* may a client be killed?
  Unset          \* what an uninitialised buffer of the client may give

ASSUME DatagramAssumption ==
  /\ NoPort \notin Port
  /\ MaxCalls \in Nat /\ MaxCopies \in Nat
  /\ Lossy \in BOOLEAN /\ MayDie \in BOOLEAN
  /\ \A q \in Wanted : /\ DOMAIN q = {"name", "args"}
                        /\ q.args \in Seq(Seq(0 .. Base - 1 \cup {NUL}))
  /\ Registration \in Seq([name : STRING, nparams : Nat, proc : {"nop", "add", "concat"}])

VARIABLES
  stage,          \* where a client is: "idle", "waiting" in recv(), "gone"
  sock,           \* the port of its socket
  request,        \* its call
  calls,          \* how many it has made
  crossed,        \* auxiliary: whose port had datagrams on their way when it was given out
  net,            \* the datagrams on their way
  copies,         \* how many the network may still duplicate
  lossless,       \* auxiliary: has it lost none so far?
  pc,             \* the server: "main", "serving" or "exited"
  function_list,  \* the registered procedures, newest first
  arg_list,       \* the list that append() builds
  lost,           \* the buffers that nothing points to any more
  executed,       \* auxiliary: the results computed for the call of a client
  returned        \* auxiliary: the call that has just returned, with its result

caller  == <<stage, sock, request, calls, crossed>>
network == <<net, copies, lossless>>
server  == <<pc, function_list, arg_list, lost>>
vars == <<caller, network, server, executed, returned>>

NoRequest == [name |-> "none", args |-> <<>>]

\* The call of a client that a datagram belongs to.  No datagram says so: the
\* programs do not read this field.
Tag(c) == <<c, calls'[c]>>

\* The original of a datagram has copy 0.
Asks(p, tag, q) == [to |-> "server", port |-> p, tag |-> tag, copy |-> 0, body |-> q]

\* The answer to m goes to where m came from.
Answer(m, v) == [m EXCEPT !.to = "client", !.body = v]

\* What an answer carries: the result, or nothing at all for a name that is not
\* registered (sendto() of strlen(t) bytes, and t starts with those of a NULL).
Carrying(v) == <<v>>
Empty       == <<>>

Send(m) == net' = net \cup {m}

-----------------------------------------------------------------------------
(* make_remote_call.                                                         *)

\* sendto() gives the socket any port that no socket has; datagrams of an earlier
\* call from that port may still be on their way.
FreePort == {p \in Port : \A d \in Client : sock[d] # p}

Crossing(p) == \E m \in net : m.port = p

make_remote_call(c) ==
  /\ pc # "main"
  /\ stage[c] = "idle" /\ calls[c] < MaxCalls
  /\ stage' = [stage EXCEPT ![c] = "waiting"]
  /\ calls' = [calls EXCEPT ![c] = @ + 1]
  /\ \E q \in Wanted, p \in FreePort :
       /\ request' = [request EXCEPT ![c] = q]
       /\ sock' = [sock EXCEPT ![c] = p]
       /\ crossed' = IF Crossing(p) THEN crossed \cup {c} ELSE crossed \ {c}
       /\ Send(Asks(p, Tag(c), q))
  /\ returned' = [returned EXCEPT ![c] = <<>>]
  /\ UNCHANGED <<copies, lossless, server, executed>>

\* What the client reads from the datagram: ret.return_size and that many bytes.
\* recv() of an empty datagram leaves the buffer as it was.
Read(m) == IF m.body = Empty THEN Unset ELSE {m.body[1]}

\* recv(), close(), return ret.  It may be the answer to an earlier call.
recv(c) ==
  /\ stage[c] = "waiting"
  /\ \E m \in net :
       /\ m.to = "client" /\ m.port = sock[c]
       /\ net' = net \ {m}
       /\ \E v \in Read(m) : returned' = [returned EXCEPT ![c] = <<request[c], v>>]
  /\ stage' = [stage EXCEPT ![c] = "idle"]
  /\ sock' = [sock EXCEPT ![c] = NoPort]
  /\ request' = [request EXCEPT ![c] = NoRequest]
  /\ executed' = [executed EXCEPT ![c] = <<>>]
  /\ UNCHANGED <<calls, crossed, copies, lossless, server>>

Dies(c) ==
  /\ stage[c] = "waiting"
  /\ stage' = [stage EXCEPT ![c] = "gone"]
  /\ sock' = [sock EXCEPT ![c] = NoPort]
  /\ UNCHANGED <<request, calls, crossed, copies, lossless, server, executed, returned>>

\* An empty datagram leaves any return_size: malloc() may give NULL for it, and
\* memcpy() read beyond the buffer.
recvCrashes(c) ==
  /\ \E m \in net : /\ m.to = "client" /\ m.port = sock[c] /\ m.body = Empty
                    /\ net' = net \ {m}
  /\ Dies(c)

Killed(c) == MayDie /\ Dies(c) /\ UNCHANGED net

-----------------------------------------------------------------------------
(* The network.                                                              *)

Loses ==
  /\ Lossy
  /\ \E m \in net : net' = net \ {m}
  /\ lossless' = FALSE
  /\ UNCHANGED <<caller, copies, server, executed, returned>>

Duplicates ==
  /\ copies > 0
  /\ \E m \in net : Send([m EXCEPT !.copy = copies])
  /\ copies' = copies - 1
  /\ UNCHANGED <<caller, lossless, server, executed, returned>>

\* An answer for a port without a socket.
Undeliverable ==
  /\ \E m \in net : /\ m.to = "client" /\ \A c \in Client : sock[c] # m.port
                    /\ net' = net \ {m}
  /\ UNCHANGED <<caller, copies, lossless, server, executed, returned>>

-----------------------------------------------------------------------------
(* The server.                                                               *)

\* Mutant: the new procedure at the end of the list.
push_back(f) == Append(function_list, f)

push_front(f) == <<f>> \o function_list

register_procedure ==
  /\ pc = "main" /\ Len(function_list) < Len(Registration)
  /\ function_list' = push_front(Registration[Len(function_list) + 1])
  /\ UNCHANGED <<caller, network, pc, arg_list, lost, executed, returned>>

launch_server ==
  /\ pc = "main" /\ Len(function_list) = Len(Registration)
  /\ pc' = "serving"
  /\ UNCHANGED <<caller, network, function_list, arg_list, lost, executed, returned>>

\* Of the name only.
find(name) == {i \in DOMAIN function_list : function_list[i].name = name}

\* The first of the list.
Found(name) == function_list[Min(find(name))]

Apply(proc, n, a) ==
  CASE proc = "nop"    -> nop(n, a)
    [] proc = "add"    -> add(n, a)
    [] proc = "concat" -> concat(n, a)

\* append(), for every parameter of the request.
Appended(a) == arg_list \o a

\* Mutant: arg_list = current = NULL is missing.
KeptList(a) == a

\* free() of the nodes and arg_list = current = NULL.
FreedList(a) == <<>>

\* The buffer of a parameter and its copy in the node.
Unfreed(a) == 2 * Len(a)

\* strcat() beyond the end of a buffer.
Undefined(q) ==
  /\ find(q.name) # {} /\ Found(q.name).proc = "concat"
  /\ Len(q.args) = 2 /\ Overruns(q.args)

\* The result belongs to the call that its client is still in.
Record(m, v) ==
  LET c == m.tag[1]
  IN executed' = IF stage[c] = "waiting" /\ calls[c] = m.tag[2]
                   THEN [executed EXCEPT ![c] = Append(@, v)] ELSE executed

\* Mutants: nothing is sent when there is no result; the datagram is only looked at.
SilentReply(m, v) ==
  net' = (net \ {m}) \cup {Answer(n, v) : n \in {n \in {m} : v \notin {Empty, <<Nothing>>}}}
PeekingReply(m, v) == net' = net \cup {Answer(m, v)}

Reply(m, v) == net' = (net \ {m}) \cup {Answer(m, v)}

\* One turn of the loop: recvfrom(), the procedure, sendto(), free().
serves ==
  /\ pc = "serving"
  /\ \E m \in net :
       LET q == m.body
           a == Appended(q.args)
       IN /\ m.to = "server"
          /\ \/ /\ find(q.name) # {}
                /\ LET v == Apply(Found(q.name).proc, Len(q.args), a)
                   IN Reply(m, Carrying(v)) /\ Record(m, v)
             \/ /\ find(q.name) = {}
                /\ Reply(m, Empty) /\ Record(m, Nothing)
          /\ lost' = lost + Unfreed(q.args)
          /\ arg_list' = FreedList(a)
  /\ UNCHANGED <<caller, copies, lossless, pc, function_list, returned>>

\* What an undefined step may do, other than what it should.
crashes ==
  /\ pc = "serving"
  /\ \E m \in net : m.to = "server" /\ Undefined(m.body) /\ net' = net \ {m}
  /\ pc' = "exited"
  /\ UNCHANGED <<caller, copies, lossless, function_list, arg_list, lost, executed, returned>>

-----------------------------------------------------------------------------
Init ==
  /\ stage = [c \in Client |-> "idle"]
  /\ sock = [c \in Client |-> NoPort]
  /\ request = [c \in Client |-> NoRequest]
  /\ calls = [c \in Client |-> 0]
  /\ crossed = {}
  /\ net = {} /\ copies = MaxCopies /\ lossless = TRUE
  /\ pc = "main" /\ function_list = <<>> /\ arg_list = <<>> /\ lost = 0
  /\ executed = [c \in Client |-> <<>>] /\ returned = [c \in Client |-> <<>>]

Network == Loses \/ Duplicates \/ Undeliverable

Server == register_procedure \/ launch_server \/ serves \/ crashes

Next ==
  \/ Server \/ Network
  \/ \E c \in Client : make_remote_call(c) \/ recv(c) \/ recvCrashes(c) \/ Killed(c)

Spec == Init /\ [][Next]_vars

\* The scheduler runs every process; what is not lost arrives.
Fairness == WF_vars(Server) /\ \A c \in Client : WF_vars(recv(c))

FairSpec == Spec /\ Fairness

-----------------------------------------------------------------------------
\* The result of a request, from the registrations alone: the procedure that was
\* registered last under this name.
Outcome(q) ==
  LET for == {i \in DOMAIN Registration : Registration[i].name = q.name}
  IN {IF for = {} THEN Nothing
      ELSE Apply(Registration[Max(for)].proc, Len(q.args), q.args)}

Known(q) == \E i \in DOMAIN Registration : Registration[i].name = q.name

\* A RemoteCall, where a call of an unknown name returns anything.
Call == INSTANCE RemoteCall WITH
  Request <- Wanted,
  calling <- [c \in Client |-> IF stage[c] = "idle" THEN <<>> ELSE <<request[c]>>],
  returned <- [c \in Client |-> IF returned[c] = <<>> \/ Known(returned[c][1]) THEN returned[c]
                                ELSE <<returned[c][1], Nothing>>]

\* The step gives a call what may have come for an earlier one from its port.
Misled == \E c \in crossed : returned'[c] \notin {returned[c], <<>>}

\* While no datagram is duplicated, a call is executed at most once while it
\* lasts, and if it returns it was, and returns that result, whatever is lost,
\* overtaken or left behind by clients that were killed, except to a call whose
\* port was not quiet when it was given out (client_stub.c:57-90).
AtMostOnce == Call!Init /\ [][copies' = MaxCopies /\ ~ Misled => Call!Next]_(Call!vars)

-----------------------------------------------------------------------------
TypeOK ==
  /\ stage \in [Client -> {"idle", "waiting", "gone"}]
  /\ sock \in [Client -> Port \cup {NoPort}]
  /\ request \in [Client -> Wanted \cup {NoRequest}]
  /\ calls \in [Client -> 0 .. MaxCalls]
  /\ crossed \subseteq Client
  /\ \A m \in net :
       /\ m.to \in {"client", "server"} /\ m.port \in Port
       /\ m.tag \in Client \X (1 .. MaxCalls) /\ m.copy \in 0 .. MaxCopies
       /\ m.to = "server" => m.body \in Wanted
  /\ copies \in 0 .. MaxCopies /\ lossless \in BOOLEAN
  /\ pc \in {"main", "serving", "exited"}
  /\ arg_list = <<>> /\ lost \in Nat

\* The result of a call is that of its own procedure and arguments, and not the
\* answer to another call, unless datagrams of an earlier call were on their way
\* from or to its port: the port is all that tells them apart (client_stub.c:77).
AnswerIsOwn ==
  \A c \in Client \ crossed : returned[c] # <<>> =>
    LET q == returned[c][1] IN Known(q) => returned[c][2] \in Outcome(q)

\* Every call returns, that of an unknown name too, if nothing is lost and the
\* server lives: there is an answer to every request.
CallsReturn ==
  \A c \in Client : stage[c] = "waiting" ~> stage[c] # "waiting" \/ ~ lossless \/ pc = "exited"

=============================================================================
