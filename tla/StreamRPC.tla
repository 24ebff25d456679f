------------------------------ MODULE StreamRPC ------------------------------
(* The simplified RPC (4/simplified_rpc: client_stub.c, server_stub.c and    *)
(* recvbytes, sendbytes of helper.c) at the grain of bytes.  A connection is *)
(* a stream each way; a send() moves some of the bytes that are left, a      *)
(* recv() some of those that have arrived.  The server is single-threaded.   *)
EXTENDS Procedures

CONSTANTS
  Client,        \* processes that make remote calls, one after another
  NoClient,
  Registration,  \* what main() of the server registers, in order
  Wanted,        \* the calls made: a name and arguments
  Room,          \* bound on the bytes in flight in one direction
  MayDie         \* may a client be killed?

ASSUME StreamAssumption ==
  /\ NoClient \notin Client
  /\ Room \in Nat \ {0} /\ MayDie \in BOOLEAN
  /\ \A q \in Wanted : DOMAIN q = {"name", "args"}

VARIABLES
  \* the clients
  stage,      \* where a client is in make_remote_call
  request,    \* its call
  unsent,     \* what it still has to send of it
  rsize,      \* r.return_size, or -1 before it is there
  rgot,       \* the bytes of r.return_size, then of *r.return_val
  \* the connections
  up, down,   \* the bytes in flight to the server and from it
  backlog,    \* connections to be accepted, oldest first
  serving,    \* the client whose connection is accepted
  \* the server
  pc,         \* where it is
  fnp,        \* the registered procedures, newest first
  want,       \* the field that recvCall reads,
  need,       \* its length,
  got,        \* and what it has of it
  fname, nparams, args,
  ret,        \* the result of the procedure
  unsentback, \* what it still has to send of the answer
  heap,       \* what launch_server() has allocated for the call
  \* auxiliary: what happened to the call of each client
  executed, returned

parse   == <<want, need, got, fname, nparams, args>>
caller  == <<stage, request, unsent, rsize, rgot>>
history == <<executed, returned>>
vars == <<caller, up, down, backlog, serving, pc, fnp, parse, ret,
          unsentback, heap, history>>

NoRequest == [name |-> "none", args |-> <<>>]

\* Linux queues one connection for listen(s, 0).
BacklogSize == 1

running == pc \notin {"main", "exited"}

First(n, s) == SubSeq(s, 1, n)
After(n, s) == SubSeq(s, n + 1, Len(s))

\* What one send() may move from s into a stream.
Sendable(s, stream) == 1 .. Min({Len(s), Room - Len(stream)})

-----------------------------------------------------------------------------
(* The procedures by name.                                                   *)

Apply(proc, n, a) ==
  CASE proc = "nothing"   -> {Nothing}
    [] proc = "add"       -> {add(n, a)}
    [] proc = "pickFirst" -> {pickFirst(n, a)}
    [] proc = "max"       -> max(n, a)
    [] proc = "concatStr" -> {concatStr(n, a)}

\* A request as it is sent; the name is one character.
Argument(a) == Encode(Len(a)) \o a

Marshal(q) ==
  Encode(Len(String(<<q.name>>))) \o String(<<q.name>>) \o Encode(Len(q.args))
    \o FlattenSeq([i \in DOMAIN q.args |-> Argument(q.args[i])])

-----------------------------------------------------------------------------
(* make_remote_call.                                                         *)

Stage(c, from, to) ==
  /\ stage[c] = from
  /\ stage' = [stage EXCEPT ![c] = to]

\* The application has been told the port that launch_server() printed.
make_remote_call(c) ==
  /\ pc # "main"
  /\ Stage(c, "idle", "connecting")
  /\ \E q \in Wanted : request' = [request EXCEPT ![c] = q]
  /\ returned' = [returned EXCEPT ![c] = <<>>]
  /\ UNCHANGED <<unsent, rsize, rgot, up, down, backlog, serving, pc, fnp,
                 parse, ret, unsentback, heap, executed>>

connect(c) ==
  /\ running /\ Len(backlog) < BacklogSize
  /\ Stage(c, "connecting", "sending")
  /\ backlog' = Append(backlog, c)
  /\ unsent' = [unsent EXCEPT ![c] = Marshal(request[c])]
  /\ up' = [up EXCEPT ![c] = <<>>] /\ down' = [down EXCEPT ![c] = <<>>]
  /\ UNCHANGED <<request, rsize, rgot, serving, pc, fnp, parse,
                 ret, unsentback, heap, history>>

\* Some turn of the loop of sendbytes, for whichever part of the request.
sendbytes(c) ==
  /\ stage[c] = "sending" /\ running
  /\ \E n \in Sendable(unsent[c], up[c]) :
       /\ up' = [up EXCEPT ![c] = @ \o First(n, unsent[c])]
       /\ unsent' = [unsent EXCEPT ![c] = After(n, @)]
  /\ UNCHANGED <<stage, request, rsize, rgot, down, backlog, serving, pc,
                 fnp, parse, ret, unsentback, heap, history>>

sent(c) ==
  /\ Stage(c, "sending", "receiving")
  /\ unsent[c] = <<>>
  /\ rsize' = [rsize EXCEPT ![c] = -1]
  /\ rgot' = [rgot EXCEPT ![c] = <<>>]
  /\ UNCHANGED <<request, unsent, up, down, backlog, serving, pc, fnp, parse,
                 ret, unsentback, heap, history>>

\* What recvbytes waits for.
Outstanding(c) == IF rsize[c] = -1 THEN IntSize - Len(rgot[c]) ELSE rsize[c] - Len(rgot[c])

recvbytes(c) ==
  /\ stage[c] = "receiving"
  /\ \E n \in 1 .. Min({Outstanding(c), Len(down[c])}) :
       /\ rgot' = [rgot EXCEPT ![c] = @ \o First(n, down[c])]
       /\ down' = [down EXCEPT ![c] = After(n, @)]
  /\ UNCHANGED <<stage, request, unsent, rsize, up, backlog, serving, pc, fnp,
                 parse, ret, unsentback, heap, history>>

gotReturnSize(c) ==
  /\ stage[c] = "receiving" /\ rsize[c] = -1 /\ Outstanding(c) = 0
  /\ rsize' = [rsize EXCEPT ![c] = Decode(rgot[c])]
  /\ rgot' = [rgot EXCEPT ![c] = <<>>]
  /\ UNCHANGED <<stage, request, unsent, up, down, backlog, serving, pc, fnp,
                 parse, ret, unsentback, heap, history>>

\* shutdown(), close() and return(r).
returns(c) ==
  /\ rsize[c] # -1 /\ Outstanding(c) = 0
  /\ Stage(c, "receiving", "idle")
  /\ returned' = [returned EXCEPT ![c] = <<request[c], rgot[c]>>]
  /\ executed' = [executed EXCEPT ![c] = <<>>]
  /\ rsize' = [rsize EXCEPT ![c] = -1]
  /\ rgot' = [rgot EXCEPT ![c] = <<>>]
  /\ request' = [request EXCEPT ![c] = NoRequest]
  /\ UNCHANGED <<unsent, up, down, backlog, serving, pc, fnp, parse, ret,
                 unsentback, heap>>

\* exit(1), or a signal: what is in flight to the server stays.
Leaves(c) ==
  /\ stage' = [stage EXCEPT ![c] = "gone"]
  /\ down' = [down EXCEPT ![c] = <<>>]
  /\ UNCHANGED <<request, unsent, rsize, rgot, up, backlog, serving, pc, fnp,
                 parse, ret, unsentback, heap, history>>

\* The server has exited, and connect(), send() or recv() says so.
ConnectionLost(c) ==
  pc = "exited" /\ stage[c] \in {"connecting", "sending", "receiving"} /\ Leaves(c)

Killed(c) == MayDie /\ stage[c] \notin {"idle", "gone"} /\ Leaves(c)

-----------------------------------------------------------------------------
(* main() of the server and launch_server().                                 *)

\* Mutant: the new procedure at the end of the list.
push_back(f) == Append(fnp, f)

pushed(f) == <<f>> \o fnp

register_procedure ==
  /\ pc = "main" /\ Len(fnp) < Len(Registration)
  /\ fnp' = pushed(Registration[Len(fnp) + 1])
  /\ UNCHANGED <<caller, up, down, backlog, serving, pc, parse, ret,
                 unsentback, heap, history>>

\* listen() has been called: from here on clients can connect.
launch_server ==
  /\ pc = "main" /\ Len(fnp) = Len(Registration)
  /\ pc' = "accept"
  /\ UNCHANGED <<caller, up, down, backlog, serving, fnp, parse, ret, unsentback,
                 heap, history>>

accept ==
  /\ pc = "accept" /\ backlog # <<>>
  /\ serving' = Head(backlog)
  /\ backlog' = Tail(backlog)
  /\ pc' = "recvCall"
  /\ UNCHANGED <<caller, up, down, fnp, parse, ret, unsentback, heap, history>>

exits ==
  /\ pc' = "exited"
  /\ UNCHANGED <<caller, up, down, backlog, serving, fnp, parse, ret, unsentback,
                 heap, history>>

Receiving(field) == pc = "recvCall" /\ want = field

\* Mutant: every turn of the loop of recvbytes asks for the whole field.
recvWhole ==
  /\ pc = "recvCall"
  /\ \E n \in 1 .. Min({need, Len(up[serving])}) :
       /\ got' = got \o First(n, up[serving])
       /\ up' = [up EXCEPT ![serving] = After(n, @)]
  /\ UNCHANGED <<caller, down, backlog, serving, pc, fnp, want, need, fname,
                 nparams, args, ret, unsentback, heap, history>>

\* A turn of the loop of recvbytes.
recvSome ==
  /\ pc = "recvCall"
  /\ \E n \in 1 .. Min({need - Len(got), Len(up[serving])}) :
       /\ got' = got \o First(n, up[serving])
       /\ up' = [up EXCEPT ![serving] = After(n, @)]
  /\ UNCHANGED <<caller, down, backlog, serving, pc, fnp, want, need, fname,
                 nparams, args, ret, unsentback, heap, history>>

\* Mutant: a client that has not sent yet is taken for one that is gone.
recvFailsEarly ==
  /\ pc = "recvCall" /\ Len(got) < need
  /\ up[serving] = <<>>
  /\ exits

\* recv() returns 0.
recvFails ==
  /\ pc = "recvCall" /\ Len(got) < need
  /\ stage[serving] = "gone" /\ up[serving] = <<>>
  /\ exits

\* A field is complete: what recvCall does with it, and what it reads next.
Expect(field, len) == want' = field /\ need' = len /\ got' = <<>>

Received(field) == Receiving(field) /\ Len(got) = need

gotNameLength ==
  /\ Received("fnamelen")
  /\ Expect("fname", Decode(got))
  /\ heap' = heap \cup {<<"fname", 0>>}
  /\ UNCHANGED <<caller, up, down, backlog, serving, pc, fnp, fname, nparams,
                 args, ret, unsentback, history>>

gotName ==
  /\ Received("fname")
  /\ fname' = Content(got)
  /\ Expect("nparams", IntSize)
  /\ UNCHANGED <<caller, up, down, backlog, serving, pc, fnp, nparams, args,
                 ret, unsentback, heap, history>>

\* Mutant: the loop ends one argument early.
nextButOne(i, n) ==
  \/ /\ i < n - 1
     /\ Expect("arg_size", IntSize)
     /\ heap' = heap \cup {<<"arg", i + 1>>}
     /\ pc' = pc
  \/ /\ i >= n - 1
     /\ pc' = "makeCall"
     /\ UNCHANGED <<want, need, got, heap>>

\* The loop over the arguments: i of them are there.
nextArgument(i, n) ==
  \/ /\ i < n
     /\ Expect("arg_size", IntSize)
     /\ heap' = heap \cup {<<"arg", i + 1>>}
     /\ pc' = pc
  \/ /\ i = n
     /\ pc' = "makeCall"
     /\ UNCHANGED <<want, need, got, heap>>

gotCount ==
  /\ Received("nparams")
  /\ nparams' = Decode(got)
  /\ nextArgument(0, Decode(got))
  /\ UNCHANGED <<caller, up, down, backlog, serving, fnp, fname, args, ret,
                 unsentback, history>>

gotSize ==
  /\ Received("arg_size") /\ Decode(got) > 0
  /\ Expect("arg_val", Decode(got))
  /\ heap' = heap \cup {<<"arg_val", Len(args) + 1>>}
  /\ UNCHANGED <<caller, up, down, backlog, serving, pc, fnp, fname, nparams,
                 args, ret, unsentback, history>>

\* "newarg[%d]->arg_size = %d"
emptyArgument == Received("arg_size") /\ Decode(got) <= 0 /\ exits

gotValue ==
  /\ Received("arg_val")
  /\ args' = Append(args, got)
  /\ nextArgument(Len(args) + 1, nparams)
  /\ UNCHANGED <<caller, up, down, backlog, serving, fnp, fname, nparams, ret,
                 unsentback, history>>

Matches(f) == fname = <<f.name>> /\ nparams = f.nparams

\* What the first procedure in the list that matches returns.
Results ==
  LET found == {i \in DOMAIN fnp : Matches(fnp[i])}
  IN IF found = {} THEN {Nothing} ELSE Apply(fnp[Min(found)].proc, nparams, args)

\* The buffer of a result.
Held(v) == IF Len(v) = 0 THEN {} ELSE {<<"ret", 0>>}

makeCall ==
  /\ pc = "makeCall"
  /\ ret' \in Results
  /\ heap' = heap \cup Held(ret')
  /\ unsentback' = Encode(Len(ret')) \o ret'
  /\ executed' = [executed EXCEPT ![serving] = Append(@, ret')]
  /\ pc' = "returnResult"
  /\ UNCHANGED <<caller, up, down, backlog, serving, fnp, parse, returned>>

\* Mutant: one send() is taken to have sent all.
returnResultOnce ==
  /\ pc = "returnResult"
  /\ \E n \in Sendable(unsentback, down[serving]) :
       /\ unsentback' = <<>>
       /\ down' = [down EXCEPT ![serving] = @ \o First(n, unsentback)]
  /\ UNCHANGED <<caller, up, backlog, serving, pc, fnp, parse, ret, heap, history>>

\* sendbytes: to a client that is gone the bytes are lost.
returnResult ==
  /\ pc = "returnResult"
  /\ \E n \in Sendable(unsentback, down[serving]) :
       /\ unsentback' = After(n, unsentback)
       /\ down' = [down EXCEPT ![serving] =
                     IF stage[serving] = "gone" THEN @ ELSE @ \o First(n, unsentback)]
  /\ UNCHANGED <<caller, up, backlog, serving, pc, fnp, parse, ret, heap, history>>

\* send() reports that the peer is gone.
returnResultFails ==
  /\ pc = "returnResult" /\ unsentback # <<>>
  /\ stage[serving] = "gone"
  /\ exits

\* Mutant: freeArgs() does not free the values.
FreedShells ==
  {<<"fname", 0>>} \cup {<<"arg", i>> : i \in DOMAIN args} \cup Held(ret)

\* free(fname), freeArgs(arg) and freeRet(ret).
Freed ==
  {<<"fname", 0>>} \cup {<<"arg", i>> : i \in DOMAIN args}
    \cup {<<"arg_val", i>> : i \in DOMAIN args}
    \cup Held(ret)

\* The locals of a turn of the loop.
FreshCall ==
  /\ want' = "fnamelen" /\ need' = IntSize /\ got' = <<>>
  /\ fname' = <<>> /\ nparams' = 0 /\ args' = <<>> /\ ret' = Nothing

\* The end of the turn: shutdown(), close().
closes ==
  /\ pc = "returnResult" /\ unsentback = <<>>
  /\ heap' = heap \ Freed
  /\ serving' = NoClient
  /\ pc' = "accept"
  /\ FreshCall
  /\ UNCHANGED <<caller, up, down, backlog, fnp, unsentback, history>>

-----------------------------------------------------------------------------
Init ==
  /\ stage = [c \in Client |-> "idle"]
  /\ request = [c \in Client |-> NoRequest]
  /\ unsent = [c \in Client |-> <<>>]
  /\ rsize = [c \in Client |-> -1]
  /\ rgot = [c \in Client |-> <<>>]
  /\ up = [c \in Client |-> <<>>] /\ down = [c \in Client |-> <<>>]
  /\ backlog = <<>> /\ serving = NoClient
  /\ pc = "main" /\ fnp = <<>>
  /\ want = "fnamelen" /\ need = IntSize /\ got = <<>>
  /\ fname = <<>> /\ nparams = 0 /\ args = <<>>
  /\ ret = <<>> /\ unsentback = <<>> /\ heap = {}
  /\ executed = [c \in Client |-> <<>>] /\ returned = [c \in Client |-> <<>>]

Calling(c) ==
  \/ make_remote_call(c) \/ connect(c) \/ sendbytes(c) \/ sent(c)
  \/ recvbytes(c) \/ gotReturnSize(c) \/ returns(c) \/ ConnectionLost(c)

recvCall ==
  \/ recvSome \/ recvFails
  \/ gotNameLength \/ gotName \/ gotCount \/ gotSize \/ emptyArgument \/ gotValue

Server ==
  \/ register_procedure \/ launch_server \/ accept \/ recvCall \/ makeCall
  \/ returnResult \/ returnResultFails \/ closes

\* No client is left.
Ended ==
  /\ \A c \in Client : stage[c] = "gone"
  /\ pc = "exited" \/ (pc = "accept" /\ backlog = <<>>)
  /\ UNCHANGED vars

Next == Server \/ (\E c \in Client : Calling(c) \/ Killed(c)) \/ Ended

Spec == Init /\ [][Next]_vars

\* The scheduler runs every process, the kernel delivers what was sent, and a
\* connection that finds the queue full is tried again until one does not.
Fairness ==
  /\ WF_vars(Server)
  /\ \A c \in Client :
       /\ SF_vars(connect(c))
       /\ WF_vars(sendbytes(c)) /\ WF_vars(sent(c)) /\ WF_vars(recvbytes(c))
       /\ WF_vars(gotReturnSize(c)) /\ WF_vars(returns(c))
       /\ WF_vars(ConnectionLost(c))

FairSpec == Spec /\ Fairness

-----------------------------------------------------------------------------
\* What a call may return, from the registrations alone: the procedure that was
\* registered last under this name for this number of arguments.
Outcome(q) ==
  LET for == {i \in DOMAIN Registration :
                Registration[i].name = q.name /\ Registration[i].nparams = Len(q.args)}
  IN IF for = {} THEN {Nothing} ELSE Apply(Registration[Max(for)].proc, Len(q.args), q.args)

\* However the bytes are cut up, and whoever dies, a call is a RemoteCall.
Call == INSTANCE RemoteCall WITH
  Request <- Wanted,
  calling <- [c \in Client |-> IF stage[c] = "idle" THEN <<>> ELSE <<request[c]>>]

ImplementsRemoteCall == Call!Spec

-----------------------------------------------------------------------------
Byte == (0 .. Base - 1) \cup {NUL} \cup {q.name : q \in Wanted}
          \cup UNION {ToSet(a) : a \in UNION {ToSet(q.args) : q \in Wanted}}

\* A name is a string, sizes and counts fit in an int.
ASSUME CallAssumption ==
  /\ Registration \in Seq(ToSet(Registration))
  /\ \A q \in Wanted :
       /\ q.name # NUL /\ Len(String(<<q.name>>)) <= INT_MAX
       /\ q.args \in Seq(Seq(Byte)) /\ Len(q.args) <= INT_MAX
       /\ \A i \in DOMAIN q.args : Len(q.args[i]) <= INT_MAX
       /\ \A v \in Outcome(q) : v \in Seq(Byte) /\ Len(v) <= INT_MAX

TypeOK ==
  /\ stage \in [Client -> {"idle", "connecting", "sending", "receiving", "gone"}]
  /\ request \in [Client -> Wanted \cup {NoRequest}]
  /\ unsent \in [Client -> Seq(Byte)]
  /\ rsize \in [Client -> Int] /\ rgot \in [Client -> Seq(Byte)]
  /\ up \in [Client -> Seq(Byte)] /\ down \in [Client -> Seq(Byte)]
  /\ \A c \in Client : Len(up[c]) <= Room /\ Len(down[c]) <= Room
  /\ backlog \in Seq(Client) /\ Len(backlog) <= BacklogSize
  /\ serving \in Client \cup {NoClient}
  /\ pc \in {"main", "accept", "recvCall", "makeCall", "returnResult", "exited"}
  /\ want \in {"fnamelen", "fname", "nparams", "arg_size", "arg_val"}
  /\ need \in Nat /\ got \in Seq(Byte) /\ Len(got) <= need
  /\ fname \in Seq(Byte) /\ nparams \in Int /\ args \in Seq(Seq(Byte))
  /\ ret \in Seq(Byte) /\ unsentback \in Seq(Byte)

\* recvCall reads a request to its end and not beyond: when the procedure is
\* called nothing of the connection is left to read.  (The kernel answers the
\* close of a socket with unread data by a reset, which can destroy the answer
\* on its way.)
RequestReadOut ==
  pc = "makeCall" => up[serving] = <<>> /\ unsent[serving] = <<>>

\* What recvCall, the procedure and makeCall allocated is what is freed at the
\* end of the turn, each block once; between calls nothing is left.
FreesWhatItAllocates ==
  /\ pc = "returnResult" => heap = Freed
  /\ pc = "accept" => heap = {}

\* "launch_server() simply runs forever" (ece454rpc_types.h:44), but for two
\* causes: a client that is gone and an argument of size 0, as fsWrite() of no
\* bytes makes it.  How slowly bytes arrive is not one.
EndsForACause ==
  pc = "exited" =>
    \E c \in Client : stage[c] = "gone" \/ \E i \in DOMAIN request[c].args : request[c].args[i] = <<>>

\* However the bytes are cut up and whoever dies, no client is left waiting: it
\* returns from its call, or exits because the server has.
CallsEnd == \A c \in Client : stage[c] # "idle" ~> stage[c] \in {"idle", "gone"}

=============================================================================
