----------------------------- MODULE FileSystem -----------------------------
(* The distributed file system: client processes that use the API            *)
(* (4/fs_client_api.c) over the simplified RPC (4/simplified_rpc), and the   *)
(* server of FileServer.  Each API call opens a connection, sends a request, *)
(* waits for the answer and closes; most repeat that while the answer is     *)
(* -EAGAIN.  The server accepts one connection at a time.                    *)
EXTENDS FileServer

CONSTANTS
  Proc,      \* the client processes
  NoProc,    \* nobody is being served
  Budget,    \* bound on the API calls of a process, after its fsMount
  Ops,       \* the API calls processes make
  MayDie,    \* may a process be killed?
  Garbage,   \* may the uninitialised val of fsOpenDir hold -EAGAIN?
  AtATime,   \* bound on the handles a process has at a time
  Follows    \* which path it may open while it has another, or the same, open

ASSUME SystemAssumption ==
  /\ NoProc \notin Proc
  /\ Budget \in Nat /\ AtATime \in Nat /\ MayDie \in BOOLEAN /\ Garbage \in BOOLEAN
  /\ Ops \subseteq {"opendir", "readdir", "closedir", "open", "close", "read",
                    "write", "remove", "unmount"}
  /\ Follows \subseteq Path \X Path

VARIABLES
  alive,     \* the processes that have not exited
  stage,     \* where a process is in its call
  call,      \* the API call a process is in
  reply,     \* the answer it has received
  myid,      \* the id fsMount gave it (0 before)
  handles,   \* what the API has returned to it and it has not closed
  budget,    \* calls it may still make
  backlog,   \* connections waiting to be accepted, oldest first
  serving    \* the process whose connection the server has accepted

server  == <<tables, ret, running, kernel>>
rpc     == <<backlog, serving>>
app     == <<myid, handles, budget>>
client  == <<stage, call, reply, app>>
allvars == <<server, rpc, client, alive>>

Null   == [kind |-> "null", val |-> 0]
Again  == [kind |-> "int", val |-> -EAGAIN]
NoCall == [op |-> "none", path |-> NoPath, num |-> 0]

\* Linux queues one connection for listen(s, 0).
BacklogSize == 1

-----------------------------------------------------------------------------
(* The application: what it may ask for, given the handles it has.           *)

Handle(type, num, path) == [type |-> type, num |-> num, path |-> path]

Start(c, op, path, num) ==
  /\ alive[c] /\ stage[c] = "idle"
  /\ stage' = [stage EXCEPT ![c] = "connecting"]
  /\ call' = [call EXCEPT ![c] = [op |-> op, path |-> path, num |-> num]]
  /\ UNCHANGED <<server, rpc, reply, myid, alive>>

Spend(c, op) ==
  /\ op \in Ops /\ myid[c] # 0 /\ budget[c] > 0
  /\ budget' = [budget EXCEPT ![c] = @ - 1]

Mounts(c) == myid[c] = 0 /\ Start(c, "mount", NoPath, 0) /\ UNCHANGED <<handles, budget>>

Unmounts(c) == Start(c, "unmount", NoPath, 0) /\ Spend(c, "unmount") /\ UNCHANGED handles

Opens(c) ==
  /\ Cardinality(handles[c]) < AtATime
  /\ \E path \in Path :
       /\ \A h \in handles[c] : <<h.path, path>> \in Follows
       /\ \/ Start(c, "opendir", path, 0) /\ Spend(c, "opendir")
          \/ \E mode \in {0, 1} : Start(c, "open", path, mode) /\ Spend(c, "open")
  /\ UNCHANGED handles

\* Any path, those it has open included.
Removes(c) ==
  /\ \E path \in Path : Start(c, "remove", path, 0) /\ Spend(c, "remove")
  /\ UNCHANGED handles

\* An fsWrite of no bytes is a call of its own: see recvCallFails.
Uses(c) ==
  /\ \E h \in handles[c] :
       \/ /\ h.type = "dir"
          /\ Start(c, "readdir", NoPath, h.num) /\ Spend(c, "readdir")
       \/ /\ h.type = "file"
          /\ \/ Start(c, "read", NoPath, h.num) /\ Spend(c, "read")
             \/ /\ \E op \in {"write", "writeNothing"} : Start(c, op, NoPath, h.num)
                /\ Spend(c, "write")
  /\ UNCHANGED handles

\* A handle that is being closed is no longer the application's; closing is
\* not charged, so that a process can always close what it has opened.
Closes(c) ==
  \E h \in handles[c] :
    /\ Start(c, IF h.type = "dir" THEN "closedir" ELSE "close", NoPath, h.num)
    /\ handles' = [handles EXCEPT ![c] = @ \ {h}]
    /\ UNCHANGED budget

-----------------------------------------------------------------------------
(* make_remote_call of client_stub.c.                                        *)

Moves(c, from, to) ==
  /\ alive[c] /\ stage[c] = from
  /\ stage' = [stage EXCEPT ![c] = to]

connect(c) ==
  /\ Moves(c, "connecting", "connected")
  /\ running /\ Len(backlog) < BacklogSize
  /\ backlog' = Append(backlog, c)
  /\ UNCHANGED <<server, serving, call, reply, app, alive>>

\* The last byte of the request is in the socket.
send(c) ==
  /\ running
  /\ Moves(c, "connected", "sent")
  /\ UNCHANGED <<server, rpc, call, reply, app, alive>>

Dies(c) ==
  /\ alive' = [alive EXCEPT ![c] = FALSE]
  /\ UNCHANGED <<server, rpc, client>>

\* connect(), recv() or send() fails because the server is gone: exit(1).
ConnectionLost(c) ==
  /\ ~ running
  /\ alive[c] /\ stage[c] \in {"connecting", "connected", "sent", "served"}
  /\ Dies(c)

Killed(c) == MayDie /\ alive[c] /\ Dies(c)

-----------------------------------------------------------------------------
(* launch_server of server_stub.c: accept, recvCall, makeCall, returnResult. *)

\* exit(1) in recvbytes or sendbytes of helper.c.
Exit ==
  /\ running' = FALSE
  /\ UNCHANGED <<tables, ret, kernel, rpc, client, alive>>

Serving(where) == running /\ serving # NoProc /\ stage[serving] = where

accept ==
  /\ running /\ serving = NoProc /\ backlog # <<>>
  /\ serving' = Head(backlog)
  /\ backlog' = Tail(backlog)
  /\ UNCHANGED <<server, client, alive>>

\* The connection ends before the request is complete, or the request has an
\* argument of size 0, as that of an fsWrite of no bytes.
recvCallFails ==
  /\ \/ Serving("connected") /\ ~ alive[serving]
     \/ Serving("sent") /\ call[serving].op = "writeNothing"
  /\ Exit

\* The handler that the request names.
Dispatch(id, k) ==
  \/ k.op = "mount"    /\ fsMount
  \/ k.op = "unmount"  /\ fsUnmount(id)
  \/ k.op = "opendir"  /\ fsOpenDir(id, k.path)
  \/ k.op = "readdir"  /\ fsReadDir(id, k.num)
  \/ k.op = "closedir" /\ fsCloseDir(id, k.num)
  \/ k.op = "open"     /\ fsOpen(id, k.num, k.path)
  \/ k.op = "close"    /\ fsClose(id, k.num)
  \/ k.op = "read"     /\ fsRead(id, k.num)
  \/ k.op = "write"    /\ fsWrite(id, k.num)
  \/ k.op = "remove"   /\ fsRemove(id, k.path)

makeCall ==
  /\ Serving("sent")
  /\ Dispatch(myid[serving], call[serving])
  /\ stage' = [stage EXCEPT ![serving] = "served"]
  /\ UNCHANGED <<rpc, call, reply, app, alive>>

returnResult ==
  /\ Serving("served")
  /\ reply' = [reply EXCEPT ![serving] = ret]
  /\ stage' = [stage EXCEPT ![serving] = "answered"]
  /\ serving' = NoProc
  /\ UNCHANGED <<server, backlog, call, app, alive>>

\* The peer is gone and send() reports it.
returnResultFails == Serving("served") /\ ~ alive[serving] /\ Exit

-----------------------------------------------------------------------------
(* The end of an API call.                                                   *)

\* The calls with a loop "while(r == -EAGAIN)" on the answer.
Repeats == {"closedir", "open", "close", "write", "remove"}

\* fsOpenDir tests val, which is_error == 1 would have set and nothing sets.
Retry(c) ==
  /\ \/ call[c].op \in Repeats /\ reply[c] = Again
     \/ call[c].op = "opendir" /\ Garbage
  /\ Moves(c, "answered", "connecting")
  /\ UNCHANGED <<server, rpc, call, reply, app, alive>>

\* Mutant: fsOpen does not test for fd < 0.
GrantedUnchecked(k, r) ==
  IF k.op \in {"open", "opendir"} /\ r.kind = "int"
    THEN {[type |-> IF k.op = "open" THEN "file" ELSE "dir", num |-> r.val, path |-> k.path]}
  ELSE {}

\* The handle the call returns; fsOpenDir returns the address of any int.
Granted(k, r) ==
  IF k.op = "open" /\ r.val >= 0
    THEN {[type |-> "file", num |-> r.val, path |-> k.path]}
  ELSE IF k.op = "opendir" /\ r.kind = "int"
    THEN {[type |-> "dir", num |-> r.val, path |-> k.path]}
  ELSE {}

Return(c) ==
  /\ ~ (call[c].op \in Repeats /\ reply[c] = Again)
  /\ Moves(c, "answered", "idle")
  /\ call' = [call EXCEPT ![c] = NoCall]
  /\ reply' = [reply EXCEPT ![c] = Null]
  /\ myid' = [myid EXCEPT ![c] = IF call[c].op = "mount" THEN reply[c].val ELSE @]
  /\ handles' = [handles EXCEPT ![c] = @ \cup Granted(call[c], reply[c])]
  /\ UNCHANGED <<server, rpc, budget, alive>>

-----------------------------------------------------------------------------
SystemInit ==
  /\ Init
  /\ alive = [c \in Proc |-> TRUE]
  /\ stage = [c \in Proc |-> "idle"]
  /\ call = [c \in Proc |-> NoCall]
  /\ reply = [c \in Proc |-> Null]
  /\ myid = [c \in Proc |-> 0]
  /\ handles = [c \in Proc |-> {}]
  /\ budget = [c \in Proc |-> Budget]
  /\ backlog = <<>> /\ serving = NoProc

Application(c) ==
  Mounts(c) \/ Unmounts(c) \/ Opens(c) \/ Removes(c) \/ Uses(c) \/ Closes(c)

Server == accept \/ recvCallFails \/ makeCall \/ returnResult \/ returnResultFails

SystemNext ==
  \/ Server
  \/ \E c \in Proc :
       \/ Application(c)
       \/ connect(c) \/ send(c) \/ Retry(c) \/ Return(c)
       \/ ConnectionLost(c) \/ Killed(c)

SystemSpec == SystemInit /\ [][SystemNext]_allvars

\* The scheduler runs the server and every process; no process keeps a handle
\* for ever; a SYN dropped for lack of room in the backlog is sent again until
\* one finds room.
Fairness ==
  /\ WF_allvars(Server)
  /\ \A c \in Proc :
       /\ SF_allvars(connect(c))
       /\ WF_allvars(send(c)) /\ WF_allvars(Retry(c)) /\ WF_allvars(Return(c))
       /\ WF_allvars(Closes(c))

FairSpec == SystemSpec /\ Fairness

-----------------------------------------------------------------------------
\* A file handle that the API returned leads to a descriptor the server has
\* opened for that process, however many calls of others were served between the
\* answer and its arrival.  It is open on the path the process asked for, until
\* the process itself removes that path or closes another handle on it.
HandleIsOpen ==
  \A c \in Proc : \A h \in handles[c] : h.type = "file" =>
    /\ h.num \in Fd
    /\ fdtab[h.num].by = myid[c] /\ fdtab[h.num].kind \in {"file", "dir"}
    /\ fdtab[h.num].path = h.path \/ fdtab[h.num].unlocked \/ clash

\* Two processes never both have a file or directory open by fsOpen, unless one
\* of them has itself removed the path or closed another handle on it.
FilesExclusive ==
  ~clash => \A c, d \in Proc : \A h \in handles[c], g \in handles[d] :
    c # d /\ h.type = "file" /\ g.type = "file" /\ h.path = g.path =>
      fdtab[h.num].unlocked \/ fdtab[g.num].unlocked

\* When no process is in a call or has a handle, the only locks left are those
\* of failed open() calls, and of the streams whose handles fsOpenDir lost when
\* what it found in val made it ask again.
QuietMeansUnlocked ==
  ~clash /\ (\A c \in Proc : stage[c] = "idle" /\ handles[c] = {}) =>
    \A i \in DOMAIN resource_list :
      \/ resource_list[i].fd = -1
      \/ Garbage /\ \E fd \in Fd : /\ Has(resource_list[i].id, fd, resource_list[i].path)
                                   /\ fdtab[fd].kind = "stream"
                                   /\ fdtab[fd].handle = resource_list[i].fd

\* "launch_server() simply runs forever" (ece454rpc_types.h:44), but for four
\* causes: a process that died, a read() that fails, an fsWrite of no bytes, and
\* the -EAGAIN of a refused fsOpenDir used as a handle.  No other call of the API
\* ends the server, whatever the others have opened, closed or removed meanwhile.
EndsForACause ==
  running \/ \E c \in Proc :
    \/ ~ alive[c]
    \/ call[c].op = "read" /\ ~ (fdtab[call[c].num].kind = "file" /\ fdtab[call[c].num].mode = 0)
    \/ call[c].op = "writeNothing"
    \/ call[c].op \in {"readdir", "closedir"} /\ call[c].num = -EAGAIN

NoFailedOpen == \A i \in DOMAIN resource_list : resource_list[i].fd # -1

\* Every API call returns, as long as no open() fails, which would leave a lock
\* that is never released: the holder of the lock that a call waits for gets its
\* fsClose through the same backlog as the repeated call.
CallsReturn ==
  []NoFailedOpen => \A c \in Proc : stage[c] # "idle" ~> stage[c] = "idle"

\* "successfully opened aliased dir" (fs_client.c:32) is printed when fsOpenDir
\* does not return NULL: then the handle is that of an open stream.
OpenDirIsOpen ==
  \A c \in Proc : \A h \in handles[c] : h.type = "dir" =>
    \E fd \in Fd : fdtab[fd].kind = "stream" /\ fdtab[fd].handle = h.num

=============================================================================
