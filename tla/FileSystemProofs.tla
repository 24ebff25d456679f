-------------------------- MODULE FileSystemProofs ---------------------------
(* What the handles of the API are worth to the processes that hold them,    *)
(* for every number of processes, paths, descriptors and calls: what a       *)
(* process closes is what the server has open for it, whatever is on its way *)
(* between them, whatever they open or remove, and whoever dies.             *)
EXTENDS FileSystem, FileServerProofs

-----------------------------------------------------------------------------
(* The handles that are a process's: those its application has, the one that *)
(* it is giving back and the one that is on its way to it.                   *)

\* The answer to a call that the server has served.
Done(c)   == stage[c] \in {"served", "answered"}
Result(c) == IF stage[c] = "served" THEN ret ELSE reply[c]

Number(fd) == <<IF fdtab[fd].kind = "stream" THEN "dir" ELSE "file", fdtab[fd].handle>>

Kept(c) == {<<h.type, h.num>> : h \in handles[c]}

Closing(c) ==
  IF call[c].op = "close" THEN {<<"file", call[c].num>>}
  ELSE IF call[c].op = "closedir" THEN {<<"dir", call[c].num>>}
  ELSE {}

Leaving(c) == IF Done(c) => Result(c) = Again THEN Closing(c) ELSE {}

Coming(c) ==
  IF ~ Done(c) THEN {}
  ELSE {<<h.type, h.num>> : h \in Granted(call[c], Result(c))}

Mine(c) == Kept(c) \cup Leaving(c) \cup Coming(c)

\* What a refused fsOpenDir returns for a handle.
NoDir == <<"dir", -EAGAIN>>

-----------------------------------------------------------------------------
Stages == {"idle", "connecting", "connected", "sent", "served", "answered"}

Calls == [op : {"none", "mount", "unmount", "opendir", "readdir", "closedir", "open", "close",
                "read", "write", "writeNothing", "remove"},
          path : Path \cup {NoPath}, num : Int]

Answers == [kind : {"null", "int", "mount", "dirent", "data"}, val : Int]

SystemTypeOK ==
  /\ alive \in [Proc -> BOOLEAN]
  /\ stage \in [Proc -> Stages]
  /\ call \in [Proc -> Calls]
  /\ reply \in [Proc -> Answers]
  /\ myid \in [Proc -> Nat]
  /\ handles \in [Proc -> SUBSET [type : {"dir", "file"}, num : Int, path : Path]]
  /\ backlog \in Seq(Proc) /\ Len(backlog) <= BacklogSize
  /\ serving \in Proc \cup {NoProc}

\* The server serves one process, which waits for it; so do those in the queue.
Sessions ==
  /\ \A c \in Proc : stage[c] = "served" => serving = c
  /\ \A c \in Proc : serving = c => stage[c] \in {"connected", "sent", "served"}
  /\ \A i \in DOMAIN backlog : stage[backlog[i]] \in {"connected", "sent"} /\ backlog[i] # serving

\* The id of a process is its own from the moment the server gives it.
Id(c) ==
  IF myid[c] # 0 THEN myid[c]
  ELSE IF call[c].op = "mount" /\ Done(c) THEN Result(c).val ELSE 0

OwnId ==
  /\ \A c \in Proc : Id(c) \in 0 .. client_id
  /\ \A c, d \in Proc : Id(c) = Id(d) /\ Id(c) # 0 => c = d

\* What a process asks for.
Asked(c) ==
  /\ stage[c] = "idle" => call[c] = NoCall
  /\ stage[c] # "idle" => call[c].op # "none"
  /\ call[c].op = "mount" <=> myid[c] = 0 /\ stage[c] # "idle"
  /\ myid[c] = 0 => handles[c] = {}
  /\ call[c].op = "open" => call[c].num \in {0, 1}
  /\ call[c].op \in {"open", "opendir", "remove"} => call[c].path \in Path
  /\ call[c].op \in {"read", "write", "writeNothing"} => <<"file", call[c].num>> \in Kept(c)
  /\ call[c].op = "readdir" => <<"dir", call[c].num>> \in Kept(c)
  /\ Closing(c) \cap Kept(c) \subseteq {NoDir}

\* An open descriptor is some process's, but for the streams that fsOpenDir loses
\* when it repeats a call that was granted.
OpenIsMine ==
  \A fd \in Fd : fdtab[fd].kind # "closed" =>
    \E c \in Proc : /\ fdtab[fd].by = myid[c]
                    /\ Number(fd) \in Mine(c) \/ (Garbage /\ fdtab[fd].kind = "stream")

\* A process's handle is that of a descriptor open for it.
MineIsOpen ==
  \A c \in Proc : \A n \in Mine(c) \ {NoDir} :
    \E fd \in Fd : fdtab[fd].kind # "closed" /\ Number(fd) = n /\ fdtab[fd].by = myid[c]

\* It is not two handles of the process, and it is open on the path that the
\* process opened or on one that has been removed.
PathKept(c) ==
  /\ Coming(c) \cap Kept(c) \subseteq {NoDir}
  /\ \A g, h \in handles[c] :
       <<g.type, g.num>> = <<h.type, h.num>> /\ <<h.type, h.num>> # NoDir => g = h
  /\ \A fd \in Fd : fdtab[fd].kind # "closed" =>
       /\ \A h \in handles[c] :
            Number(fd) = <<h.type, h.num>> => fdtab[fd].path \in {h.path, NoPath}
       /\ Number(fd) \in Coming(c) => fdtab[fd].path \in {call[c].path, NoPath}

\* Why the server ended, as long as that can be seen.
Cause(c) ==
  \/ ~ alive[c]
  \/ stage[c] = "sent" /\ call[c].op = "writeNothing"
  \/ /\ stage[c] = "served"
     /\ \/ /\ call[c].op = "read"
           /\ ~ (fdtab[call[c].num].kind = "file" /\ fdtab[call[c].num].mode = 0)
        \/ call[c].op \in {"readdir", "closedir"} /\ call[c].num = -EAGAIN

\* The inductive invariant.
SystemInv ==
  /\ CarefulInv
  /\ SystemTypeOK
  /\ Sessions
  /\ OwnId
  /\ \A c \in Proc : Asked(c) /\ PathKept(c)
  /\ OpenIsMine /\ MineIsOpen
  /\ running \/ \E c \in Proc : Cause(c)

-----------------------------------------------------------------------------
(* Steps of one process.                                                     *)

\* Nothing of process d changes, and the answer it is being served stays.
Undisturbed(d) ==
  /\ stage'[d] = stage[d] /\ call'[d] = call[d] /\ reply'[d] = reply[d]
  /\ myid'[d] = myid[d] /\ handles'[d] = handles[d]
  /\ stage[d] = "served" => ret' = ret

\* Then its claims stay what they were, and so does what it asks for.
LEMMA UndisturbedKeeps ==
  ASSUME NEW d \in Proc, Undisturbed(d)
  PROVE  /\ Mine(d)' = Mine(d) /\ Coming(d)' = Coming(d) /\ Id(d)' = Id(d)
         /\ Asked(d) => Asked(d)'
         /\ UNCHANGED fdtab /\ PathKept(d) => PathKept(d)'
<1>1. Done(d)' = Done(d) /\ (Done(d) => Result(d)' = Result(d))
  BY DEF Undisturbed, Done, Result
<1>2. Kept(d)' = Kept(d) /\ Closing(d)' = Closing(d)
  BY DEF Undisturbed, Kept, Closing
<1>3. Coming(d)' = Coming(d)
  BY <1>1 DEF Undisturbed, Coming
<1>4. Leaving(d)' = Leaving(d)
  BY <1>1, <1>2 DEF Leaving
<1>5. Id(d)' = Id(d)
  BY <1>1 DEF Undisturbed, Id
<1>6. Asked(d) => Asked(d)'
  BY <1>2 DEF Undisturbed, Asked
<1>7. UNCHANGED fdtab /\ PathKept(d) => PathKept(d)'
  BY <1>2, <1>3 DEF Undisturbed, PathKept, Number
<1> QED  BY <1>2, <1>3, <1>4, <1>5, <1>6, <1>7 DEF Mine

\* When no descriptor changes, and no claim but to streams that are lost, they
\* still fit; so they do when a process without claims gets its id.
LEMMA SameClaims ==
  ASSUME CarefulInv, OpenIsMine, MineIsOpen, UNCHANGED fdtab,
         \A c \in Proc : Mine(c)' \subseteq Mine(c),
         \A c \in Proc, fd \in Fd : Number(fd) \in Mine(c) =>
           Number(fd) \in Mine(c)' \/ (Garbage /\ fdtab[fd].kind = "stream"),
         \A c \in Proc : myid'[c] = myid[c] \/ (myid[c] = 0 /\ Mine(c) = {})
  PROVE  OpenIsMine' /\ MineIsOpen'
<1>0. \A fd \in Fd : Number(fd)' = Number(fd)
  BY DEF Number
<1>1. OpenIsMine'
  <2>1. \A fd \in Fd : fdtab[fd].kind # "closed" => fdtab[fd].by # 0
    BY DEF CarefulInv, ServerInv, EntryShape, Client
  <2>2. ASSUME NEW fd \in Fd, fdtab[fd].kind # "closed"
        PROVE  \E c \in Proc : /\ fdtab[fd].by = myid'[c]
                               /\ \/ Number(fd) \in Mine(c)'
                                  \/ Garbage /\ fdtab[fd].kind = "stream"
    <3>1. PICK c \in Proc : /\ fdtab[fd].by = myid[c]
                            /\ \/ Number(fd) \in Mine(c)
                               \/ Garbage /\ fdtab[fd].kind = "stream"
      BY <2>2 DEF OpenIsMine
    <3>2. myid'[c] = myid[c]
      BY <2>1, <2>2, <3>1
    <3> QED  BY <3>1, <3>2
  <2> QED  BY <1>0, <2>2 DEF OpenIsMine
<1>2. MineIsOpen'
  BY <1>0 DEF MineIsOpen
<1> QED  BY <1>1, <1>2

\* A step of process c, on its side of the connection.
LEMMA ProcessStep ==
  ASSUME SystemInv, NEW c \in Proc,
         UNCHANGED server, SystemTypeOK', Sessions',
         \A d \in Proc \ {c} : Undisturbed(d) /\ alive'[d] = alive[d],
         Mine(c)' \subseteq Mine(c),
         \A fd \in Fd : Number(fd) \in Mine(c) =>
           Number(fd) \in Mine(c)' \/ (Garbage /\ fdtab[fd].kind = "stream"),
         Id(c)' = Id(c), Asked(c)', PathKept(c)',
         myid'[c] = myid[c] \/ (myid[c] = 0 /\ Mine(c) = {}),
         running \/ (Cause(c) => Cause(c)')
  PROVE  SystemInv'
<1>0. UNCHANGED <<tables, ret, running, fdtab, disk>>
  BY DEF server, kernel
<1>1. CarefulInv'
  BY OwnStep DEF SystemInv, vars, server
<1>2. /\ \A d \in Proc : Id(d)' = Id(d) /\ Asked(d)' /\ PathKept(d)'
      /\ \A d \in Proc \ {c} : Mine(d)' = Mine(d)
  BY <1>0, UndisturbedKeeps DEF SystemInv
<1>3. OwnId'
  BY <1>0, <1>2 DEF SystemInv, OwnId, tables
<1>4. OpenIsMine' /\ MineIsOpen'
  <2>1. \A d \in Proc : myid'[d] = myid[d] \/ (myid[d] = 0 /\ Mine(d) = {})
    BY DEF Undisturbed
  <2>2. /\ \A d \in Proc : Mine(d)' \subseteq Mine(d)
        /\ \A d \in Proc, fd \in Fd : Number(fd) \in Mine(d) =>
             Number(fd) \in Mine(d)' \/ (Garbage /\ fdtab[fd].kind = "stream")
    BY <1>2
  <2> QED  BY <1>0, <2>1, <2>2, SameClaims DEF SystemInv
<1>5. running' \/ \E d \in Proc : Cause(d)'
  BY <1>0 DEF SystemInv, Cause, Undisturbed
<1> QED  BY <1>1, <1>2, <1>3, <1>4, <1>5 DEF SystemInv

\* The invariant holds before the first call.
LEMMA Initially == SystemInit => SystemInv
<1> SUFFICES ASSUME SystemInit PROVE SystemInv
  OBVIOUS
<1>1. CarefulInv
  BY CarefulInit DEF SystemInit
<1>2. \A fd \in Fd : fdtab[fd].kind = "closed"
  BY DEF SystemInit, Init, Closed
<1>3. SystemTypeOK
  BY SystemAssumption DEF SystemInit, SystemTypeOK, Stages, Calls, NoCall, Answers, Null, BacklogSize
<1>4. \A c \in Proc : Mine(c) = {} /\ Id(c) = 0 /\ Coming(c) = {} /\ ~ Done(c)
  BY DEF SystemInit, Mine, Kept, Leaving, Closing, Coming, Done, Id, NoCall
<1>5. Sessions
  BY SystemAssumption DEF SystemInit, Sessions
<1>6. OwnId
  BY <1>4 DEF SystemInit, Init, OwnId
<1>7. \A c \in Proc : Asked(c) /\ PathKept(c)
  BY <1>2 DEF SystemInit, Asked, NoCall, Closing, Kept, PathKept
<1>8. OpenIsMine /\ MineIsOpen
  BY <1>2, <1>4 DEF OpenIsMine, MineIsOpen
<1>9. running
  BY DEF SystemInit, Init
<1> QED  BY <1>1, <1>3, <1>5, <1>6, <1>7, <1>8, <1>9 DEF SystemInv

-----------------------------------------------------------------------------
(* The application starts a call.                                            *)

\* What Start leaves alone.
LEMMA StartLeaves ==
  ASSUME SystemTypeOK, Sessions, NEW c \in Proc, NEW op, NEW path, NEW num, Start(c, op, path, num),
         \A d \in Proc \ {c} : handles'[d] = handles[d]
  PROVE  /\ \A d \in Proc \ {c} : Undisturbed(d) /\ alive'[d] = alive[d]
         /\ UNCHANGED <<server, serving, backlog, reply, myid, alive>>
         /\ stage[c] = "idle" /\ stage'[c] = "connecting"
         /\ call'[c] = [op |-> op, path |-> path, num |-> num]
         /\ stage' = [stage EXCEPT ![c] = "connecting"]
         /\ Sessions'
         /\ ~ Done(c) /\ ~ Done(c)' /\ Coming(c)' = {}
<1>1. /\ UNCHANGED <<server, serving, backlog, reply, myid, alive>>
      /\ stage[c] = "idle" /\ stage'[c] = "connecting"
      /\ call'[c] = [op |-> op, path |-> path, num |-> num]
      /\ stage' = [stage EXCEPT ![c] = "connecting"]
      /\ \A d \in Proc \ {c} : stage'[d] = stage[d] /\ call'[d] = call[d]
  BY DEF SystemTypeOK, Start, rpc
<1>2. \A d \in Proc \ {c} : Undisturbed(d) /\ alive'[d] = alive[d]
  BY <1>1 DEF Undisturbed, server
<1>3. Sessions'
  BY <1>1 DEF Sessions, SystemTypeOK
<1>4. ~ Done(c) /\ ~ Done(c)' /\ Coming(c)' = {}
  BY <1>1 DEF Done, Coming
<1> QED  BY <1>1, <1>2, <1>3, <1>4

\* A call starts, with a claim for every claim that there was.
LEMMA StartKeeps ==
  ASSUME SystemInv, NEW c \in Proc,
         NEW k \in Calls, Start(c, k.op, k.path, k.num),
         \A d \in Proc \ {c} : handles'[d] = handles[d],
         handles' \in [Proc -> SUBSET [type : {"dir", "file"}, num : Int, path : Path]],
         handles'[c] \subseteq handles[c],
         Kept(c)' \cup Closing(c)' = Kept(c), Asked(c)'
  PROVE  SystemInv'
<1>1. /\ \A d \in Proc \ {c} : Undisturbed(d) /\ alive'[d] = alive[d]
      /\ UNCHANGED <<server, serving, backlog, reply, myid, alive>>
      /\ stage[c] = "idle" /\ stage'[c] = "connecting"
      /\ stage' = [stage EXCEPT ![c] = "connecting"]
      /\ Sessions'
      /\ ~ Done(c) /\ ~ Done(c)' /\ Coming(c)' = {}
  BY StartLeaves DEF SystemInv
<1>2. SystemTypeOK'
  <2>1. call' = [call EXCEPT ![c] = k]
    <3>1. k = [op |-> k.op, path |-> k.path, num |-> k.num]
      BY DEF Calls
    <3> QED  BY <3>1 DEF Start
  <2>2. call' \in [Proc -> Calls]
    BY <2>1 DEF SystemInv, SystemTypeOK
  <2> QED  BY <1>1, <2>2 DEF SystemInv, SystemTypeOK, Stages
<1>3. Mine(c)' = Mine(c)
  <2>1. Coming(c) = {} /\ Leaving(c)' = Closing(c)' /\ Leaving(c) = Closing(c)
    BY <1>1 DEF Coming, Leaving
  <2>2. Closing(c) = {}
    <3>1. call[c] = NoCall
      BY <1>1 DEF SystemInv, Asked
    <3> QED  BY <3>1 DEF NoCall, Closing
  <2> QED  BY <1>1, <2>1, <2>2 DEF Mine
<1>4. Id(c)' = Id(c)
  BY <1>1 DEF Id
<1>5. PathKept(c)'
  <2>1. Kept(c)' \subseteq Kept(c) /\ UNCHANGED fdtab
    BY <1>1 DEF Kept, server, kernel
  <2> QED  BY <1>1, <2>1 DEF SystemInv, PathKept, Number
<1>6. myid'[c] = myid[c]
  BY <1>1
<1>7. Cause(c) => Cause(c)'
  BY <1>1 DEF Cause
<1> QED  BY <1>1, <1>2, <1>3, <1>4, <1>5, <1>6, <1>7, ProcessStep

\* The application starts any call.
LEMMA ApplicationStep ==
  ASSUME SystemInv, NEW c \in Proc, Application(c)
  PROVE  SystemInv'
<1>0. Asked(c) /\ SystemTypeOK /\ Sessions /\ PathKept(c) /\ MineIsOpen
  BY DEF SystemInv
<1>1. ASSUME NEW k \in Calls, Start(c, k.op, k.path, k.num), UNCHANGED handles,
             k.op \notin {"none", "close", "closedir"},
             k.op = "mount" <=> myid[c] = 0,
             k.op = "open" => k.num \in {0, 1},
             k.op \in {"open", "opendir", "remove"} => k.path \in Path,
             k.op \in {"read", "write", "writeNothing"} => <<"file", k.num>> \in Kept(c),
             k.op = "readdir" => <<"dir", k.num>> \in Kept(c)
      PROVE  SystemInv'
  <2>1. /\ UNCHANGED myid /\ stage'[c] = "connecting" /\ call'[c] = k
    <3>1. k = [op |-> k.op, path |-> k.path, num |-> k.num]
      BY DEF Calls
    <3> QED  BY <1>0, <1>1, <3>1, StartLeaves
  <2>2. Kept(c)' = Kept(c) /\ Closing(c)' = {}
    BY <1>1, <2>1 DEF Kept, Closing
  <2>3. Asked(c)'
    BY <1>0, <1>1, <2>1, <2>2 DEF Asked
  <2>4. /\ handles' \in [Proc -> SUBSET [type : {"dir", "file"}, num : Int, path : Path]]
        /\ \A d \in Proc \ {c} : handles'[d] = handles[d]
        /\ handles'[c] \subseteq handles[c]
    BY <1>0, <1>1 DEF SystemTypeOK
  <2> QED  BY <1>1, <2>2, <2>3, <2>4, StartKeeps
<1>2. CASE Mounts(c)
  <2> DEFINE k == [op |-> "mount", path |-> NoPath, num |-> 0]
  <2>1. k \in Calls
    BY DEF Calls
  <2>2. Start(c, k.op, k.path, k.num) /\ UNCHANGED handles /\ myid[c] = 0
    BY <1>2 DEF Mounts
  <2> QED  BY <1>1, <2>1, <2>2
<1>3. CASE Unmounts(c)
  <2> DEFINE k == [op |-> "unmount", path |-> NoPath, num |-> 0]
  <2>1. k \in Calls
    BY DEF Calls
  <2>2. Start(c, k.op, k.path, k.num) /\ UNCHANGED handles /\ myid[c] # 0
    BY <1>3 DEF Unmounts, Spend
  <2> QED  BY <1>1, <2>1, <2>2
<1>4. CASE Opens(c)
  <2>1. PICK path \in Path, op \in {"opendir", "open"}, num \in {0, 1} :
          Start(c, op, path, num) /\ Spend(c, op)
    BY <1>4 DEF Opens
  <2> DEFINE k == [op |-> op, path |-> path, num |-> num]
  <2>2. k \in Calls
    BY DEF Calls
  <2>3. Start(c, k.op, k.path, k.num) /\ UNCHANGED handles /\ myid[c] # 0
    BY <1>4, <2>1 DEF Opens, Spend
  <2> QED  BY <1>1, <2>2, <2>3
<1>5. CASE Removes(c)
  <2>1. PICK path \in Path : Start(c, "remove", path, 0) /\ Spend(c, "remove")
    BY <1>5 DEF Removes
  <2> DEFINE k == [op |-> "remove", path |-> path, num |-> 0]
  <2>2. k \in Calls
    BY DEF Calls
  <2>3. Start(c, k.op, k.path, k.num) /\ UNCHANGED handles /\ myid[c] # 0
    BY <1>5, <2>1 DEF Removes, Spend
  <2> QED  BY <1>1, <2>2, <2>3
<1>6. CASE Uses(c)
  <2>1. PICK h \in handles[c], op \in {"readdir", "read", "write", "writeNothing"} :
          /\ h.type = IF op = "readdir" THEN "dir" ELSE "file"
          /\ Start(c, op, NoPath, h.num) /\ myid[c] # 0
    BY <1>6 DEF Uses, Spend
  <2> DEFINE k == [op |-> op, path |-> NoPath, num |-> h.num]
  <2>2. h.num \in Int /\ <<h.type, h.num>> \in Kept(c)
    BY <1>0 DEF SystemTypeOK, Kept
  <2>3. k \in Calls
    BY <2>2 DEF Calls
  <2>4. Start(c, k.op, k.path, k.num) /\ UNCHANGED handles /\ myid[c] # 0
    BY <1>6, <2>1 DEF Uses
  <2> QED  BY <1>1, <2>1, <2>2, <2>3, <2>4
<1>7. CASE Closes(c)
  <2>1. PICK h \in handles[c] :
          /\ Start(c, IF h.type = "dir" THEN "closedir" ELSE "close", NoPath, h.num)
          /\ handles' = [handles EXCEPT ![c] = @ \ {h}]
    BY <1>7 DEF Closes
  <2>0. h \in [type : {"dir", "file"}, num : Int, path : Path]
    BY <1>0 DEF SystemTypeOK
  <2> DEFINE k == [op |-> IF h.type = "dir" THEN "closedir" ELSE "close",
                   path |-> NoPath, num |-> h.num]
  <2>2. k \in Calls
    BY <2>0 DEF Calls
  <2>3. /\ UNCHANGED myid /\ stage[c] = "idle" /\ stage'[c] = "connecting" /\ call'[c] = k
        /\ Start(c, k.op, k.path, k.num)
    BY <1>0, <2>1, StartLeaves
  <2>4. /\ handles' \in [Proc -> SUBSET [type : {"dir", "file"}, num : Int, path : Path]]
        /\ \A d \in Proc \ {c} : handles'[d] = handles[d]
        /\ handles'[c] = handles[c] \ {h}
    BY <1>0, <2>1 DEF SystemTypeOK
  <2>5. Closing(c)' = {<<h.type, h.num>>}
    BY <2>0, <2>3 DEF Closing
  <2>6. Kept(c)' \cup Closing(c)' = Kept(c)
    BY <2>4, <2>5 DEF Kept
  <2>7. ASSUME NEW g \in handles[c], g # h, <<g.type, g.num>> = <<h.type, h.num>>
        PROVE  <<h.type, h.num>> = NoDir
    BY <1>0, <2>7 DEF PathKept
  <2>8. Asked(c)'
    <3>1. Closing(c)' \cap Kept(c)' \subseteq {NoDir}
      <4>0. SUFFICES ASSUME <<h.type, h.num>> \in Kept(c)' PROVE <<h.type, h.num>> = NoDir
        BY <2>5
      <4>1. PICK g \in handles'[c] : <<h.type, h.num>> = <<g.type, g.num>>
        BY <4>0 DEF Kept
      <4>2. g \in handles[c] /\ g # h
        BY <2>4
      <4> QED  BY <2>7, <4>1, <4>2
    <3>2. myid[c] # 0
      BY <1>0 DEF Asked
    <3>3. k.op \in {"close", "closedir"}
      OBVIOUS
    <3> QED  BY <2>3, <3>1, <3>2, <3>3 DEF Asked
  <2> QED  BY <2>2, <2>3, <2>4, <2>6, <2>8, StartKeeps
<1> QED  BY <1>2, <1>3, <1>4, <1>5, <1>6, <1>7 DEF Application

-----------------------------------------------------------------------------
(* The connection.                                                           *)

\* A process moves on in its call, and what the server answered stays.
LEMMA MoveKeeps ==
  ASSUME SystemInv, NEW c \in Proc, NEW to \in Stages \ {"idle"},
         stage[c] # "idle", stage' = [stage EXCEPT ![c] = to],
         UNCHANGED <<server, call, myid, handles, alive>>,
         \A d \in Proc \ {c} : reply'[d] = reply[d],
         Done(c)' = Done(c), Done(c) => Result(c)' = Result(c),
         SystemTypeOK', Sessions', running
  PROVE  SystemInv'
<1>0. \A d \in Proc : stage'[d] = IF d = c THEN to ELSE stage[d]
  BY DEF SystemInv, SystemTypeOK
<1>1. \A d \in Proc \ {c} : Undisturbed(d) /\ alive'[d] = alive[d]
  BY <1>0 DEF Undisturbed, server
<1>2. Kept(c)' = Kept(c) /\ Closing(c)' = Closing(c)
  BY DEF Kept, Closing
<1>3. Coming(c)' = Coming(c) /\ Leaving(c)' = Leaving(c)
  BY <1>2 DEF Coming, Leaving
<1>4. Mine(c)' = Mine(c)
  BY <1>2, <1>3 DEF Mine
<1>5. Id(c)' = Id(c)
  BY DEF Id
<1>6. Asked(c)'
  BY <1>0, <1>2 DEF SystemInv, Asked
<1>7. PathKept(c)'
  BY <1>2, <1>3 DEF SystemInv, PathKept, Number, server, kernel
<1> QED  BY <1>1, <1>4, <1>5, <1>6, <1>7, ProcessStep

\* A connection enters the queue of the server.
LEMMA ConnectStep ==
  ASSUME SystemInv, NEW c \in Proc, connect(c)
  PROVE  SystemInv'
<1>1. /\ running /\ stage[c] = "connecting" /\ stage' = [stage EXCEPT ![c] = "connected"]
      /\ UNCHANGED <<server, serving, call, reply, myid, handles, alive>>
      /\ backlog' = Append(backlog, c) /\ Len(backlog) < 1
  BY DEF connect, Moves, app, BacklogSize
<1>2. \A d \in Proc : stage'[d] = IF d = c THEN "connected" ELSE stage[d]
  BY <1>1 DEF SystemInv, SystemTypeOK
<1>3. backlog' \in Seq(Proc) /\ Len(backlog') = 1 /\ backlog'[1] = c
  BY <1>1 DEF SystemInv, SystemTypeOK
<1>4. SystemTypeOK'
  BY <1>1, <1>3 DEF SystemInv, SystemTypeOK, Stages, BacklogSize
<1>5. Sessions'
  BY <1>1, <1>2, <1>3 DEF SystemInv, SystemTypeOK, Sessions
<1>6. Done(c)' = Done(c) /\ ~ Done(c) /\ stage[c] # "idle"
  BY <1>1, <1>2 DEF Done
<1>7. "connected" \in Stages \ {"idle"}
  BY DEF Stages
<1>8. \A d \in Proc \ {c} : reply'[d] = reply[d]
  BY <1>1
<1> QED  BY <1>1, <1>4, <1>5, <1>6, <1>7, <1>8, MoveKeeps

\* The request is in the socket.
LEMMA SendStep ==
  ASSUME SystemInv, NEW c \in Proc, send(c)
  PROVE  SystemInv'
<1>1. /\ running /\ stage[c] = "connected" /\ stage' = [stage EXCEPT ![c] = "sent"]
      /\ UNCHANGED <<server, serving, backlog, call, reply, myid, handles, alive>>
  BY DEF send, Moves, app, rpc
<1>2. \A d \in Proc : stage'[d] = IF d = c THEN "sent" ELSE stage[d]
  BY <1>1 DEF SystemInv, SystemTypeOK
<1>4. SystemTypeOK'
  BY <1>1 DEF SystemInv, SystemTypeOK, Stages
<1>5. Sessions'
  BY <1>1, <1>2 DEF SystemInv, SystemTypeOK, Sessions
<1>6. Done(c)' = Done(c) /\ ~ Done(c) /\ stage[c] # "idle"
  BY <1>1, <1>2 DEF Done
<1>7. "sent" \in Stages \ {"idle"}
  BY DEF Stages
<1>8. \A d \in Proc \ {c} : reply'[d] = reply[d]
  BY <1>1
<1> QED  BY <1>1, <1>4, <1>5, <1>6, <1>7, <1>8, MoveKeeps

\* The answer leaves the server: it is the answer that the call has had.
LEMMA ReturnResultStep ==
  ASSUME SystemInv, returnResult
  PROVE  SystemInv'
<1>0. serving \in Proc
  BY DEF returnResult, Serving, SystemInv, SystemTypeOK
<1>1. /\ running /\ stage[serving] = "served" /\ stage' = [stage EXCEPT ![serving] = "answered"]
      /\ reply' = [reply EXCEPT ![serving] = ret] /\ serving' = NoProc
      /\ UNCHANGED <<server, backlog, call, myid, handles, alive>>
  BY DEF returnResult, Serving, app
<1>2. \A d \in Proc : /\ stage'[d] = IF d = serving THEN "answered" ELSE stage[d]
                      /\ reply'[d] = IF d = serving THEN ret ELSE reply[d]
  BY <1>1 DEF SystemInv, SystemTypeOK
<1>3. ret \in Answers
  BY DEF SystemInv, CarefulInv, ServerInv, TypeOK, Answers
<1>4. SystemTypeOK'
  BY <1>0, <1>1, <1>3 DEF SystemInv, SystemTypeOK, Stages
<1>5. Sessions'
  BY <1>1, <1>2, SystemAssumption DEF SystemInv, SystemTypeOK, Sessions
<1>6. Done(serving) /\ Result(serving) = ret
  BY <1>1 DEF Done, Result
<1>7. \A c \in Proc : c = serving => (Done(c)' /\ Result(c)' = ret)
  BY <1>0, <1>1, <1>2 DEF Done, Result
<1>8. "answered" \in Stages \ {"idle"}
  BY DEF Stages
<1>9. PICK c \in Proc : c = serving
  BY <1>0
<1>10. Done(c)' = Done(c) /\ Result(c)' = Result(c) /\ stage[c] # "idle"
  BY <1>1, <1>6, <1>7, <1>9
<1>11. stage' = [stage EXCEPT ![c] = "answered"] /\ \A d \in Proc \ {c} : reply'[d] = reply[d]
  BY <1>1, <1>2, <1>9
<1> QED  BY <1>1, <1>4, <1>5, <1>8, <1>10, <1>11, MoveKeeps

\* A refused call is made again: what was to be given back still is.  So is a
\* granted fsOpenDir, whose stream is lost.
LEMMA RetryStep ==
  ASSUME SystemInv, NEW c \in Proc, Retry(c)
  PROVE  SystemInv'
<1>0. Asked(c) /\ SystemTypeOK
  BY DEF SystemInv
<1>1. /\ stage[c] = "answered" /\ stage' = [stage EXCEPT ![c] = "connecting"]
      /\ UNCHANGED <<server, serving, backlog, call, reply, myid, handles, alive>>
  BY DEF Retry, Moves, app, rpc
<1>2. \A d \in Proc : stage'[d] = IF d = c THEN "connecting" ELSE stage[d]
  BY <1>1, <1>0 DEF SystemTypeOK
<1>3. \/ call[c].op \in Repeats /\ reply[c] = Again
      \/ call[c].op = "opendir" /\ Garbage
  BY DEF Retry
<1>4. Done(c) /\ Result(c) = reply[c] /\ ~ Done(c)'
  BY <1>1, <1>2 DEF Done, Result
<1>5. SystemTypeOK' /\ Sessions'
  <2>1. SystemTypeOK'
    BY <1>0, <1>1 DEF SystemTypeOK, Stages
  <2>2. Sessions'
    BY <1>1, <1>2 DEF SystemInv, SystemTypeOK, Sessions
  <2> QED  BY <2>1, <2>2
<1>6. \A d \in Proc \ {c} : Undisturbed(d) /\ alive'[d] = alive[d]
  BY <1>1, <1>2 DEF Undisturbed, server
<1>7. Kept(c)' = Kept(c) /\ Closing(c)' = Closing(c)
  BY <1>1 DEF Kept, Closing
<1>8. Coming(c)' = {}
  BY <1>4 DEF Coming
<1>9. /\ Mine(c)' \subseteq Mine(c)
      /\ \A fd \in Fd : Number(fd) \in Mine(c) =>
           Number(fd) \in Mine(c)' \/ (Garbage /\ fdtab[fd].kind = "stream")
  <2>1. Mine(c)' = Kept(c) \cup Closing(c)
    BY <1>4, <1>7, <1>8 DEF Mine, Leaving
  <2>2. CASE call[c].op \in Repeats /\ reply[c] = Again
    <3>1. Granted(call[c], Again) = {}
      BY <2>2 DEF Granted, Again, EAGAIN, Repeats
    <3> QED  BY <1>4, <2>1, <2>2, <3>1 DEF Mine, Leaving, Coming
  <2>3. CASE call[c].op = "opendir" /\ Garbage
    <3>1. Closing(c) = {}
      BY <2>3 DEF Closing
    <3>2. \A h \in Granted(call[c], reply[c]) : h.type = "dir"
      BY <2>3 DEF Granted
    <3>3. \A fd \in Fd : Number(fd) \in Coming(c) => fdtab[fd].kind = "stream"
      BY <1>4, <3>2 DEF Coming, Number
    <3> QED  BY <2>1, <2>3, <3>1, <3>3 DEF Mine, Leaving
  <2> QED  BY <1>3, <2>2, <2>3
<1>10. Id(c)' = Id(c)
  <2>1. call[c].op # "mount"
    BY <1>3 DEF Repeats
  <2> QED  BY <1>1, <2>1 DEF Id
<1>11. Asked(c)'
  BY <1>0, <1>1, <1>2, <1>7 DEF Asked
<1>12. PathKept(c)'
  BY <1>1, <1>7, <1>8 DEF SystemInv, PathKept, Number, server, kernel
<1>13. Cause(c) => Cause(c)'
  BY <1>1 DEF Cause
<1> QED  BY <1>1, <1>5, <1>6, <1>9, <1>10, <1>11, <1>12, <1>13, ProcessStep

\* The call returns: what was on its way becomes a handle of the application.
LEMMA ReturnStep ==
  ASSUME SystemInv, NEW c \in Proc, Return(c)
  PROVE  SystemInv'
<1>0. Asked(c) /\ SystemTypeOK
  BY DEF SystemInv
<1> DEFINE got == Granted(call[c], reply[c])
           id  == IF call[c].op = "mount" THEN reply[c].val ELSE myid[c]
<1>1. /\ stage[c] = "answered" /\ stage' = [stage EXCEPT ![c] = "idle"]
      /\ call' = [call EXCEPT ![c] = NoCall] /\ reply' = [reply EXCEPT ![c] = Null]
      /\ myid' = [myid EXCEPT ![c] = id]
      /\ handles' = [handles EXCEPT ![c] = @ \cup got]
      /\ UNCHANGED <<server, serving, backlog, alive>>
      /\ ~ (call[c].op \in Repeats /\ reply[c] = Again)
  BY DEF Return, Moves, rpc
<1>2. /\ stage'[c] = "idle" /\ call'[c] = NoCall /\ myid'[c] = id
      /\ handles'[c] = handles[c] \cup got
      /\ \A d \in Proc \ {c} : /\ stage'[d] = stage[d] /\ call'[d] = call[d]
                               /\ reply'[d] = reply[d] /\ myid'[d] = myid[d]
                               /\ handles'[d] = handles[d]
  BY <1>0, <1>1 DEF SystemTypeOK
<1>3. Done(c) /\ Result(c) = reply[c] /\ ~ Done(c)'
  BY <1>1, <1>2 DEF Done, Result
<1>4. Id(c) = id /\ id \in Nat /\ Id(c)' = id
  <2>1. Id(c) = id
    BY <1>0, <1>1, <1>3 DEF Id, Asked
  <2>2. id \in Nat
    BY <2>1 DEF SystemInv, OwnId, CarefulInv, ServerInv, TypeOK
  <2>3. Id(c)' = id
    BY <1>2, <1>3, <2>2 DEF Id, NoCall
  <2> QED  BY <2>1, <2>2, <2>3
<1>5. got \in SUBSET [type : {"dir", "file"}, num : Int, path : Path]
  <2>1. reply[c].val \in Int
    BY <1>0 DEF SystemTypeOK, Answers
  <2> QED  BY <1>0, <2>1 DEF Granted, Asked
<1>6. SystemTypeOK'
  <2>1. NoCall \in Calls /\ Null \in Answers /\ "idle" \in Stages
    BY DEF NoCall, Calls, Null, Answers, Stages
  <2>2. /\ stage' \in [Proc -> Stages] /\ call' \in [Proc -> Calls]
        /\ reply' \in [Proc -> Answers] /\ myid' \in [Proc -> Nat]
    BY <1>0, <1>1, <1>4, <2>1 DEF SystemTypeOK
  <2>3. handles' \in [Proc -> SUBSET [type : {"dir", "file"}, num : Int, path : Path]]
    BY <1>0, <1>1, <1>5 DEF SystemTypeOK
  <2> QED  BY <1>0, <1>1, <2>2, <2>3 DEF SystemTypeOK
<1>7. Sessions'
  BY <1>1, <1>2 DEF SystemInv, SystemTypeOK, Sessions
<1>8. \A d \in Proc \ {c} : Undisturbed(d) /\ alive'[d] = alive[d]
  BY <1>1, <1>2 DEF Undisturbed, server
<1>9. Coming(c) = {<<h.type, h.num>> : h \in got}
  BY <1>3 DEF Coming
<1>10. Closing(c)' = {} /\ Coming(c)' = {}
  BY <1>2, <1>3 DEF Closing, Coming, NoCall
<1>11. Leaving(c) = {} /\ Leaving(c)' = {}
  <2>1. Closing(c) # {} => call[c].op \in Repeats
    BY DEF Closing, Repeats
  <2> QED  BY <1>1, <1>3, <1>10, <2>1 DEF Leaving
<1>12. Mine(c)' = Mine(c)
  <2>1. Kept(c)' = Kept(c) \cup {<<h.type, h.num>> : h \in got}
    BY <1>2 DEF Kept
  <2> QED  BY <1>9, <1>10, <1>11, <2>1 DEF Mine
<1>13. myid[c] = 0 => call[c].op = "mount" /\ Mine(c) = {}
  <2>1. myid[c] = 0 => call[c].op = "mount" /\ handles[c] = {}
    BY <1>0, <1>1 DEF Asked
  <2>2. call[c].op = "mount" => got = {}
    BY DEF Granted
  <2> QED  BY <1>9, <1>11, <2>1, <2>2 DEF Mine, Kept
<1>14. call[c].op = "mount" => myid[c] = 0
  BY <1>0 DEF Asked
<1>15. Asked(c)'
  <2>1. myid'[c] = 0 => handles'[c] = {}
    <3>1. SUFFICES ASSUME id = 0 PROVE handles'[c] = {}
      BY <1>2
    <3>2. myid[c] = 0
      BY <3>1, <1>14
    <3>3. handles[c] = {} /\ got = {}
      BY <1>0, <1>13, <3>2 DEF Asked, Granted
    <3> QED  BY <1>2, <3>3
  <2> QED  BY <1>2, <1>10, <2>1 DEF Asked, NoCall
<1>16. PathKept(c)'
  <2>1. /\ \A h \in got : h.path = call[c].path /\ <<h.type, h.num>> \in Coming(c)
        /\ \A g, h \in got : g = h
    <3>1. /\ \A h \in got : h.path = call[c].path
          /\ \A g, h \in got : g = h
      BY DEF Granted
    <3> QED  BY <1>9, <3>1
  <2>2. UNCHANGED fdtab
    BY <1>1 DEF server, kernel
  <2>3. PathKept(c)
    BY DEF SystemInv
  <2>4. ASSUME NEW fd \in Fd, fdtab[fd].kind # "closed", NEW h \in handles'[c],
               Number(fd) = <<h.type, h.num>>
        PROVE  fdtab[fd].path \in {h.path, NoPath}
    BY <1>2, <2>1, <2>3, <2>4 DEF PathKept
  <2>5. ASSUME NEW g \in handles'[c], NEW h \in handles'[c],
               <<g.type, g.num>> = <<h.type, h.num>>, <<h.type, h.num>> # NoDir
        PROVE  g = h
    <3>1. \A k \in handles[c] : <<k.type, k.num>> \in Kept(c)
      BY DEF Kept
    <3>2. CASE g \in handles[c] /\ h \in handles[c]
      BY <2>3, <2>5, <3>2 DEF PathKept
    <3>3. CASE g \in got /\ h \in got
      BY <2>1, <3>3
    <3>4. CASE \/ g \in got /\ h \in handles[c]
               \/ h \in got /\ g \in handles[c]
      BY <2>1, <2>3, <2>5, <3>1, <3>4 DEF PathKept
    <3> QED  BY <1>2, <3>2, <3>3, <3>4
  <2> QED  BY <1>10, <2>2, <2>4, <2>5 DEF PathKept, Number
<1>17. Cause(c) => Cause(c)'
  BY <1>1 DEF Cause
<1>18. myid'[c] = myid[c] \/ (myid[c] = 0 /\ Mine(c) = {})
  BY <1>2, <1>13, <1>14
<1> QED  BY <1>1, <1>4, <1>6, <1>7, <1>8, <1>12, <1>15, <1>16, <1>17, <1>18, ProcessStep

\* Nothing of process c changes but whether it is alive.
LEMMA StillKeeps ==
  ASSUME SystemInv, NEW c \in Proc,
         UNCHANGED <<server, client>>, alive' \in [Proc -> BOOLEAN],
         \A d \in Proc \ {c} : alive'[d] = alive[d],
         alive'[c] => alive[c],
         backlog' \in Seq(Proc) /\ Len(backlog') <= BacklogSize,
         serving' \in Proc \cup {NoProc}, Sessions'
  PROVE  SystemInv'
<1>1. UNCHANGED <<ret, stage, call, reply, myid, handles, fdtab>>
  BY DEF client, app, server, kernel
<1>2. \A d \in Proc : Undisturbed(d)
  BY <1>1 DEF Undisturbed
<1>3. Mine(c)' = Mine(c) /\ Id(c)' = Id(c) /\ Asked(c)' /\ PathKept(c)'
  BY <1>1, <1>2, UndisturbedKeeps DEF SystemInv
<1>4. SystemTypeOK'
  BY <1>1 DEF SystemInv, SystemTypeOK
<1>5. Cause(c) => Cause(c)'
  BY <1>1 DEF Cause
<1> QED  BY <1>1, <1>2, <1>3, <1>4, <1>5, ProcessStep

\* A process dies: what it had stays open, and its own.
LEMMA DiesStep ==
  ASSUME SystemInv, NEW c \in Proc, Dies(c)
  PROVE  SystemInv'
<1>1. UNCHANGED <<server, backlog, serving, client, stage>> /\ alive' = [alive EXCEPT ![c] = FALSE]
  BY DEF Dies, rpc, client
<1>2. /\ alive' \in [Proc -> BOOLEAN] /\ ~ alive'[c]
      /\ \A d \in Proc \ {c} : alive'[d] = alive[d]
  BY <1>1 DEF SystemInv, SystemTypeOK
<1>3. Sessions'
  BY <1>1 DEF SystemInv, Sessions
<1>4. backlog' \in Seq(Proc) /\ Len(backlog') <= BacklogSize /\ serving' \in Proc \cup {NoProc}
  BY <1>1 DEF SystemInv, SystemTypeOK
<1> QED  BY <1>1, <1>2, <1>3, <1>4, StillKeeps

\* The server takes the oldest connection.
LEMMA AcceptStep ==
  ASSUME SystemInv, accept
  PROVE  SystemInv'
<1>1. /\ UNCHANGED <<server, client, alive, stage>> /\ backlog # <<>>
      /\ serving = NoProc /\ serving' = Head(backlog) /\ backlog' = Tail(backlog)
  BY DEF accept, client
<1>2. backlog \in Seq(Proc) /\ Len(backlog) = 1
  <2>1. backlog \in Seq(Proc) /\ Len(backlog) <= 1
    BY DEF SystemInv, SystemTypeOK, BacklogSize
  <2>2. Len(backlog) \in Nat /\ Len(backlog) # 0
    BY <1>1, <2>1, EmptySeq
  <2>3. \A n \in Nat : n <= 1 /\ n # 0 => n = 1
    OBVIOUS
  <2>4. Len(backlog) = 1
    BY <2>1, <2>2, <2>3
  <2> QED  BY <2>1, <2>4
<1>3. /\ Head(backlog) = backlog[1] /\ backlog[1] \in Proc
      /\ Tail(backlog) \in Seq(Proc) /\ Len(Tail(backlog)) = 0 /\ DOMAIN Tail(backlog) = {}
  <2>1. Tail(backlog) \in Seq(Proc) /\ Len(Tail(backlog)) = 0
    BY <1>1, <1>2
  <2>2. Head(backlog) = backlog[1] /\ backlog[1] \in Proc
    BY <1>2
  <2>3. DOMAIN Tail(backlog) = 1 .. 0
    BY <2>1, LenProperties
  <2>4. 1 .. 0 = {}
    OBVIOUS
  <2> QED  BY <2>1, <2>2, <2>3, <2>4
<1>4. PICK c \in Proc : c = backlog[1]
  BY <1>3
<1>5. stage[c] \in {"connected", "sent"}
  BY <1>2, <1>4 DEF SystemInv, Sessions
<1>6. Sessions'
  BY <1>1, <1>3, <1>4, <1>5, SystemAssumption DEF SystemInv, Sessions
<1>7. backlog' \in Seq(Proc) /\ Len(backlog') <= BacklogSize /\ serving' \in Proc \cup {NoProc}
  BY <1>1, <1>3 DEF BacklogSize
<1>8. /\ alive' \in [Proc -> BOOLEAN] /\ (alive'[c] => alive[c])
      /\ \A d \in Proc \ {c} : alive'[d] = alive[d]
  BY <1>1 DEF SystemInv, SystemTypeOK
<1> QED  BY <1>1, <1>6, <1>7, <1>8, StillKeeps

\* The server answers, or dies, and changes nothing else.
LEMMA OnlyAnswers ==
  ASSUME CarefulInv, UNCHANGED <<tables, kernel>>, running' \in BOOLEAN,
         ret' \in [kind : {"null", "int", "mount", "dirent", "data"}, val : Int]
  PROVE  CarefulInv'
<1>1. /\ UNCHANGED <<client_id, open_dir_id, open_dir_queue, resource_list>>
      /\ UNCHANGED <<fdtab, disk, clash>>
  BY DEF tables, kernel
<1>2. ServerInv /\ TypeOK /\ OneRecordPerPath
  BY DEF CarefulInv, ServerInv
<1>3. TypeOK' /\ OneRecordPerPath'
  BY <1>1, <1>2 DEF TypeOK, OneRecordPerPath
<1> QED  BY <1>1, <1>2, <1>3, QuietStep, IdleStep

\* The server exits on what the process it serves did.
LEMMA ExitStep ==
  ASSUME SystemInv, NEW c \in Proc, Cause(c), Exit
  PROVE  SystemInv'
<1>1. /\ UNCHANGED <<tables, ret, kernel, fdtab, backlog, serving, stage, call, reply, myid,
                     handles, alive, client_id>>
      /\ running' = FALSE
  BY DEF Exit, kernel, rpc, client, app, tables
<1>2. CarefulInv'
  <2>1. running' \in BOOLEAN /\ ret' = ret
    BY <1>1
  <2> QED  BY <1>1, <2>1, OnlyAnswers DEF SystemInv, CarefulInv, ServerInv, TypeOK
<1>3. \A d \in Proc : Undisturbed(d)
  BY <1>1 DEF Undisturbed
<1>4. \A d \in Proc : Mine(d)' = Mine(d) /\ Id(d)' = Id(d) /\ Asked(d)' /\ PathKept(d)'
  BY <1>1, <1>3, UndisturbedKeeps DEF SystemInv
<1>5. OwnId'
  BY <1>1, <1>4 DEF SystemInv, OwnId
<1>6. OpenIsMine' /\ MineIsOpen'
  BY <1>1, <1>4, SameClaims DEF SystemInv
<1>7. SystemTypeOK' /\ Sessions'
  BY <1>1 DEF SystemInv, SystemTypeOK, Sessions
<1>8. Cause(c)'
  BY <1>1 DEF Cause
<1> QED  BY <1>2, <1>4, <1>5, <1>6, <1>7, <1>8 DEF SystemInv


-----------------------------------------------------------------------------
(* The server executes the call of process p.                                *)

\* What makeCall does to the processes.
LEMMA MakeCallLeaves ==
  ASSUME SystemInv, makeCall, NEW p \in Proc, p = serving
  PROVE  /\ running /\ stage[p] = "sent" /\ stage'[p] = "served"
         /\ Dispatch(myid[p], call[p])
         /\ UNCHANGED <<call, reply, myid, handles, alive>>
         /\ \A d \in Proc \ {p} : Undisturbed(d)
         /\ SystemTypeOK' /\ Sessions' /\ Asked(p)'
         /\ ~ Done(p) /\ Done(p)' /\ Result(p)' = ret'
         /\ Coming(p) = {} /\ Mine(p) = Kept(p) \cup Closing(p)
         /\ Kept(p)' = Kept(p) /\ Closing(p)' = Closing(p)
<1>1. /\ running /\ stage[p] = "sent" /\ Dispatch(myid[p], call[p])
      /\ stage' = [stage EXCEPT ![p] = "served"]
      /\ UNCHANGED <<backlog, serving, call, reply, myid, handles, alive>>
  BY DEF makeCall, Serving, rpc, app
<1>2. \A d \in Proc : stage'[d] = IF d = p THEN "served" ELSE stage[d]
  BY <1>1 DEF SystemInv, SystemTypeOK
<1>3. \A d \in Proc : stage[d] # "served"
  BY <1>1 DEF SystemInv, Sessions
<1>4. \A d \in Proc \ {p} : Undisturbed(d)
  BY <1>1, <1>2, <1>3 DEF Undisturbed
<1>5. SystemTypeOK'
  BY <1>1 DEF SystemInv, SystemTypeOK, Stages
<1>6. Sessions'
  BY <1>1, <1>2 DEF SystemInv, Sessions
<1>7. Kept(p)' = Kept(p) /\ Closing(p)' = Closing(p)
  BY <1>1 DEF Kept, Closing
<1>8. Asked(p)'
  BY <1>1, <1>2, <1>7 DEF SystemInv, Asked
<1>9. ~ Done(p) /\ Done(p)' /\ Result(p)' = ret'
  BY <1>1, <1>2 DEF Done, Result
<1>10. Coming(p) = {} /\ Leaving(p) = Closing(p)
  BY <1>9 DEF Coming, Leaving
<1>11. Mine(p) = Kept(p) \cup Closing(p)
  BY <1>10 DEF Mine
<1> QED  BY <1>1, <1>2, <1>4, <1>5, <1>6, <1>7, <1>8, <1>9, <1>10, <1>11

\* What is left to show of a call.
LEMMA MakeCallKeeps ==
  ASSUME SystemInv, makeCall, NEW p \in Proc, p = serving,
         CarefulInv', OpenIsMine', MineIsOpen', \A c \in Proc : PathKept(c)',
         running' \/ Cause(p)',
         IF call[p].op = "mount" THEN client_id' = client_id + 1 /\ ret'.val = client_id'
         ELSE client_id' = client_id
  PROVE  SystemInv'
<1>1. /\ stage[p] = "sent" /\ stage'[p] = "served"
      /\ UNCHANGED <<call, reply, myid, handles, alive>>
      /\ \A d \in Proc \ {p} : Undisturbed(d)
      /\ SystemTypeOK' /\ Sessions' /\ Asked(p)'
      /\ ~ Done(p) /\ Done(p)' /\ Result(p)' = ret'
  BY MakeCallLeaves
<1>2. \A d \in Proc \ {p} : Id(d)' = Id(d) /\ Asked(d)'
  BY <1>1, UndisturbedKeeps DEF SystemInv
<1>3. Asked(p) /\ client_id \in Nat /\ OwnId
  BY DEF SystemInv, CarefulInv, ServerInv, TypeOK
<1>4. OwnId'
  <2>1. CASE call[p].op = "mount"
    <3>1. myid[p] = 0 /\ Id(p)' = client_id + 1 /\ client_id' = client_id + 1
      BY <1>1, <1>3, <2>1 DEF Asked, Id
    <3>2. \A d \in Proc \ {p} : Id(d)' \in 0 .. client_id /\ Id(d)' = Id(d)
      BY <1>2, <1>3 DEF OwnId
    <3>3. ASSUME NEW d \in Proc PROVE Id(d)' \in 0 .. client_id'
      BY <1>3, <3>1, <3>2
    <3>4. ASSUME NEW c \in Proc, NEW d \in Proc, Id(c)' = Id(d)', Id(c)' # 0 PROVE c = d
      <4>1. CASE c = p \/ d = p
        BY <1>3, <3>1, <3>2, <3>4, <4>1
      <4>2. CASE c # p /\ d # p
        BY <1>3, <3>2, <3>4, <4>2 DEF OwnId
      <4> QED  BY <4>1, <4>2
    <3> QED  BY <3>3, <3>4 DEF OwnId
  <2>2. CASE call[p].op # "mount"
    <3>1. Id(p)' = Id(p)
      BY <1>1, <2>2 DEF Id
    <3> QED  BY <1>2, <1>3, <2>2, <3>1 DEF OwnId
  <2> QED  BY <2>1, <2>2
<1> QED  BY <1>1, <1>2, <1>4 DEF SystemInv

\* The number of a descriptor is never what a refused fsOpenDir returns.
LEMMA NumberIsNat ==
  ASSUME CarefulInv, NEW fd \in Fd
  PROVE  Number(fd) # NoDir
<1>1. fdtab[fd].handle \in Nat
  BY DEF CarefulInv, ServerInv, TypeOK, Entry
<1> QED  BY <1>1 DEF Number, NoDir, EAGAIN

\* Before and after a call, the numbers of open descriptors differ, and none is
\* what a refused fsOpenDir returns.
HandlesApart ==
  /\ \A fd \in Fd : Number(fd) # NoDir
  /\ \A f, g \in Fd : fdtab[f].kind # "closed" /\ fdtab[g].kind # "closed"
                      /\ Number(f) = Number(g) => f = g

\* So it is in every state of the invariant.
LEMMA ApartNow == CarefulInv => HandlesApart
<1> SUFFICES ASSUME CarefulInv PROVE HandlesApart
  OBVIOUS
<1>1. ASSUME NEW f \in Fd, NEW g \in Fd, Number(f) = Number(g),
             fdtab[f].kind # "closed", fdtab[g].kind # "closed"
      PROVE  f = g
  <2>1. /\ fdtab[f].handle = fdtab[g].handle
        /\ fdtab[f].kind = "stream" <=> fdtab[g].kind = "stream"
    BY <1>1 DEF Number
  <2>2. CASE fdtab[f].kind = "stream"
    <3> DEFINE h == fdtab[f].handle
    <3>1. /\ find(open_dir_queue, h) = [id |-> h, dir |-> f]
          /\ find(open_dir_queue, h) = [id |-> h, dir |-> g]
      BY <2>1, <2>2 DEF CarefulInv, ServerInv, DirHandleResolves
    <3>2. find(open_dir_queue, h).dir = f /\ find(open_dir_queue, h).dir = g
      BY <3>1
    <3> QED  BY <3>2
  <2>3. CASE fdtab[f].kind # "stream"
    <3>1. /\ fdtab[f].kind \in {"closed", "file", "dir", "stream"}
          /\ fdtab[g].kind \in {"closed", "file", "dir", "stream"}
      BY DEF CarefulInv, ServerInv, TypeOK, Entry
    <3>2. fdtab[f].handle = f /\ fdtab[g].handle = g
      BY <1>1, <2>1, <2>3, <3>1 DEF CarefulInv, ServerInv, EntryShape
    <3> QED  BY <2>1, <3>2
  <2> QED  BY <2>2, <2>3
<1> QED  BY <1>1, NumberIsNat DEF HandlesApart

\* And in the state after a step.
LEMMA ApartNext == CarefulInv' => HandlesApart'
BY ApartNow, PTL

\* An entry stays that of the same handle, though it may lose its lock or name.
Stays(fd) ==
  /\ fdtab'[fd].kind = fdtab[fd].kind /\ fdtab'[fd].by = fdtab[fd].by
  /\ fdtab'[fd].handle = fdtab[fd].handle
  /\ fdtab'[fd].path \in {fdtab[fd].path, NoPath}

\* A call that opens and closes nothing.
LEMMA QuietCall ==
  ASSUME SystemInv, makeCall, NEW p \in Proc, p = serving,
         CarefulInv', \A fd \in Fd : Stays(fd),
         running' \/ Cause(p)',
         IF call[p].op = "mount" THEN client_id' = client_id + 1 /\ ret'.val = client_id'
         ELSE client_id' = client_id,
         Coming(p)' \subseteq {NoDir},
         Closing(p) \subseteq {NoDir} \/ ret' = Again
  PROVE  SystemInv'
<1>1. /\ UNCHANGED <<myid, handles, call>>
      /\ \A d \in Proc \ {p} : Undisturbed(d)
      /\ Done(p)' /\ Result(p)' = ret'
      /\ Coming(p) = {} /\ Mine(p) = Kept(p) \cup Closing(p)
      /\ Kept(p)' = Kept(p) /\ Closing(p)' = Closing(p)
  BY MakeCallLeaves
<1>2. \A d \in Proc \ {p} : Mine(d)' = Mine(d) /\ Coming(d)' = Coming(d)
  BY <1>1, UndisturbedKeeps DEF SystemInv
<1>3. Mine(p)' \ {NoDir} = Mine(p) \ {NoDir}
  <2>1. Leaving(p)' = Closing(p) \/ (Leaving(p)' = {} /\ Closing(p) \subseteq {NoDir})
    BY <1>1 DEF Leaving, Again
  <2> QED  BY <1>1, <2>1 DEF Mine
<1>4. \A fd \in Fd : /\ Number(fd)' = Number(fd) /\ Number(fd) # NoDir
                     /\ fdtab'[fd].kind = fdtab[fd].kind /\ fdtab'[fd].by = fdtab[fd].by
                     /\ fdtab'[fd].path \in {fdtab[fd].path, NoPath}
  BY NumberIsNat DEF SystemInv, Number, Stays
<1>5. \A d \in Proc : \A n : n # NoDir => (n \in Mine(d)' <=> n \in Mine(d))
  BY <1>2, <1>3
<1>6. OpenIsMine'
  BY <1>1, <1>4, <1>5 DEF SystemInv, OpenIsMine
<1>7. MineIsOpen'
  BY <1>1, <1>4, <1>5 DEF SystemInv, MineIsOpen
<1>8. ASSUME NEW d \in Proc PROVE PathKept(d)'
  <2>1. PathKept(d) /\ handles'[d] = handles[d] /\ call'[d] = call[d]
    BY <1>1 DEF SystemInv
  <2>2. Kept(d)' = Kept(d)
    BY <2>1 DEF Kept
  <2>3. Coming(d)' \subseteq Coming(d) \cup {NoDir}
    BY <1>1, <1>2
  <2> QED  BY <1>4, <2>1, <2>2, <2>3 DEF PathKept
<1> QED  BY <1>6, <1>7, <1>8, MakeCallKeeps

\* A call that opens descriptor fd for process p.
LEMMA GrantingCall ==
  ASSUME SystemInv, makeCall, NEW p \in Proc, p = serving,
         CarefulInv', NEW fd \in Fd, NEW entry,
         fdtab[fd].kind = "closed", fdtab' = [fdtab EXCEPT ![fd] = entry],
         entry.kind # "closed", entry.by = myid[p], entry.path = call[p].path,
         running', client_id' = client_id,
         call[p].op \in {"open", "opendir"},
         Coming(p)' = {Number(fd)'}
  PROVE  SystemInv'
<1>1. /\ UNCHANGED <<myid, handles, call>>
      /\ \A d \in Proc \ {p} : Undisturbed(d)
      /\ Coming(p) = {} /\ Mine(p) = Kept(p) \cup Closing(p)
      /\ Kept(p)' = Kept(p) /\ Closing(p)' = Closing(p)
  BY MakeCallLeaves
<1>2. \A d \in Proc \ {p} : Mine(d)' = Mine(d) /\ Coming(d)' = Coming(d)
  BY <1>1, UndisturbedKeeps DEF SystemInv
<1>3. Mine(p)' = Mine(p) \cup {Number(fd)'}
  <2>1. Closing(p) = {}
    BY DEF Closing
  <2> QED  BY <1>1, <2>1 DEF Mine, Leaving
<1>4. \A f \in Fd : fdtab'[f] = IF f = fd THEN entry ELSE fdtab[f]
  BY DEF SystemInv, CarefulInv, ServerInv, TypeOK
<1>5. \A f \in Fd \ {fd} : Number(f)' = Number(f)
  BY <1>4 DEF Number
<1>6. OpenIsMine'
  <2>1. ASSUME NEW f \in Fd, fdtab'[f].kind # "closed"
        PROVE  \E c \in Proc : /\ fdtab'[f].by = myid'[c]
                               /\ \/ Number(f)' \in Mine(c)'
                                  \/ Garbage /\ fdtab'[f].kind = "stream"
    <3>1. CASE f = fd
      BY <1>1, <1>3, <1>4, <3>1
    <3>2. CASE f # fd
      <4>1. PICK c \in Proc : /\ fdtab[f].by = myid[c]
                              /\ \/ Number(f) \in Mine(c)
                                 \/ Garbage /\ fdtab[f].kind = "stream"
        BY <1>4, <2>1, <3>2 DEF SystemInv, OpenIsMine
      <4>2. Number(f) \in Mine(c) => Number(f)' \in Mine(c)'
        BY <1>2, <1>3, <1>5, <3>2
      <4> QED  BY <1>1, <1>4, <3>2, <4>1, <4>2
    <3> QED  BY <3>1, <3>2
  <2> QED  BY <2>1 DEF OpenIsMine
<1>7. MineIsOpen'
  <2>1. ASSUME NEW c \in Proc, NEW n \in Mine(c)', n # NoDir
        PROVE  \E f \in Fd : fdtab'[f].kind # "closed" /\ Number(f)' = n /\ fdtab'[f].by = myid'[c]
    <3>1. CASE n \in Mine(c)
      <4>1. PICK f \in Fd : fdtab[f].kind # "closed" /\ Number(f) = n /\ fdtab[f].by = myid[c]
        BY <2>1, <3>1 DEF SystemInv, MineIsOpen
      <4> QED  BY <1>1, <1>4, <1>5, <4>1
    <3>2. CASE n \notin Mine(c)
      BY <1>1, <1>2, <1>3, <1>4, <2>1, <3>2
    <3> QED  BY <3>1, <3>2
  <2> QED  BY <2>1 DEF MineIsOpen
<1>0. /\ Number(fd)' # NoDir
      /\ \A f, g \in Fd : fdtab'[f].kind # "closed" /\ fdtab'[g].kind # "closed"
                           /\ Number(f)' = Number(g)' => f = g
  BY ApartNext DEF HandlesApart
<1>8. ASSUME NEW c \in Proc, NEW n \in Mine(c) PROVE Number(fd)' # n
  <2>1. CASE n = NoDir
    BY <1>0, <2>1
  <2>2. CASE n # NoDir
    <3>1. PICK f \in Fd : fdtab[f].kind # "closed" /\ Number(f) = n
      BY <1>8, <2>2 DEF SystemInv, MineIsOpen
    <3>2. f # fd /\ Number(f)' = n /\ fdtab'[f].kind # "closed" /\ fdtab'[fd].kind # "closed"
      BY <1>4, <1>5, <3>1
    <3> QED  BY <1>0, <3>2
  <2> QED  BY <2>1, <2>2
<1>9. ASSUME NEW c \in Proc PROVE PathKept(c)'
  <2>1. handles'[c] = handles[c] /\ call'[c] = call[c]
    BY <1>1
  <2>2. Coming(c)' = IF c = p THEN {Number(fd)'} ELSE Coming(c)
    BY <1>2
  <2>3. ASSUME NEW f \in Fd, fdtab'[f].kind # "closed", NEW h \in handles[c],
               Number(f)' = <<h.type, h.num>>
        PROVE  fdtab'[f].path \in {h.path, NoPath}
    <3>1. <<h.type, h.num>> \in Mine(c)
      BY DEF Mine, Kept
    <3>2. f # fd
      BY <1>8, <2>3, <3>1
    <3> QED  BY <1>4, <1>5, <2>3, <3>2 DEF SystemInv, PathKept
  <2>4. ASSUME NEW f \in Fd, fdtab'[f].kind # "closed", Number(f)' \in Coming(c)'
        PROVE  fdtab'[f].path \in {call[c].path, NoPath}
    <3>1. CASE c = p
      <4>1. Number(f)' = Number(fd)'
        BY <2>2, <2>4, <3>1
      <4>2. f = fd
        BY <1>0, <1>4, <2>4, <4>1
      <4> QED  BY <1>4, <3>1, <4>2
    <3>2. CASE c # p
      <4>1. Number(f)' \in Coming(c)
        BY <2>2, <2>4, <3>2
      <4>2. f # fd
        BY <1>8, <4>1 DEF Mine
      <4> QED  BY <1>4, <1>5, <2>4, <4>1, <4>2 DEF SystemInv, PathKept
    <3> QED  BY <3>1, <3>2
  <2>5. Coming(c)' \cap Kept(c)' \subseteq {NoDir}
    <3>1. Kept(c)' = Kept(c) /\ Kept(c) \subseteq Mine(c)
      BY <2>1 DEF Kept, Mine
    <3> QED  BY <1>8, <2>2, <3>1 DEF SystemInv, PathKept
  <2> QED  BY <2>1, <2>3, <2>4, <2>5 DEF SystemInv, PathKept
<1> QED  BY <1>6, <1>7, <1>9, MakeCallKeeps

\* A call that closes descriptor fd, which process p gives back.
LEMMA ReleasingCall ==
  ASSUME SystemInv, makeCall, NEW p \in Proc, p = serving,
         CarefulInv', NEW fd \in Fd,
         fdtab[fd].kind # "closed", fdtab[fd].by = myid[p], myid[p] # 0,
         fdtab'[fd] = Closed, \A f \in Fd \ {fd} : Stays(f),
         running', client_id' = client_id,
         call[p].op \in {"close", "closedir"}, Closing(p) = {Number(fd)},
         ret' # Again
  PROVE  SystemInv'
<1>1. /\ UNCHANGED <<myid, handles, call>>
      /\ \A d \in Proc \ {p} : Undisturbed(d)
      /\ Done(p)' /\ Result(p)' = ret'
      /\ Coming(p) = {} /\ Mine(p) = Kept(p) \cup Closing(p)
      /\ Kept(p)' = Kept(p) /\ Closing(p)' = Closing(p)
  BY MakeCallLeaves
<1>2. \A d \in Proc \ {p} : Mine(d)' = Mine(d) /\ Coming(d)' = Coming(d)
  BY <1>1, UndisturbedKeeps DEF SystemInv
<1>3. Coming(p)' = {} /\ Leaving(p)' = {}
  <2>1. Coming(p)' = {}
    BY <1>1 DEF Coming, Granted
  <2>2. Leaving(p)' = {}
    BY <1>1 DEF Leaving, Again
  <2> QED  BY <2>1, <2>2
<1>4. Mine(p)' = Mine(p) \ {Number(fd)}
  <2>1. Number(fd) \notin Kept(p)
    <3>1. Closing(p) \cap Kept(p) \subseteq {NoDir}
      BY DEF SystemInv, Asked
    <3>2. Number(fd) # NoDir
      BY NumberIsNat DEF SystemInv
    <3> QED  BY <3>1, <3>2
  <2> QED  BY <1>1, <1>3, <2>1 DEF Mine
<1>5. fdtab'[fd].kind = "closed"
  BY DEF Closed
<1>6. \A f \in Fd \ {fd} :
        /\ Number(f)' = Number(f)
        /\ fdtab'[f].kind = fdtab[f].kind /\ fdtab'[f].by = fdtab[f].by
        /\ fdtab'[f].path \in {fdtab[f].path, NoPath}
  BY DEF Stays, Number
<1>7. \A f \in Fd : fdtab'[f].kind # "closed" => f # fd /\ fdtab[f].kind # "closed"
  BY <1>5, <1>6
<1>8. \A f \in Fd \ {fd} : fdtab[f].kind # "closed" => Number(f) # Number(fd)
  BY ApartNow DEF SystemInv, HandlesApart
<1>9. OpenIsMine'
  <2>1. ASSUME NEW f \in Fd, fdtab'[f].kind # "closed"
        PROVE  \E c \in Proc : /\ fdtab'[f].by = myid'[c]
                               /\ \/ Number(f)' \in Mine(c)'
                                  \/ Garbage /\ fdtab'[f].kind = "stream"
    <3>1. /\ f # fd /\ fdtab[f].kind # "closed" /\ Number(f)' = Number(f)
          /\ fdtab'[f].kind = fdtab[f].kind /\ fdtab'[f].by = fdtab[f].by
      BY <1>6, <1>7, <2>1
    <3>2. PICK c \in Proc : /\ fdtab[f].by = myid[c]
                            /\ \/ Number(f) \in Mine(c)
                               \/ Garbage /\ fdtab[f].kind = "stream"
      BY <3>1 DEF SystemInv, OpenIsMine
    <3>3. Number(f) \in Mine(c) => Number(f) \in Mine(c)'
      BY <1>2, <1>4, <1>8, <3>1
    <3> QED  BY <1>1, <3>1, <3>2, <3>3
  <2> QED  BY <2>1 DEF OpenIsMine
<1>10. MineIsOpen'
  <2>1. ASSUME NEW c \in Proc, NEW n \in Mine(c)', n # NoDir
        PROVE  \E f \in Fd : fdtab'[f].kind # "closed" /\ Number(f)' = n /\ fdtab'[f].by = myid'[c]
    <3>1. n \in Mine(c) /\ (c = p => n # Number(fd))
      BY <1>2, <1>4, <2>1
    <3>2. PICK f \in Fd : fdtab[f].kind # "closed" /\ Number(f) = n /\ fdtab[f].by = myid[c]
      BY <2>1, <3>1 DEF SystemInv, MineIsOpen
    <3>3. f # fd
      <4>1. SUFFICES ASSUME f = fd PROVE FALSE
        OBVIOUS
      <4>2. myid[c] = myid[p] /\ c # p
        BY <3>1, <3>2, <4>1
      <4>3. Id(c) = Id(p) /\ Id(c) # 0
        BY <4>2 DEF Id
      <4> QED  BY <4>2, <4>3 DEF SystemInv, OwnId
    <3> QED  BY <1>1, <1>6, <3>2, <3>3
  <2> QED  BY <2>1 DEF MineIsOpen
<1>11. ASSUME NEW c \in Proc PROVE PathKept(c)'
  <2>1. handles'[c] = handles[c] /\ call'[c] = call[c] /\ Coming(c)' \subseteq Coming(c)
    BY <1>1, <1>2, <1>3
  <2>2. PathKept(c)
    BY DEF SystemInv
  <2>3. \A f \in Fd : fdtab'[f].kind # "closed" =>
          /\ fdtab[f].kind # "closed" /\ Number(f)' = Number(f)
          /\ fdtab'[f].path \in {fdtab[f].path, NoPath}
    BY <1>6, <1>7
  <2>4. Kept(c)' = Kept(c)
    BY <2>1 DEF Kept
  <2> QED  BY <2>1, <2>2, <2>3, <2>4 DEF PathKept
<1> QED  BY <1>9, <1>10, <1>11, MakeCallKeeps

\* Whoever makes a call other than fsMount has the id of a client.
LEMMA KnownClient ==
  ASSUME SystemInv, NEW p \in Proc, stage[p] # "idle", call[p].op # "mount", running
  PROVE  myid[p] \in Client /\ myid[p] # 0 /\ Mounted(myid[p])
<1>1. myid[p] # 0 /\ Id(p) = myid[p]
  BY DEF SystemInv, Asked, Id
<1>2. myid[p] \in 0 .. client_id /\ client_id \in 0 .. MaxClients /\ MaxClients \in Nat
  BY <1>1, ServerAssumption DEF SystemInv, OwnId, CarefulInv, ServerInv, TypeOK
<1>3. myid[p] \in 1 .. MaxClients /\ myid[p] <= client_id
  BY <1>1, <1>2
<1> QED  BY <1>1, <1>3 DEF Client, Mounted

\* A handle that a process uses or gives back is that of a descriptor it has open.
LEMMA HandleFound ==
  ASSUME SystemInv, NEW p \in Proc, NEW type \in {"file", "dir"}, NEW num,
         <<type, num>> \in Mine(p), <<type, num>> # NoDir
  PROVE  \E fd \in Fd :
           /\ fdtab[fd].by = myid[p] /\ fdtab[fd].handle = num
           /\ Number(fd) = <<type, num>>
           /\ type = "file" => num = fd /\ fdtab[fd].kind \in {"file", "dir"}
           /\ type = "dir" => fdtab[fd].kind = "stream"
<1>1. PICK fd \in Fd : fdtab[fd].kind # "closed" /\ Number(fd) = <<type, num>>
                       /\ fdtab[fd].by = myid[p]
  BY DEF SystemInv, MineIsOpen
<1>2. fdtab[fd].kind \in {"file", "dir", "stream"}
  BY <1>1 DEF SystemInv, CarefulInv, ServerInv, TypeOK, Entry
<1>3. fdtab[fd].handle = num /\ (type = "dir" <=> fdtab[fd].kind = "stream")
  BY <1>1 DEF Number
<1>4. fdtab[fd].kind # "stream" => fdtab[fd].handle = fd
  BY <1>2 DEF SystemInv, CarefulInv, ServerInv, EntryShape
<1> QED  BY <1>1, <1>2, <1>3, <1>4

\* When nothing happens to the descriptors, every entry stays.
LEMMA Same == ASSUME UNCHANGED fdtab PROVE \A fd \in Fd : Stays(fd)
BY DEF Stays

\* A refused call changes the answer only.
LEMMA RefusedKeeps ==
  ASSUME CarefulInv, NEW res, NEW id, Refused(res, id)
  PROVE  /\ CarefulInv' /\ ret' = Again /\ UNCHANGED <<running, client_id>>
         /\ \A fd \in Fd : Stays(fd)
<1>1. UNCHANGED <<tables, running, kernel>> /\ ret' = [kind |-> "int", val |-> -EAGAIN]
  BY DEF Refused, Answer
<1>2. -EAGAIN \in Int
  BY DEF EAGAIN
<1>3. running' \in BOOLEAN /\ ret' \in [kind : {"null", "int", "mount", "dirent", "data"}, val : Int]
  BY <1>1, <1>2 DEF CarefulInv, ServerInv, TypeOK
<1>4. CarefulInv'
  BY <1>1, <1>3, OnlyAnswers
<1>5. ret' = Again /\ UNCHANGED <<fdtab, client_id>>
  BY <1>1 DEF Again, tables, kernel
<1> QED  BY <1>1, <1>4, <1>5, Same

\* A handler that dies leaves the tables as they were.
LEMMA CrashKeeps ==
  ASSUME CarefulInv, Crash
  PROVE  CarefulInv' /\ UNCHANGED client_id /\ \A fd \in Fd : Stays(fd)
<1>1. UNCHANGED <<tables, kernel, ret>> /\ running' = FALSE
  BY DEF Crash
<1>2. running' \in BOOLEAN /\ ret' \in [kind : {"null", "int", "mount", "dirent", "data"}, val : Int]
  BY <1>1 DEF CarefulInv, ServerInv, TypeOK
<1>3. CarefulInv'
  BY <1>1, <1>2, OnlyAnswers
<1>4. UNCHANGED <<fdtab, client_id>>
  BY <1>1 DEF tables, kernel
<1> QED  BY <1>3, <1>4, Same

\* No stream has what a refused fsOpenDir returns for its id.
LEMMA NoSuchStream == ASSUME CarefulInv PROVE find(open_dir_queue, -EAGAIN) = NoNode
<1>1. open_dir_queue \in Seq(Node)
  BY DEF CarefulInv, ServerInv, TypeOK
<1>2. \A i \in 1 .. Len(open_dir_queue) : open_dir_queue[i].id # -EAGAIN
  <2>1. \A i \in 1 .. Len(open_dir_queue) : open_dir_queue[i] \in Node
    BY <1>1, ElementOfSeq
  <2>2. \A node \in Node : node.id # -EAGAIN
    BY DEF Node, DirId, EAGAIN
  <2> QED  BY <2>1, <2>2
<1> QED  BY <1>1, <1>2, FindNode

\* fsMount and fsUnmount.
LEMMA MountCalls ==
  ASSUME SystemInv, makeCall, NEW p \in Proc, p = serving,
         call[p].op \in {"mount", "unmount"}
  PROVE  SystemInv'
<1>1. /\ running /\ stage[p] = "sent" /\ Dispatch(myid[p], call[p])
      /\ UNCHANGED call /\ Kept(p)' = Kept(p)
  BY MakeCallLeaves
<1>2. Coming(p)' = {} /\ Closing(p) = {}
  BY <1>1 DEF Coming, Granted, Closing
<1>3. CASE call[p].op = "mount"
  <2>1. fsMount
    BY <1>1, <1>3 DEF Dispatch
  <2>2. CarefulInv'
    <3>1. OwnNext
      BY <1>1, <2>1 DEF OwnNext, CallMount
    <3> QED  BY <3>1, OwnStep DEF SystemInv
  <2>3. /\ client_id' = client_id + 1 /\ ret'.val = client_id'
        /\ UNCHANGED fdtab /\ running'
    BY <1>1, <2>1 DEF fsMount, Answer, kernel
  <2> QED  BY <1>2, <1>3, <2>2, <2>3, Same, QuietCall
<1>4. CASE call[p].op = "unmount"
  <2>1. fsUnmount(myid[p])
    BY <1>1, <1>4 DEF Dispatch
  <2>2. CarefulInv'
    <3>1. myid[p] \in Client /\ Mounted(myid[p])
      BY <1>1, <1>4, KnownClient
    <3>2. OwnNext
      BY <2>1, <3>1 DEF OwnNext, CallUnmount
    <3> QED  BY <3>2, OwnStep DEF SystemInv
  <2>3. client_id' = client_id /\ UNCHANGED fdtab /\ running'
    BY <1>1, <2>1 DEF fsUnmount, tables, kernel
  <2> QED  BY <1>2, <1>4, <2>2, <2>3, Same, QuietCall
<1> QED  BY <1>3, <1>4

\* fsOpenDir.
LEMMA OpenDirCall ==
  ASSUME SystemInv, makeCall, NEW p \in Proc, p = serving, call[p].op = "opendir"
  PROVE  SystemInv'
<1>1. /\ running /\ stage[p] = "sent" /\ Dispatch(myid[p], call[p])
      /\ UNCHANGED call /\ Done(p)' /\ Result(p)' = ret'
  BY MakeCallLeaves
<1>2. /\ fsOpenDir(myid[p], call[p].path) /\ call[p].path \in Path
      /\ myid[p] \in Client /\ myid[p] # 0 /\ Mounted(myid[p])
  <2>1. fsOpenDir(myid[p], call[p].path)
    BY <1>1 DEF Dispatch
  <2>2. call[p].path \in Path
    BY DEF SystemInv, Asked
  <2>3. myid[p] \in Client /\ myid[p] # 0 /\ Mounted(myid[p])
    BY <1>1, KnownClient
  <2> QED  BY <2>1, <2>2, <2>3
<1>3. CarefulInv'
  <2>1. OwnNext
    BY <1>2 DEF OwnNext, CallOpenDir
  <2> QED  BY <2>1, OwnStep DEF SystemInv
<1>4. Closing(p) = {}
  BY DEF Closing
<1>5. Coming(p)' = IF ret'.kind = "int" THEN {<<"dir", ret'.val>>} ELSE {}
  <2> DEFINE granted == Granted(call[p], ret')
             handle  == [type |-> "dir", num |-> ret'.val, path |-> call[p].path]
  <2>1. Coming(p)' = {<<h.type, h.num>> : h \in granted}
    BY <1>1 DEF Coming
  <2>2. granted = IF ret'.kind = "int" THEN {handle} ELSE {}
    BY DEF Granted
  <2>3. handle.type = "dir" /\ handle.num = ret'.val
    OBVIOUS
  <2> HIDE DEF granted, handle
  <2>4. CASE ret'.kind = "int"
    BY <2>1, <2>2, <2>3, <2>4
  <2>5. CASE ~ (ret'.kind = "int")
    BY <2>1, <2>2, <2>5
  <2> QED  BY <2>4, <2>5
<1>6. CASE Refused(find_resource(resource_list, 0, call[p].path), myid[p])
  <2>1. ret' = Again /\ UNCHANGED <<running, client_id>> /\ \A fd \in Fd : Stays(fd)
    BY <1>6, RefusedKeeps DEF SystemInv
  <2>2. Coming(p)' = {NoDir}
    BY <1>5, <2>1 DEF Again, NoDir
  <2> QED  BY <1>1, <1>3, <1>4, <2>1, <2>2, QuietCall
<1>7. CASE OpenDirFails(myid[p], call[p].path)
  <2>1. ret'.kind = "null" /\ UNCHANGED <<running, fdtab, client_id>>
    BY <1>7 DEF OpenDirFails, Answer, tables, kernel
  <2>2. Coming(p)' = {}
    BY <1>5, <2>1
  <2> QED  BY <1>1, <1>3, <1>4, <2>1, <2>2, Same, QuietCall
<1>8. CASE OpenDirSucceeds(myid[p], call[p].path)
  <2> DEFINE d     == open_dir_id + 1
             entry == [kind |-> "stream", mode |-> 0, path |-> call[p].path,
                       by |-> myid[p], handle |-> d, unlocked |-> FALSE]
  <2>1. /\ FreeFds # {} /\ fdtab' = [fdtab EXCEPT ![Min(FreeFds)] = entry]
        /\ ret' = [kind |-> "int", val |-> d] /\ UNCHANGED <<running, client_id>>
    BY <1>8 DEF OpenDirSucceeds, NewDirId, Opened, Answer
  <2>2. PICK fd \in Fd : fd = Min(FreeFds) /\ fdtab[fd].kind = "closed"
    BY <2>1, LowestFree DEF FreeFds
  <2>3. Number(fd)' = <<"dir", d>>
    <3>1. fdtab'[fd] = entry
      BY <2>1, <2>2 DEF SystemInv, CarefulInv, ServerInv, TypeOK
    <3> QED  BY <3>1 DEF Number
  <2>4. Coming(p)' = {Number(fd)'}
    BY <1>5, <2>1, <2>3
  <2>5. /\ entry.kind # "closed" /\ entry.by = myid[p] /\ entry.path = call[p].path
    OBVIOUS
  <2> HIDE DEF entry
  <2> QED  BY <1>1, <1>3, <2>1, <2>2, <2>4, <2>5, GrantingCall
<1> QED  BY <1>2, <1>6, <1>7, <1>8 DEF fsOpenDir

\* fsOpen.
LEMMA OpenCall ==
  ASSUME SystemInv, makeCall, NEW p \in Proc, p = serving, call[p].op = "open"
  PROVE  SystemInv'
<1> DEFINE path == call[p].path
           mode == call[p].num
<1>1. /\ running /\ stage[p] = "sent" /\ Dispatch(myid[p], call[p])
      /\ UNCHANGED call /\ Done(p)' /\ Result(p)' = ret'
  BY MakeCallLeaves
<1>2. /\ fsOpen(myid[p], mode, path) /\ path \in Path /\ mode \in {0, 1}
      /\ myid[p] \in Client /\ myid[p] # 0 /\ Mounted(myid[p])
  <2>1. fsOpen(myid[p], mode, path)
    BY <1>1 DEF Dispatch
  <2>2. path \in Path /\ mode \in {0, 1}
    BY DEF SystemInv, Asked
  <2>3. myid[p] \in Client /\ myid[p] # 0 /\ Mounted(myid[p])
    BY <1>1, KnownClient
  <2> QED  BY <2>1, <2>2, <2>3
<1>3. CarefulInv'
  <2>1. OwnNext
    BY <1>2 DEF OwnNext, CallOpen
  <2> QED  BY <2>1, OwnStep DEF SystemInv
<1>4. Closing(p) = {}
  BY DEF Closing
<1>5. Coming(p)' = IF ret'.val >= 0 THEN {<<"file", ret'.val>>} ELSE {}
  <2> DEFINE granted == Granted(call[p], ret')
             handle  == [type |-> "file", num |-> ret'.val, path |-> call[p].path]
  <2>1. Coming(p)' = {<<h.type, h.num>> : h \in granted}
    BY <1>1 DEF Coming
  <2>2. granted = IF ret'.val >= 0 THEN {handle} ELSE {}
    BY DEF Granted
  <2>3. handle.type = "file" /\ handle.num = ret'.val
    OBVIOUS
  <2> HIDE DEF granted, handle
  <2>4. CASE ret'.val >= 0
    BY <2>1, <2>2, <2>3, <2>4
  <2>5. CASE ~ (ret'.val >= 0)
    BY <2>1, <2>2, <2>5
  <2> QED  BY <2>4, <2>5
<1>6. CASE Refused(find_resource(resource_list, 0, path), myid[p])
  <2>1. ret' = Again /\ UNCHANGED <<running, client_id>> /\ \A fd \in Fd : Stays(fd)
    BY <1>6, RefusedKeeps DEF SystemInv
  <2>2. Coming(p)' = {}
    BY <1>5, <2>1 DEF Again, EAGAIN
  <2> QED  BY <1>1, <1>3, <1>4, <2>1, <2>2, QuietCall
<1>7. CASE OpenFails(myid[p], mode, path)
  <2>1. /\ ret'.val \in {- open_errno(mode, path), - EACCES}
        /\ ret'.val = - open_errno(mode, path) => open_errno(mode, path) # 0
        /\ UNCHANGED <<running, fdtab, client_id>>
    <3>1. /\ ret'.val = IF open_errno(mode, path) # 0 THEN - open_errno(mode, path) ELSE - EACCES
          /\ UNCHANGED <<running, fdtab, client_id>>
      BY <1>7 DEF OpenFails, Answer, kernel
    <3> QED  BY <3>1 DEF EACCES
  <2>2. open_errno(mode, path) \in {0, 2, 21, 24} /\ EACCES = 13
    BY DEF open_errno, ENOENT, EISDIR, EMFILE, EACCES
  <2>3. Coming(p)' = {}
    BY <1>5, <2>1, <2>2
  <2> QED  BY <1>1, <1>3, <1>4, <2>1, <2>3, Same, QuietCall
<1>8. CASE OpenSucceeds(myid[p], mode, path)
  <2> DEFINE kind  == IF disk[path] = "dir" THEN "dir" ELSE "file"
             low   == Min(FreeFds)
             entry == [kind |-> kind, mode |-> mode, path |-> path,
                       by |-> myid[p], handle |-> low, unlocked |-> FALSE]
  <2>1. /\ open_errno(mode, path) = 0 /\ fdtab' = [fdtab EXCEPT ![low] = entry]
        /\ ret' = [kind |-> "int", val |-> low] /\ UNCHANGED <<running, client_id>>
    BY <1>8 DEF OpenSucceeds, Opened, Answer
  <2>2. FreeFds # {}
    BY <2>1 DEF open_errno, EMFILE
  <2>3. PICK fd \in Fd : fd = low /\ fdtab[fd].kind = "closed"
    BY <2>2, LowestFree DEF FreeFds
  <2>4. Number(fd)' = <<"file", fd>>
    <3>1. fdtab'[fd] = entry
      BY <2>1, <2>3 DEF SystemInv, CarefulInv, ServerInv, TypeOK
    <3> QED  BY <2>3, <3>1 DEF Number
  <2>5. fd >= 0
    BY DEF Fd, FirstFd
  <2>6. Coming(p)' = {Number(fd)'}
    BY <1>5, <2>1, <2>3, <2>4, <2>5
  <2>7. /\ entry.kind # "closed" /\ entry.by = myid[p] /\ entry.path = path
    OBVIOUS
  <2> HIDE DEF entry
  <2> QED  BY <1>1, <1>3, <2>1, <2>3, <2>6, <2>7, GrantingCall
<1> QED  BY <1>2, <1>6, <1>7, <1>8 DEF fsOpen

\* fsRemove: what is open on the path stays open.
LEMMA RemoveCall ==
  ASSUME SystemInv, makeCall, NEW p \in Proc, p = serving, call[p].op = "remove"
  PROVE  SystemInv'
<1> DEFINE path == call[p].path
<1>1. /\ running /\ stage[p] = "sent" /\ Dispatch(myid[p], call[p])
      /\ UNCHANGED call
  BY MakeCallLeaves
<1>2. fsRemove(myid[p], path) /\ path \in Path /\ myid[p] \in Client /\ Mounted(myid[p])
  <2>1. fsRemove(myid[p], path)
    BY <1>1 DEF Dispatch
  <2>2. path \in Path
    BY DEF SystemInv, Asked
  <2>3. myid[p] \in Client /\ Mounted(myid[p])
    BY <1>1, KnownClient
  <2> QED  BY <2>1, <2>2, <2>3
<1>3. CarefulInv'
  <2>1. OwnNext
    BY <1>2 DEF OwnNext, CallRemove
  <2> QED  BY <2>1, OwnStep DEF SystemInv
<1>4. Closing(p) = {} /\ Coming(p)' = {}
  BY <1>1 DEF Closing, Coming, Granted
<1>5. CASE Refused(find_resource(resource_list, 0, path), myid[p])
  BY <1>1, <1>3, <1>4, <1>5, RefusedKeeps, QuietCall DEF SystemInv
<1>6. CASE RemoveSucceeds(myid[p], path) \/ RemoveFails(myid[p], path)
  <2>1. UNCHANGED <<running, client_id>>
    BY <1>6 DEF RemoveSucceeds, RemoveFails, Unlock
  <2>2. TypeOK
    BY DEF SystemInv, CarefulInv, ServerInv
  <2>3. \A fd \in Fd : Stays(fd)
    BY <1>2, <1>6, <2>2, RemovedEntries DEF Stays
  <2> QED  BY <1>1, <1>3, <1>4, <2>1, <2>3, QuietCall
<1> QED  BY <1>2, <1>5, <1>6 DEF fsRemove

\* fsRead and fsWrite.
LEMMA DataCalls ==
  ASSUME SystemInv, makeCall, NEW p \in Proc, p = serving,
         call[p].op \in {"read", "write"}
  PROVE  SystemInv'
<1> DEFINE num == call[p].num
<1>1. /\ running /\ stage[p] = "sent" /\ Dispatch(myid[p], call[p])
      /\ UNCHANGED call /\ stage'[p] = "served"
  BY MakeCallLeaves
<1>2. myid[p] \in Client /\ Mounted(myid[p])
  BY <1>1, KnownClient
<1>3. PICK fd \in Fd : fd = num /\ fdtab[fd].by = myid[p] /\ fdtab[fd].kind \in {"file", "dir"}
  <2>1. <<"file", num>> \in Mine(p)
    BY DEF SystemInv, Asked, Mine
  <2>2. <<"file", num>> # NoDir
    BY DEF NoDir
  <2> QED  BY <2>1, <2>2, HandleFound
<1>4. MayUse(myid[p], fd)
  BY <1>3 DEF MayUse
<1>5. Closing(p) = {} /\ Coming(p)' = {}
  BY <1>1 DEF Closing, Coming, Granted
<1>6. CASE call[p].op = "read"
  <2>1. fsRead(myid[p], fd)
    BY <1>1, <1>3, <1>6 DEF Dispatch
  <2>2. CarefulInv'
    <3>1. OwnNext
      BY <1>2, <1>4, <2>1 DEF OwnNext, CallRead
    <3> QED  BY <3>1, OwnStep DEF SystemInv
  <2>3. client_id' = client_id /\ UNCHANGED fdtab
    BY <2>1 DEF fsRead, Crash, tables, kernel
  <2>4. running' \/ Cause(p)'
    <3>1. running' \/ ~ (fdtab[fd].kind = "file" /\ fdtab[fd].mode = 0)
      BY <1>1, <2>1 DEF fsRead
    <3> QED  BY <1>1, <1>3, <1>6, <2>3, <3>1 DEF Cause
  <2> QED  BY <1>5, <1>6, <2>2, <2>3, <2>4, Same, QuietCall
<1>7. CASE call[p].op = "write"
  <2>1. fsWrite(myid[p], fd)
    BY <1>1, <1>3, <1>7 DEF Dispatch
  <2>2. CarefulInv'
    <3>1. OwnNext
      BY <1>2, <1>4, <2>1 DEF OwnNext, CallWrite
    <3> QED  BY <3>1, OwnStep DEF SystemInv
  <2>3. client_id' = client_id /\ UNCHANGED fdtab /\ running'
    BY <1>1, <2>1 DEF fsWrite, Refused, tables, kernel
  <2> QED  BY <1>5, <1>7, <2>2, <2>3, Same, QuietCall
<1> QED  BY <1>6, <1>7

\* When an entry is closed the others stay.
LEMMA ClosedStay ==
  ASSUME CarefulInv, NEW id, NEW path, NEW fd \in Fd,
         fdtab' = [WithoutLock(id, path) EXCEPT ![fd] = Closed]
  PROVE  fdtab'[fd] = Closed /\ \A f \in Fd \ {fd} : Stays(f)
<1>1. TypeOK
  BY DEF CarefulInv, ServerInv
<1> DEFINE table == WithoutLock(id, path)
<1>2. table \in [Fd -> Entry]
  BY <1>1, UnlockedTyped
<1>3. fdtab' = [table EXCEPT ![fd] = Closed]
  OBVIOUS
<1>4. \A f \in Fd : table[f].path = fdtab[f].path /\ table[f].kind = fdtab[f].kind
                   /\ table[f].by = fdtab[f].by /\ table[f].handle = fdtab[f].handle
  BY <1>1, MarkedEntries
<1> HIDE DEF table
<1> QED  BY <1>2, <1>3, <1>4 DEF Stays

\* fsClose.
LEMMA CloseCall ==
  ASSUME SystemInv, makeCall, NEW p \in Proc, p = serving, call[p].op = "close"
  PROVE  SystemInv'
<1> DEFINE num == call[p].num
<1>1. /\ running /\ stage[p] = "sent" /\ Dispatch(myid[p], call[p])
      /\ UNCHANGED call /\ Mine(p) = Kept(p) \cup Closing(p)
  BY MakeCallLeaves
<1>2. myid[p] \in Client /\ myid[p] # 0 /\ Mounted(myid[p])
  BY <1>1, KnownClient
<1>3. Closing(p) = {<<"file", num>>}
  BY DEF Closing
<1>4. PICK fd \in Fd : /\ fd = num /\ fdtab[fd].by = myid[p] /\ fdtab[fd].kind \in {"file", "dir"}
                       /\ Number(fd) = <<"file", num>>
  <2>1. <<"file", num>> \in Mine(p)
    BY <1>1, <1>3
  <2>2. <<"file", num>> # NoDir
    BY DEF NoDir
  <2> QED  BY <2>1, <2>2, HandleFound
<1>5. fsClose(myid[p], fd)
  BY <1>1, <1>4 DEF Dispatch
<1>6. CarefulInv'
  <2>1. OwnNext
    BY <1>2, <1>4, <1>5 DEF OwnNext, OwnClose
  <2> QED  BY <2>1, OwnStep DEF SystemInv
<1>7. CASE Refused(find_resource(resource_list, fd, NoPath), myid[p])
  <2>1. Coming(p)' = {}
    BY <1>1 DEF Coming, Granted
  <2>2. ret' = Again /\ UNCHANGED <<running, client_id>> /\ \A f \in Fd : Stays(f)
    BY <1>7, RefusedKeeps DEF SystemInv
  <2> QED  BY <1>1, <1>6, <2>1, <2>2, QuietCall
<1>8. CASE ClosePasses(myid[p], fd)
  <2>1. /\ fdtab' = [WithoutLock(myid[p], fdtab[fd].path) EXCEPT ![fd] = Closed]
        /\ UNCHANGED <<running, client_id>> /\ ret'.val = 0
    BY <1>4, <1>8 DEF ClosePasses, Answer
  <2>2. ret' # Again
    BY <2>1 DEF Again, EAGAIN
  <2>3. fdtab'[fd] = Closed /\ \A f \in Fd \ {fd} : Stays(f)
    BY <2>1, ClosedStay DEF SystemInv
  <2> QED  BY <1>1, <1>2, <1>3, <1>4, <1>6, <2>1, <2>2, <2>3, ReleasingCall
<1> QED  BY <1>5, <1>7, <1>8 DEF fsClose

\* fsReadDir and fsCloseDir of an open stream.
LEMMA StreamCallsKeep ==
  ASSUME SystemInv, makeCall, NEW p \in Proc, p = serving,
         call[p].op \in {"readdir", "closedir"}, call[p].num # -EAGAIN
  PROVE  SystemInv'
<1> DEFINE num == call[p].num
<1>1. /\ running /\ stage[p] = "sent" /\ Dispatch(myid[p], call[p])
      /\ UNCHANGED call /\ Mine(p) = Kept(p) \cup Closing(p)
  BY MakeCallLeaves
<1>2. myid[p] \in Client /\ myid[p] # 0 /\ Mounted(myid[p])
  BY <1>1, KnownClient
<1>3. PICK fd \in Fd : /\ fdtab[fd].by = myid[p] /\ fdtab[fd].handle = num
                       /\ fdtab[fd].kind = "stream" /\ Number(fd) = <<"dir", num>>
  <2>1. <<"dir", num>> \in Mine(p)
    <3>1. CASE call[p].op = "readdir"
      BY <3>1 DEF SystemInv, Asked, Mine
    <3>2. CASE call[p].op = "closedir"
      BY <1>1, <3>2 DEF Closing
    <3> QED  BY <3>1, <3>2
  <2>2. <<"dir", num>> # NoDir
    BY DEF NoDir
  <2> QED  BY <2>1, <2>2, HandleFound
<1>4. num \in DirHandles(myid[p])
  BY <1>3 DEF DirHandles
<1>5. find(open_dir_queue, num) # NoNode /\ find(open_dir_queue, num).dir = fd
  <2>1. fdtab[fd].handle \in 2 .. open_dir_id
    BY <1>3 DEF SystemInv, CarefulInv, ServerInv, EntryShape
  <2>2. find(open_dir_queue, num) = [id |-> num, dir |-> fd]
    BY <1>3 DEF SystemInv, CarefulInv, ServerInv, DirHandleResolves
  <2>3. num # 0
    BY <1>3, <2>1
  <2> QED  BY <2>2, <2>3 DEF NoNode
<1>6. Coming(p)' = {}
  BY <1>1 DEF Coming, Granted
<1>7. CASE call[p].op = "readdir"
  <2>1. fsReadDir(myid[p], num)
    BY <1>1, <1>7 DEF Dispatch
  <2>2. CarefulInv'
    <3>1. OwnNext
      BY <1>2, <1>4, <2>1 DEF OwnNext, CallReadDir
    <3> QED  BY <3>1, OwnStep DEF SystemInv
  <2>3. client_id' = client_id /\ UNCHANGED fdtab /\ running'
    BY <1>1, <1>5, <2>1 DEF fsReadDir, tables, kernel
  <2>4. Closing(p) = {}
    BY <1>7 DEF Closing
  <2> QED  BY <1>6, <1>7, <2>2, <2>3, <2>4, Same, QuietCall
<1>8. CASE call[p].op = "closedir"
  <2>1. fsCloseDir(myid[p], num)
    BY <1>1, <1>8 DEF Dispatch
  <2>2. CarefulInv'
    <3>1. OwnNext
      BY <1>2, <1>3, <2>1 DEF OwnNext, OwnCloseDir
    <3> QED  BY <3>1, OwnStep DEF SystemInv
  <2>3. CASE CloseDirRefused(myid[p])
    <3>1. ret' = Again /\ UNCHANGED <<running, client_id>> /\ \A f \in Fd : Stays(f)
      BY <2>3, RefusedKeeps DEF SystemInv, CloseDirRefused
    <3> QED  BY <1>1, <1>6, <1>8, <2>2, <3>1, QuietCall
  <2>4. CASE CloseDirPasses(myid[p], num)
    <3>1. /\ fdtab' = [WithoutLock(myid[p], fdtab[fd].path) EXCEPT ![fd] = Closed]
          /\ UNCHANGED <<running, client_id>> /\ ret'.val = 0
      BY <1>5, <2>4 DEF CloseDirPasses, Answer
    <3>2. ret' # Again
      BY <3>1 DEF Again, EAGAIN
    <3>3. Closing(p) = {Number(fd)}
      BY <1>3, <1>8 DEF Closing
    <3>4. fdtab[fd].kind # "closed"
      BY <1>3
    <3>5. fdtab'[fd] = Closed /\ \A f \in Fd \ {fd} : Stays(f)
      BY <3>1, ClosedStay DEF SystemInv
    <3> QED  BY <1>1, <1>2, <1>3, <1>8, <2>2, <3>1, <3>2, <3>3, <3>4, <3>5, ReleasingCall
  <2> QED  BY <1>5, <2>1, <2>3, <2>4 DEF fsCloseDir
<1> QED  BY <1>7, <1>8

\* fsReadDir and fsCloseDir of what a refused fsOpenDir returned.
LEMMA NoStreamCalls ==
  ASSUME SystemInv, makeCall, NEW p \in Proc, p = serving,
         call[p].op \in {"readdir", "closedir"}, call[p].num = -EAGAIN
  PROVE  SystemInv'
<1>1. /\ running /\ stage[p] = "sent" /\ Dispatch(myid[p], call[p])
      /\ UNCHANGED call /\ stage'[p] = "served"
  BY MakeCallLeaves
<1>2. find(open_dir_queue, call[p].num) = NoNode
  BY NoSuchStream DEF SystemInv
<1>3. Crash \/ CloseDirRefused(myid[p])
  <2>1. fsReadDir(myid[p], call[p].num) \/ fsCloseDir(myid[p], call[p].num)
    BY <1>1 DEF Dispatch
  <2> QED  BY <1>2, <2>1 DEF fsReadDir, fsCloseDir, CloseDirPasses
<1>4. Coming(p)' = {}
  BY <1>1 DEF Coming, Granted
<1>5. Closing(p) \subseteq {NoDir}
  BY DEF Closing, NoDir
<1>6. CASE Crash
  <2>1. CarefulInv' /\ UNCHANGED client_id /\ \A fd \in Fd : Stays(fd)
    BY <1>6, CrashKeeps DEF SystemInv
  <2>2. Cause(p)'
    BY <1>1 DEF Cause
  <2> QED  BY <1>4, <1>5, <2>1, <2>2, QuietCall
<1>7. CASE CloseDirRefused(myid[p])
  <2>1. CarefulInv' /\ UNCHANGED <<running, client_id>> /\ \A fd \in Fd : Stays(fd)
    BY <1>7, RefusedKeeps DEF SystemInv, CloseDirRefused
  <2> QED  BY <1>1, <1>4, <1>5, <2>1, QuietCall
<1> QED  BY <1>3, <1>6, <1>7

\* Any of the ten procedures.
LEMMA MakeCallStep ==
  ASSUME SystemInv, makeCall
  PROVE  SystemInv'
<1>1. PICK p \in Proc : p = serving
  BY DEF makeCall, Serving, SystemInv, SystemTypeOK
<1>2. Dispatch(myid[p], call[p])
  BY <1>1, MakeCallLeaves
<1>3. call[p].op \in {"mount", "unmount", "opendir", "readdir", "closedir", "open", "close",
                      "read", "write", "remove"}
  BY <1>2 DEF Dispatch
<1> QED  BY <1>1, <1>3, MountCalls, OpenDirCall, StreamCallsKeep, NoStreamCalls, OpenCall,
            CloseCall, DataCalls, RemoveCall

-----------------------------------------------------------------------------
(* Every step.                                                               *)

\* Nothing happens.
LEMMA StutterStep ==
  ASSUME SystemInv, UNCHANGED allvars
  PROVE  SystemInv'
<1>1. UNCHANGED <<tables, ret, running, kernel, fdtab, backlog, serving, stage, call, reply, myid,
                  handles, alive, client_id>>
  BY DEF allvars, server, kernel, rpc, client, app, tables
<1>2. CarefulInv'
  BY <1>1, OwnStep DEF SystemInv, vars
<1>3. \A d \in Proc : Undisturbed(d)
  BY <1>1 DEF Undisturbed
<1>4. \A d \in Proc : Mine(d)' = Mine(d) /\ Id(d)' = Id(d) /\ Asked(d)' /\ PathKept(d)'
  BY <1>1, <1>3, UndisturbedKeeps DEF SystemInv
<1>5. OwnId'
  BY <1>1, <1>4 DEF SystemInv, OwnId
<1>6. OpenIsMine' /\ MineIsOpen'
  BY <1>1, <1>4, SameClaims DEF SystemInv
<1>7. SystemTypeOK' /\ Sessions'
  BY <1>1 DEF SystemInv, SystemTypeOK, Sessions
<1>8. running' \/ \E d \in Proc : Cause(d)'
  BY <1>1 DEF SystemInv, Cause
<1> QED  BY <1>2, <1>4, <1>5, <1>6, <1>7, <1>8 DEF SystemInv

\* The invariant is preserved by every step of the system.
LEMMA SystemStep ==
  ASSUME SystemInv, [SystemNext]_allvars
  PROVE  SystemInv'
<1>1. CASE UNCHANGED allvars
  BY <1>1, StutterStep
<1>2. CASE Server
  <2>1. CASE accept
    BY <2>1, AcceptStep
  <2>2. CASE makeCall
    BY <2>2, MakeCallStep
  <2>3. CASE returnResult
    BY <2>3, ReturnResultStep
  <2>4. CASE recvCallFails \/ returnResultFails
    <3>1. serving \in Proc /\ Cause(serving) /\ Exit
      BY <2>4 DEF recvCallFails, returnResultFails, Serving, Cause, SystemInv, SystemTypeOK
    <3> QED  BY <3>1, ExitStep
  <2> QED  BY <1>2, <2>1, <2>2, <2>3, <2>4 DEF Server
<1>3. ASSUME NEW c \in Proc,
             \/ Application(c)
             \/ connect(c) \/ send(c) \/ Retry(c) \/ Return(c)
             \/ ConnectionLost(c) \/ Killed(c)
      PROVE  SystemInv'
  <2>1. CASE Application(c)
    BY <2>1, ApplicationStep
  <2>2. CASE connect(c)
    BY <2>2, ConnectStep
  <2>3. CASE send(c)
    BY <2>3, SendStep
  <2>4. CASE Retry(c)
    BY <2>4, RetryStep
  <2>5. CASE Return(c)
    BY <2>5, ReturnStep
  <2>6. CASE ConnectionLost(c) \/ Killed(c)
    <3>1. Dies(c)
      BY <2>6 DEF ConnectionLost, Killed
    <3> QED  BY <3>1, DiesStep
  <2> QED  BY <1>3, <2>1, <2>2, <2>3, <2>4, <2>5, <2>6
<1> QED  BY <1>1, <1>2, <1>3 DEF SystemNext

-----------------------------------------------------------------------------
(* The theorems.                                                             *)

\* The invariant holds, whoever dies and in whatever order the calls arrive.
LEMMA SystemAlways == SystemSpec => []SystemInv
<1>1. SystemInv /\ [SystemNext]_allvars => SystemInv'
  BY SystemStep
<1> QED  BY <1>1, Initially, PTL DEF SystemSpec

\* A file handle that the API returned is that of a descriptor open for the
\* process, on the path that it asked for or on one that it has itself unlocked.
LEMMA FileHandle ==
  ASSUME SystemInv, NEW c \in Proc, NEW h \in handles[c], h.type = "file"
  PROVE  /\ h.num \in Fd /\ h.path \in Path
         /\ fdtab[h.num].by = myid[c] /\ fdtab[h.num].kind \in {"file", "dir"}
         /\ fdtab[h.num].path = h.path \/ fdtab[h.num].unlocked \/ clash
<1>1. <<"file", h.num>> \in Mine(c)
  <2>1. <<h.type, h.num>> \in Kept(c)
    BY DEF Kept
  <2> QED  BY <2>1 DEF Mine
<1>2. <<"file", h.num>> # NoDir
  BY DEF NoDir
<1>3. PICK fd \in Fd : /\ fdtab[fd].by = myid[c] /\ h.num = fd
                       /\ Number(fd) = <<"file", h.num>> /\ fdtab[fd].kind \in {"file", "dir"}
  BY <1>1, <1>2, HandleFound
<1>4. PathKept(c)
  BY DEF SystemInv
<1>5. fdtab[fd].path \in {h.path, NoPath}
  BY <1>3, <1>4 DEF PathKept
<1>6. clash \/ (fdtab[fd].path = NoPath => fdtab[fd].unlocked)
  BY <1>3 DEF SystemInv, CarefulInv, NamelessIsUnlocked, Linked
<1>7. h.path \in Path
  BY DEF SystemInv, SystemTypeOK
<1> QED  BY <1>3, <1>5, <1>6, <1>7

\* Whatever the server does between its answer and the answer's arrival, a file
\* handle is good when the application gets it, and stays so until it is given
\* back (fs_client_api.c).
THEOREM HandlesAreOpen == SystemSpec => []HandleIsOpen
<1>1. SystemInv => HandleIsOpen
  BY FileHandle DEF HandleIsOpen
<1> QED  BY <1>1, SystemAlways, PTL

\* Two processes never both have a file open, unless one has given the lock away:
\* the lock that the server takes for one is refused to the other.
THEOREM FilesAreExclusive == SystemSpec => []FilesExclusive
<1>1. ASSUME SystemInv, ~clash, NEW c \in Proc, NEW d \in Proc,
             NEW h \in handles[c], NEW g \in handles[d],
             h.type = "file", g.type = "file", h.path = g.path,
             ~ fdtab[h.num].unlocked, ~ fdtab[g.num].unlocked
      PROVE  c = d
  <2>1. /\ h.num \in Fd /\ h.path \in Path
        /\ fdtab[h.num].by = myid[c] /\ fdtab[h.num].path = h.path
    BY <1>1, FileHandle
  <2>2. g.num \in Fd /\ fdtab[g.num].by = myid[d] /\ fdtab[g.num].path = g.path
    BY <1>1, FileHandle
  <2>3. Linked(h.num) /\ Linked(g.num)
    BY <1>1, <2>1, <2>2, NoPathAssumption DEF Linked
  <2>4. fdtab[h.num].by = fdtab[g.num].by
    BY <1>1, <2>1, <2>2, <2>3 DEF SystemInv, CarefulInv, DescriptorCovered
  <2>5. myid[c] # 0
    BY <1>1 DEF SystemInv, Asked
  <2>6. Id(c) = Id(d) /\ Id(c) # 0
    BY <2>1, <2>2, <2>4, <2>5 DEF Id
  <2> QED  BY <1>1, <2>6 DEF SystemInv, OwnId
<1>2. SystemInv => FilesExclusive
  BY <1>1 DEF FilesExclusive
<1> QED  BY <1>2, SystemAlways, PTL

\* When nobody is in a call and nobody has a handle, no lock is left but those
\* of open() calls that failed and of streams that fsOpenDir lost: no release is
\* lost on its way.
THEOREM QuietIsUnlocked == SystemSpec => []QuietMeansUnlocked
<1>1. ASSUME SystemInv, ~clash, \A c \in Proc : stage[c] = "idle" /\ handles[c] = {},
             NEW i \in DOMAIN resource_list, resource_list[i].fd # -1
      PROVE  Garbage /\ \E fd \in Fd :
               /\ Has(resource_list[i].id, fd, resource_list[i].path)
               /\ fdtab[fd].kind = "stream" /\ fdtab[fd].handle = resource_list[i].fd
  <2>1. PICK fd \in Fd : /\ Has(resource_list[i].id, fd, resource_list[i].path)
                         /\ fdtab[fd].handle = resource_list[i].fd
    BY <1>1 DEF SystemInv, CarefulInv, LocksBacked
  <2>2. fdtab[fd].kind # "closed"
    BY <1>1, <2>1 DEF Has, SystemInv, CarefulInv, ServerInv, EntryShape
  <2>3. PICK c \in Proc : Number(fd) \in Mine(c) \/ (Garbage /\ fdtab[fd].kind = "stream")
    BY <1>1, <2>2 DEF SystemInv, OpenIsMine
  <2>4. Kept(c) = {} /\ Coming(c) = {}
    BY <1>1 DEF Kept, Coming, Done
  <2>5. Closing(c) = {}
    <3>1. call[c] = NoCall
      BY <1>1 DEF SystemInv, Asked
    <3> QED  BY <3>1 DEF Closing, NoCall
  <2> QED  BY <2>1, <2>3, <2>4, <2>5 DEF Mine, Leaving
<1>2. SystemInv => QuietMeansUnlocked
  BY <1>1 DEF QuietMeansUnlocked
<1> QED  BY <1>2, SystemAlways, PTL

\* The server runs until a process dies, a read() fails, an fsWrite of no bytes is
\* made or the -EAGAIN of a refused fsOpenDir comes back as a handle.
THEOREM ServerEndsForACause == SystemSpec => []EndsForACause
<1>1. SystemInv => EndsForACause
  BY DEF SystemInv, Cause, EndsForACause
<1> QED  BY <1>1, SystemAlways, PTL

-----------------------------------------------------------------------------
====
