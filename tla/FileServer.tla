----------------------------- MODULE FileServer -----------------------------
(* The file server of assignment 4 (4/server.c): the ten registered          *)
(* procedures, the lock list, the directory streams, and the part of the     *)
(* kernel they drive (descriptors and names).  The server is single-threaded *)
(* (4/simplified_rpc/server_stub.c), so a handler is one step; what          *)
(* interleaves are the calls of the clients.                                 *)
EXTENDS ResourceList

CONSTANTS
  MaxClients,   \* bound on fsMount calls
  MaxDirId,     \* bound on open_dir_id
  MaxFd,        \* the highest descriptor the process may use
  Careful       \* do clients use only the handles they were given?

ASSUME ServerAssumption ==
  /\ MaxClients \in Nat /\ MaxDirId \in Nat /\ MaxFd \in Nat
  /\ Careful \in BOOLEAN

VARIABLES
  client_id,        \* last id given to a client
  open_dir_id,      \* last id given to a directory stream
  open_dir_queue,   \* streams opened so far, newest first
  resource_list,    \* the locks, newest first
  ret,              \* the answer of the last call
  running,          \* FALSE once the process has died
  fdtab,            \* kernel: the descriptors of the server
  disk,             \* kernel: what each path names
  clash             \* history: see Opened

tables  == <<client_id, open_dir_id, open_dir_queue, resource_list>>
kernel  == <<fdtab, disk, clash>>
vars    == <<tables, ret, running, kernel>>

-----------------------------------------------------------------------------
(* The kernel, as far as the handlers use it. *)

\* 0..2 are the standard streams, 3 listens, 4 is the connection being served.
FirstFd == 5

ENOENT == 2
EBADF  == 9
EAGAIN == 11
EACCES == 13   \* stands for every other errno of open() and remove()
EISDIR == 21
EMFILE == 24

Client == 1..MaxClients
Fd     == FirstFd..MaxFd
DirId  == 2..MaxDirId

\* An entry remembers the name it was opened by (NoPath once unlinked), the
\* client that opened it, the number this client was given for it, and whether
\* this client has since given the lock of the name away: see WithoutLock.
Entry == [kind : {"closed", "file", "dir", "stream"}, mode : {0, 1},
          path : Path \cup {NoPath}, by : Nat, handle : Nat, unlocked : BOOLEAN]

Closed == [kind |-> "closed", mode |-> 0, path |-> NoPath,
           by |-> 0, handle |-> 0, unlocked |-> FALSE]

FreeFds == {fd \in Fd : fdtab[fd].kind = "closed"}

Linked(fd) == fdtab[fd].path # NoPath

Has(id, fd, path) == Linked(fd) /\ fdtab[fd].by = id /\ fdtab[fd].path = path

\* The errno that open(path, flags(mode)) must fail with, 0 if it may succeed.
open_errno(mode, path) ==
  IF FreeFds = {} THEN EMFILE
  ELSE IF disk[path] = "none" /\ mode = 0 THEN ENOENT
  ELSE IF disk[path] = "dir" /\ mode = 1 THEN EISDIR
  ELSE 0

\* A descriptor is taken for client id, which is given the number num for it.
\* From then on clash says whether a client was ever given a number that an
\* open handle of its own had already: ids of streams and descriptors are
\* counted apart.
Opened(fd, kind, mode, path, id, num) ==
  /\ fdtab' = [fdtab EXCEPT ![fd] = [kind |-> kind, mode |-> mode, path |-> path,
                                     by |-> id, handle |-> num, unlocked |-> FALSE]]
  /\ clash' = (clash \/ \E f \in Fd : fdtab[f].by = id /\ fdtab[f].handle = num)

\* A lock belongs to a path and not to a handle: a client that removes a path,
\* even in vain, or closes one of its handles on it, may leave its other
\* handles on the path without the lock.
WithoutLock(id, path) ==
  [fd \in Fd |-> IF Has(id, fd, path)
                 THEN [fdtab[fd] EXCEPT !.unlocked = TRUE] ELSE fdtab[fd]]

\* After client id has removed a path: what is open on it has no name any more.
Unlinked(id, path) ==
  [fd \in Fd |-> IF fdtab[fd].path = path
                 THEN [WithoutLock(id, path)[fd] EXCEPT !.path = NoPath] ELSE fdtab[fd]]

-----------------------------------------------------------------------------
(* What the handlers share. *)

Answer(kind, val) == ret' = [kind |-> kind, val |-> val]

\* The early return of every handler that meets another client's record.
Refused(res, id) ==
  /\ HeldByOther(res, id)
  /\ Answer("int", -EAGAIN)
  /\ UNCHANGED <<tables, running, kernel>>

\* A NULL dereference or a copy of (size_t)-1 bytes: the process dies.
Crash ==
  /\ running' = FALSE
  /\ UNCHANGED <<tables, ret, kernel>>

\* Mutants: the old record is kept, a locked path gets no new record, and the
\* flags of open() are stored for the lock type.
RelockTwice(lock, id, fd, path) ==
  resource_list' = add_resource(resource_list, lock, id, fd, path)

RelockForgets(lock, id, fd, path) ==
  resource_list' = IF find_resource(resource_list, 0, path) = NoResource
                   THEN add_resource(resource_list, lock, id, fd, path)
                   ELSE remove_resource(resource_list, id, 0, path)

RelockFlags(lock, id, fd, path) ==
  resource_list' = add_resource(resource_list, 65 * lock, id, fd, path)

\* The new record goes to the front, then "the old one" is removed.
Relock(lock, id, fd, path) ==
  LET added == add_resource(resource_list, lock, id, fd, path)
  IN  resource_list' = IF find_resource(resource_list, 0, path) = NoResource
                       THEN added ELSE remove_resource(added, id, 0, path)

\* Mutant: the id is not incremented after the first stream.
SameDirId == 2

NewDirId == open_dir_id + 1

NoNode == [id |-> 0, dir |-> 0]

\* Mutant: the loop ends after the newest node.
findNewest(n, id) == IF n # <<>> /\ n[1].id = id THEN n[1] ELSE NoNode

\* find of queue.c.
find(n, id) ==
  LET i == SelectInSeq(n, LAMBDA node : node.id = id)
  IN  IF i = 0 THEN NoNode ELSE n[i]

-----------------------------------------------------------------------------
fsMount ==
  /\ client_id < MaxClients
  /\ client_id' = client_id + 1
  /\ Answer("mount", client_id')
  /\ UNCHANGED <<open_dir_id, open_dir_queue, resource_list, running, kernel>>

fsUnmount(id) ==
  /\ Answer("null", 0)
  /\ UNCHANGED <<tables, running, kernel>>

\* opendir() may fail on any path, for want of permission or memory.
OpenDirFails(id, path) ==
  /\ ~HeldByOther(find_resource(resource_list, 0, path), id)
  /\ Answer("null", 0)
  /\ UNCHANGED <<tables, running, kernel>>

OpenDirSucceeds(id, path) ==
  LET fd == Min(FreeFds)
      d  == NewDirId
  IN  /\ ~HeldByOther(find_resource(resource_list, 0, path), id)
      /\ disk[path] = "dir" /\ FreeFds # {}
      /\ d <= MaxDirId
      /\ open_dir_id' = d
      /\ open_dir_queue' = Cons([id |-> d, dir |-> fd], open_dir_queue)
      /\ Opened(fd, "stream", 0, path, id, d)
      /\ Relock(1, id, d, path)
      /\ Answer("int", d)
      /\ UNCHANGED <<client_id, running, disk>>

fsOpenDir(id, path) ==
  \/ Refused(find_resource(resource_list, 0, path), id)
  \/ OpenDirFails(id, path)
  \/ OpenDirSucceeds(id, path)

fsReadDir(id, d) ==
  \/ find(open_dir_queue, d) = NoNode /\ Crash
  \/ /\ find(open_dir_queue, d) # NoNode
     /\ Answer("dirent", 0) \/ Answer("null", 0)
     /\ UNCHANGED <<tables, running, kernel>>

\* The lock check reads freshly allocated memory before the handle is copied
\* into it: it may find any record, or none.
CloseDirRefused(id) ==
  \E garbage \in {resource_list[i].fd : i \in DOMAIN resource_list} :
    Refused(find_resource(resource_list, garbage, NoPath), id)

CloseDirPasses(id, d) ==
  LET fd == find(open_dir_queue, d).dir
  IN  /\ find(open_dir_queue, d) # NoNode
      /\ fdtab' = [WithoutLock(id, fdtab[fd].path) EXCEPT ![fd] = Closed]
      /\ resource_list' = remove_resource(resource_list, id, d, NoPath)
      /\ Answer("int", 0)
      /\ UNCHANGED <<client_id, open_dir_id, open_dir_queue, running, disk, clash>>

fsCloseDir(id, d) ==
  \/ CloseDirRefused(id)
  \/ find(open_dir_queue, d) = NoNode /\ Crash
  \/ CloseDirPasses(id, d)

\* The record goes whether or not remove() succeeds.
Unlock(id, path) ==
  /\ ~HeldByOther(find_resource(resource_list, 0, path), id)
  /\ resource_list' = remove_resource(resource_list, id, 0, path)
  /\ UNCHANGED <<client_id, open_dir_id, open_dir_queue, running>>

RemoveSucceeds(id, path) ==
  /\ Unlock(id, path)
  /\ disk[path] # "none"
  /\ disk' = [disk EXCEPT ![path] = "none"]
  /\ fdtab' = Unlinked(id, path)
  /\ Answer("int", 0)
  /\ UNCHANGED clash

\* remove() may fail on any path that exists.
RemoveFails(id, path) ==
  /\ Unlock(id, path)
  /\ fdtab' = WithoutLock(id, path)
  /\ Answer("int", IF disk[path] = "none" THEN -ENOENT ELSE -EACCES)
  /\ UNCHANGED <<disk, clash>>

fsRemove(id, path) ==
  \/ Refused(find_resource(resource_list, 0, path), id)
  \/ RemoveSucceeds(id, path)
  \/ RemoveFails(id, path)

OpenSucceeds(id, mode, path) ==
  LET fd   == Min(FreeFds)
      kind == IF disk[path] = "dir" THEN "dir" ELSE "file"
  IN  /\ ~HeldByOther(find_resource(resource_list, 0, path), id)
      /\ open_errno(mode, path) = 0
      /\ Opened(fd, kind, mode, path, id, fd)
      /\ disk' = [disk EXCEPT ![path] = kind]
      /\ Relock(mode, id, fd, path)
      /\ Answer("int", fd)
      /\ UNCHANGED <<client_id, open_dir_id, open_dir_queue, running>>

\* A record is added for the descriptor -1 all the same.
OpenFails(id, mode, path) ==
  /\ ~HeldByOther(find_resource(resource_list, 0, path), id)
  /\ Relock(mode, id, -1, path)
  /\ Answer("int", IF open_errno(mode, path) # 0 THEN -open_errno(mode, path) ELSE -EACCES)
  /\ UNCHANGED <<client_id, open_dir_id, open_dir_queue, running, kernel>>

fsOpen(id, mode, path) ==
  \/ Refused(find_resource(resource_list, 0, path), id)
  \/ OpenSucceeds(id, mode, path)
  \/ OpenFails(id, mode, path)

ClosePasses(id, fd) ==
  /\ ~HeldByOther(find_resource(resource_list, fd, NoPath), id)
  /\ fdtab' = [WithoutLock(id, fdtab[fd].path) EXCEPT ![fd] = Closed]
  /\ Answer("int", IF fdtab[fd].kind = "closed" THEN -EBADF ELSE 0)
  /\ resource_list' = remove_resource(resource_list, id, fd, NoPath)
  /\ UNCHANGED <<client_id, open_dir_id, open_dir_queue, running, disk, clash>>

fsClose(id, fd) ==
  \/ Refused(find_resource(resource_list, fd, NoPath), id)
  \/ ClosePasses(id, fd)

\* No lock check; a read() that fails makes the copy of the answer crash.
fsRead(id, fd) ==
  LET readable == fdtab[fd].kind = "file" /\ fdtab[fd].mode = 0
  IN  \/ ~readable /\ Crash
      \/ /\ readable
         /\ Answer("data", 0)
         /\ UNCHANGED <<tables, running, kernel>>

\* The number of bytes written is abstracted to 1.
fsWrite(id, fd) ==
  LET res      == find_resource(resource_list, fd, NoPath)
      writable == fdtab[fd].kind = "file" /\ fdtab[fd].mode = 1
  IN  \/ Refused(res, id)
      \/ /\ ~HeldByOther(res, id)
         /\ Answer("int", IF writable THEN 1 ELSE -EBADF)
         /\ UNCHANGED <<tables, running, kernel>>

-----------------------------------------------------------------------------
(* What the clients may ask for.  Any client opens and removes any path as   *)
(* often as it likes.  A careful one uses the handles it was given and has   *)
(* not closed; a careless one uses any descriptor that is not a stream's, and *)
(* also takes the -EAGAIN that a refused fsOpenDir returns (fs_client_api.c)  *)
(* for a directory handle.                                                   *)

MayUse(id, fd) ==
  /\ fdtab[fd].kind # "stream"
  /\ Careful => fdtab[fd].kind # "closed" /\ fdtab[fd].by = id

DirHandles(id) ==
  {fdtab[fd].handle : fd \in {f \in Fd : fdtab[f].kind = "stream" /\ fdtab[f].by = id}}
    \cup (IF Careful THEN {} ELSE {-EAGAIN})

Init ==
  /\ client_id = 0 /\ open_dir_id = 1
  /\ open_dir_queue = <<>> /\ resource_list = <<>>
  /\ ret = [kind |-> "null", val |-> 0]
  /\ running = TRUE
  /\ fdtab = [fd \in Fd |-> Closed]
  /\ disk \in [Path -> {"none", "file", "dir"}]
  /\ clash = FALSE

Mounted(id) == running /\ id <= client_id

CallMount             == running /\ fsMount
CallUnmount(id)       == Mounted(id) /\ fsUnmount(id)
CallOpenDir(id, path) == Mounted(id) /\ fsOpenDir(id, path)
CallReadDir(id)       == Mounted(id) /\ \E d \in DirHandles(id) : fsReadDir(id, d)
CallCloseDir(id)      == Mounted(id) /\ \E d \in DirHandles(id) : fsCloseDir(id, d)
CallRemove(id, path)  == Mounted(id) /\ fsRemove(id, path)
CallOpen(id, path)    == Mounted(id) /\ \E mode \in {0, 1} : fsOpen(id, mode, path)
CallClose(id, fd)     == Mounted(id) /\ MayUse(id, fd) /\ fsClose(id, fd)
CallRead(id, fd)      == Mounted(id) /\ MayUse(id, fd) /\ fsRead(id, fd)
CallWrite(id, fd)     == Mounted(id) /\ MayUse(id, fd) /\ fsWrite(id, fd)

Next ==
  \/ CallMount
  \/ \E id \in Client :
       \/ CallUnmount(id) \/ CallReadDir(id) \/ CallCloseDir(id)
       \/ \E path \in Path :
            CallOpenDir(id, path) \/ CallRemove(id, path) \/ CallOpen(id, path)
       \/ \E fd \in Fd :
            CallClose(id, fd) \/ CallRead(id, fd) \/ CallWrite(id, fd)

Spec == Init /\ [][Next]_vars

-----------------------------------------------------------------------------
(* Types. *)

Node == [id : DirId, dir : Fd]

TypeOK ==
  /\ client_id \in 0..MaxClients
  /\ open_dir_id \in {1} \cup DirId
  /\ open_dir_queue \in Seq(Node)
  /\ resource_list \in Seq(Resource)
  /\ ret \in [kind : {"null", "int", "mount", "dirent", "data"}, val : Int]
  /\ running \in BOOLEAN
  /\ fdtab \in [Fd -> Entry]
  /\ disk \in [Path -> {"none", "file", "dir"}]
  /\ clash \in BOOLEAN

-----------------------------------------------------------------------------
(* Whatever the clients do. *)

\* A path is locked at most once, although fsOpen and fsOpenDir add a record
\* before they remove one and a failed open() adds a record too.
OneRecordPerPath == OnePerPath(resource_list)

Locks == INSTANCE PathLock WITH
  holder <- [p \in Path |-> HolderOf(resource_list, p)]

\* The list is a lock per path: no call moves a lock from one client to
\* another, and none touches two locks.
ImplementsPathLock == Locks!Spec

\* The handle of an open directory leads back to its own stream, although
\* nodes of closed streams, whose descriptors are used again, stay in the queue.
DirHandleResolves ==
  \A fd \in Fd : fdtab[fd].kind = "stream" =>
    find(open_dir_queue, fdtab[fd].handle) = [id |-> fdtab[fd].handle, dir |-> fd]

-----------------------------------------------------------------------------
(* With careful clients, and while none of them has been given one number    *)
(* for two open handles.  The locks belong to paths and the calls that       *)
(* release them name paths or numbers, so what is left of a lock when one    *)
(* client opens a path twice, removes what it has open, or removes in vain   *)
(* is said here too.                                                         *)

\* What the locks are for: two clients never have the same file or directory
\* open at the same time, unless one of them has given the lock away itself, by
\* an fsRemove of the path or the close of another handle on it.
ExclusiveDescriptors ==
  ~clash => \A f, g \in Fd :
    Linked(f) /\ Linked(g) /\ fdtab[f].path = fdtab[g].path =>
      fdtab[f].by = fdtab[g].by \/ fdtab[f].unlocked \/ fdtab[g].unlocked

\* A client keeps the lock of a path for as long as it has it open: only its own
\* calls take it away, never an open that is refused or fails, another client's
\* call, or a close of a handle on another path.
DescriptorCovered ==
  ~clash => \A fd \in Fd : Linked(fd) /\ ~fdtab[fd].unlocked =>
    HolderOf(resource_list, fdtab[fd].path) = fdtab[fd].by

\* A lock is released when its handle is closed: the handle a record names is
\* still open, by the client and on the path of the record.  (A record of a
\* failed open() names none.)
LocksBacked ==
  ~clash => \A i \in DOMAIN resource_list :
    LET res == resource_list[i] IN
      res.fd # -1 => \E fd \in Fd : Has(res.id, fd, res.path) /\ fdtab[fd].handle = res.fd

\* The search by descriptor never refuses a client its own descriptor, unless
\* the number is also that of a directory another client has open.
OwnerNotRefused ==
  ~clash => \A fd \in Fd : fdtab[fd].kind \in {"file", "dir"} =>
    \/ ~HeldByOther(find_resource(resource_list, fd, NoPath), fdtab[fd].by)
    \/ \E f \in Fd : /\ fdtab[f].kind = "stream" /\ fdtab[f].handle = fd
                     /\ fdtab[f].by # fdtab[fd].by

-----------------------------------------------------------------------------
(* What comments in the code say of it.                                      *)


=============================================================================
