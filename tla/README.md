# A verification development for the ece454 programs

The repository holds the course work of ECE 454. Its main program is
assignment 4: a file server with a lock per path, a client library that makes
the server's files look local, and the simplified RPC both are built on.
Assignment 1 is an earlier RPC over UDP. Assignments 2, 3, 5 and 6 are texts.
This directory models both assignments in TLA+, checks the models with TLC and
proves with TLAPS what holds of them for every number of clients, files,
descriptors, ports and calls.

Paths below are relative to `src/`.

## Inventory

| part | state | operations | interacts through |
|---|---|---|---|
| lock list (`4/server.c:55-111`) | `resource_list` | `find_resource`, `remove_resource`, `add_resource` | called by the handlers |
| file server (`4/server.c:113-481`, `4/queue.c`) | `client_id`, `open_dir_id`, `open_dir_queue`, `ret`, the process's descriptors | ten procedures `fsMount` ... `fsRemove` | called by the server stub, calls the kernel |
| client API (`4/fs_client_api.c`) | `id`, the mount, the handles it returned | the same ten, most in a loop on `-EAGAIN` | `make_remote_call` |
| `str_replace` (`4/fs_client_api.c:24-51`) | two buffers and the place reached in one | one turn of its loop; three functions of the API call it | called by the API |
| RPC over TCP (`4/simplified_rpc`: `client_stub.c`, `server_stub.c`, `helper.c`) | the list of procedures, the listening socket and its queue, the connection being served, what is allocated for the call | `connect`/`send`/`recv`; `accept`, `recvCall`, `makeCall`, `returnResult` | streams of bytes |
| start-up (`mybind.c` of both, `getPublicIPAddr`, first part of both `launch_server`) | the socket, `sin_port`, what is printed | one turn of the loop over the ports, the loop over the interfaces | the ports of the host, shared by all servers |
| RPC over UDP (`1/client_stub.c`, `1/server_stub.c`, `1/queue.c`) | list of procedures, list of arguments | a datagram each way, from a new socket for every call | datagrams |
| sample programs (`1/client.c`, `1/server.c`, `4/simplified_rpc/sample_*`, `4/fs_client.c`) | none | fixed scripts | the API, both RPCs |

Both servers are single-threaded: they take one request, run its procedure and
answer. A procedure is therefore atomic, and what can go wrong lies in the order
of calls of several clients, in what a call that failed leaves behind, in how
bytes and datagrams arrive, and in processes that die.

What makes each part correct:

- lock list: at most one record of a path; a call acquires or releases at most
  one lock, and only for the client that made it;
- file server: a handle that is open is covered by its client's lock until that
  client gives the lock away, and a lock names an open handle; two clients do not
  have one path open unless one of them gave its lock away; a client is not
  refused its own descriptor; a directory handle finds its own stream;
- client API: the handle a call returns is still good when it arrives, however
  many calls of others come in between; every call returns;
- `str_replace`: every occurrence that one pass finds is replaced, within its
  buffers, and the loop ends;
- both RPCs: a call runs the procedure registered last under its name, on its
  own arguments, at most once, and returns that result and no other; each block
  of memory is freed once; the server ends for no reason but the known ones;
- start-up: a server announces the port it is bound to and the address of an
  interface other than loopback; `mybind()` gives up only when no port is free.

`PROJECT.json` lists the hazards line by line, with the properties that watch
each of them.

## Modules

| module | models |
|---|---|
| `ResourceList` | the lock list as operators on a sequence of records |
| `PathLock` | abstract: one exclusive lock per path, `Acquire` and `Release` |
| `FileServer`, `MCFileServer` | the ten handlers, the directory streams, descriptors and names |
| `FileSystem`, `MCFileSystem` | client processes (API and client stub), the listen queue and the server stub, whole messages, composed with `FileServer` |
| `PathNames`, `MCPathNames` | `str_replace` and the calls made of it |
| `Procedures` | what the sample servers register, on sequences of bytes |
| `SampleSession` | the calls of `sample_client_app.c` in their order |
| `RemoteCall` | abstract: a call is executed at most once and returns that result |
| `StreamRPC`, `MCStreamRPC` | the RPC over TCP, byte by byte |
| `DatagramRPC`, `MCDatagramRPC` | the RPC over UDP, and its network |
| `StartUp`, `MCStartUp` | the servers of one host that look for ports and addresses |
| `DataLemmas` | lemmas: least elements, bounded induction, cutting and joining sequences, numbers in digits |
| `FileServerProofs` | theorems about the list's operators, and about any use and careful use of the file server |
| `FileSystemProofs` | theorems about the processes that use it through the API |
| `StreamProofs`, `DatagramProofs` | theorems about the two RPCs |
| `StartUpProofs` | theorems about the start-up |
| `PathNamesProofs` | theorems about `str_replace` |
| `SampleSessionProofs` | theorems about the sample procedures |

### FileServer

It keeps the C globals under their names. `resource_list` and
`open_dir_queue` are sequences, newest first, because both C lists are pushed
at the head and searched from it. `fdtab` is the server process's descriptor
table: descriptors 0-4 are taken (standard streams, the listening socket, the
connection being served), so `FirstFd` is 5 and `open()` returns the lowest free
one. An entry records the name it was opened by (until `remove()` unlinks it),
the client, the number that client was given for it (the descriptor, or a
directory id), and whether the client has since given the lock of the name away
(`unlocked`). These four are history, read by properties and by the choice of
calls only, and so is `clash`: whether a client was ever given a number that an
open handle of its own had already. `disk` says what each path names.

`opendir()` and `open()` may fail on any path, and `remove()` on any path that
exists, for reasons the model does not look into (`EACCES` stands for them).

Each handler is one operator, split where the code returns early:
`fsOpen == Refused \/ OpenSucceeds \/ OpenFails`. The order inside is the
code's: `Relock` adds the new record in front and only then removes the first
record with that path and client, as `fsOpen` and `fsOpenDir` do. The lock check
of `fsCloseDir` compares memory just allocated, so `CloseDirRefused` lets it be
any number in the list. A NULL dereference, or a copy of `(size_t)-1` bytes,
ends the process (`Crash`).

Any client opens and removes any path as often as it likes, also one it has open.
`Careful` says which handles it uses: a careful client those it was given and has
not closed, a careless one any descriptor that is not a stream's, and the -11 it
took for a directory handle.

Locks belong to paths, and the calls that release them name paths or numbers. So
a client that opens a path twice and closes one handle, or removes a path that it
has open (in vain or not: `server.c:298` drops the record either way), goes on
with a handle that has no lock. The properties follow that: `WithoutLock` marks
the handles that a client's own call leaves bare, and what is promised, is
promised of the others.

### FileSystem

It replaces those free calls by processes. A process is in a stage of
`make_remote_call`: `idle`, `connecting`, `connected`, `sent`, `served`,
`answered`. `accept`, `makeCall` and `returnResult` are the server's loop;
`makeCall` runs the handler of `FileServer`. `Retry` is the loop on `-EAGAIN`
(for `fsOpenDir`, the loop on an uninitialised `val`, when `Garbage`); `Return`
ends the call and gives the application its handle. `Killed` ends a process at
any moment; the server then leaves through `exit(1)` when it meets the dead
connection (`recvCallFails`, `returnResultFails`), and a client does so when the
server is gone (`ConnectionLost`). An `fsWrite` of no bytes (`writeNothing`) is
an argument of size 0, on which `recvCall` exits too. `Follows` says which paths
a process may open while it has another one, or the same one, open; it removes
any path, and uses only handles that the API returned to it.

Abstractions: paths are model values, each the only name of its file; contents,
lengths and counts of data are left out (a write that works answers 1); a
directory entry is an answer of kind `dirent` without contents, and `readdir`
ends whenever it likes; a request
and an answer are each one step, which `StreamRPC` justifies.

### StreamRPC

A connection is a sequence of bytes in flight each way (`up`, `down`), at most
`Room` of them. One `send()` moves any part of what is left into it, one
`recv()` takes any part of what has arrived, so the loops of `sendbytes` and
`recvbytes` are `sendbytes`, `recvbytes`, `recvSome` and `returnResult`.
`recvCall` is the sequence of fields it reads (`want`), each with its length
(`need`) and what is there of it (`got`). `heap` holds the blocks allocated for
the call: it grows where the code calls `malloc` and loses `Freed` at the end of
the turn. A client may be killed at any byte; what it had sent is still read.

### DatagramRPC

`net` is the set of datagrams on their way: they overtake each other (any may be
taken next), are lost (`Loses`, if `Lossy`), and are duplicated up to
`MaxCopies` times. An answer goes to the port its request came from, and
the kernel gives out any port that no socket has (`FreePort`), also one that
datagrams of an earlier call are on their way from or to; `crossed` holds the
clients whose present call got such a port. `tag`, `crossed`, `executed`,
`returned` and `lossless` are history, which no action of the programs reads.
`lost` counts the buffers that `append()` copies and nothing frees. The empty
answer for an unknown name leaves the size of the result to what the client's
buffer held: the client returns something (`Unset`) or dies (`recvCrashes`).

### StartUp, PathNames, SampleSession

`StartUp` has one action for each turn of `mybind()`'s loop (`binds`,
`continues`, `fails`), with `sin_port` kept in network byte order, 16 bits wide,
and the ports of the two protocols apart. `socket()` may fail, which the server of
assignment 1 sees at once and that of the simplified RPC leaves to `mybind()`
(`rejects`); `getifaddrs()`, `getnameinfo()` and `listen()` may fail too
(`findsNoHost`, `listenFails`). The address is `getPublicIPAddr` for
the servers of assignment 4, and the loop over the interfaces, which ends at
`eth0`, for those of assignment 1. `PathNames` has one turn of `str_replace` per
step, with the buffer it allocates and the three copies into it, uninitialised
characters included. `memcpy` writes where it is told: behind the end of its block
it makes the block longer, which `StaysInBlock` looks at. Before any `fsMount` the
mounted folder is `NULL`, and `duplicates` returns the string as it is. `SampleSession` calls the procedures of
`sample_server_app.c` as the sample client does.

## Runs

| run | question | bounds, and why they are enough |
|---|---|---|
| `AnyUse` | Does the list stay a lock per path under any use? | 2 clients, 2 paths, one descriptor, two directory ids: enough to reopen a path, to find the table full, and for each client to meet the other's record |
| `CarefulUse` | Are locks and open handles in step? | 2 clients, 2 paths, 2 descriptors, from a server that has opened and closed two streams (`LateInit`), so that the next ids are 4 and 5, below and among the descriptors 5 and 6: a client opens one path twice, removes what it has open with and without success, and is given the number 5 twice; descriptors are used again, and stale stream nodes point at them |
| `ReopenedRecord` | "remove the old one" (`4/server.c:341`) | violated: the new one is removed |
| `Exclusive` | Are the handles the API returned open, and exclusive, with processes that die at any point? | 2 processes, 2 paths, a file and a directory at first, which may be removed and created as files; 2 calls each besides closes, 2 handles each: each can hold both paths or one twice, remove what it holds or the other holds, and be killed in every stage. `fsOpenDir` is not called, so no number is given twice |
| `Quiet` | Is everything unlocked when all is closed, and does the server end for known causes only? | the same with every call of the API, an `fsWrite` of no bytes and a lost `fsOpenDir` (`Garbage`) included, nobody killed; 2 directory ids, below the descriptors |
| `CallsReturn` | Does every call return? | 2 processes that open, hold and close 2 files, in one order, through a listen queue of one; every path is a file |
| `OpenDirHandle` | "successfully opened aliased dir" (`4/fs_client.c:32`) | violated: the handle is -11 |
| `StreamCalls` | Is a call over TCP a `RemoteCall`, however the bytes are cut up and whoever dies? Is what is allocated freed, and does every call end? | 2 clients, 3 bytes in flight each way, ints of 2 bytes: every field is cut at every place, both clients meet at the queue of one, names are registered twice and asked for with the wrong number of arguments, and one argument is empty |
| `DatagramCalls` | Does a client of the UDP RPC get its own answer, once? | 2 clients, 2 calls each from 2 ports, one duplicate, any losses, clients that are killed; a registered name, with arguments too long for `concat`, and an unknown one: an answer for a client that is gone, a request that overtakes, and a late duplicate all meet a later call, from another port or from the same one |
| `StartsUp` | Does a server announce the port and the address it has? | 3 servers of the two protocols, 2 ports, any of them taken by others; lists of up to 3 of 5 kinds of interfaces: the range runs out, two servers of one protocol contend, and every call before the loop fails once |
| `NamesToPaths` | Does `str_replace` replace every occurrence, within its buffers, and end? | names of up to 5 pieces over "m", "s", "/", "/.." and four mounts or none, where names overlap themselves and aliases contain what they replace |
| `SampleCalls` | Does the sample session get the answers its comments promise? | arrays of up to 3 ints of 2 digits, strings of up to 2 letters: differences overflow, strings are of all lengths |

`MaxClients`, `MaxDirId`, `MaxFd`, `Budget` and `AtATime` bound what would grow
without limit: mounts, directory ids, descriptors, calls of a process, and its
handles. Closes are not charged to the budget, so a process can always close
what it opened. `MaxCalls`, `Port` and `MaxCopies` bound the calls and the
duplicates of `DatagramRPC`, `Room` the bytes in flight, `MaxPieces` the names,
`Base` (4 values of a byte) the ints. Deadlock is checked in `StreamCalls` and
`SampleCalls`; elsewhere the programs may stop, and servers wait for ever when
clients do.

`CarefulUse`, `Exclusive` and `Quiet` have a `VIEW` that leaves out `ret` while
nobody is to be sent it: the next call overwrites it, and no property of these
runs reads it.

### Fairness

The kernel runs every process: `WF` of the server's loop and of a process's own
steps, in all the specifications that need fairness. Nothing makes a process be
killed, a server be stopped or a datagram be lost. Beyond that:

- `CallsReturn` of `FileSystem`: a process closes what it opened (`WF` of
  `Closes`); without that those who wait never return, which is what the lock is
  for. `connect` is strongly fair: a SYN that finds the listen queue full is
  dropped and sent again by the client's kernel, so a process whose SYN finds room
  again and again gets in at last. With weak fairness the property fails as soon
  as three processes contend for one file: two can keep the single place filled.
  Every path is a file at the start, since a first `fsOpen` that fails leaves a
  lock nothing releases (`ReopenedRecord`). Processes open in one order.
- `CallsEnd` of `StreamRPC`: strong fairness of `connect` for the same reason;
  `WF` of the bytes' arrival, which TCP gives.
- `CallsReturn` of `DatagramRPC`: `WF` of the server and of `recv`, so a datagram
  that is not lost arrives. The property excepts lost datagrams, after which the
  client waits in `recv()` for ever, and a server that `strcat` ended.

## Proofs

TLAPS checks the theorems for every value of the constants that satisfies the
named assumptions of the modules (numbers are numbers, Booleans are Booleans,
"nobody" is nobody), and the conditions stated with a theorem. Two assumptions
say more. `InterfacesAssumption` of `StartUp`: the address of the interface "lo"
starts with 127, as `getPublicIPAddr` takes for granted when it skips such
addresses. `SessionAssumption`: a byte has more than two values, or `INT_MAX/2`,
by which `testsort` reduces, would be 0.

`FileServerProofs`, careful and careless clients alike: `TypeCorrect`,
`OneRecord` (`[]OneRecordPerPath`) and `PathLockImplemented`, the refinement of
`PathLock` with `holder` mapped to the client of the first record of a path. The
argument goes through `ListStep`: a step leaves the list alone, adds a record of
a path that has none, or removes one record of the calling client. For the
add-then-remove of `Relock` this is `AddThenRemove`:
removing by path and client right after adding in front gives back the old list
(which is also the defect that `ReopenedRecord` shows). `FindFirst` and
`RemoveFirstOwned` give the meaning of the two searches; `AddKeeps` and
`RemoveKeeps` carry it to holders.

`HandlesResolve` (`[]DirHandleResolves`) needs nothing of the clients either: ids
only grow, and a node that is not the newest is found as before (`FindInLonger`).

The second part of it is for careful clients (`Careful`), with directory ids of
any size: `Coverage`, `Exclusion`, `NoStaleLock`, `OwnerServed`, the other
properties of the run `CarefulUse`. They are inductive together, since each call
trusts the others: `fsClose` removes a record by number, and that this record is
the one of the closed path needs that a number names one handle of a client
(`HandlesDiffer`, true until `clash`) and that a record is backed by a handle
(`LocksBacked`); that removing a path leaves no record astray needs that a handle
without a name is without the lock (`NamelessIsUnlocked`). `CarefulInv` is their
conjunction with `ServerInv`. There is one lemma per effect: `GrantKeeps` (open),
`FailureKeeps` (an `open()` that fails), `ReleaseKeeps` (close), `RemovalKeeps`
(remove). `AfterClash` is the case in which the properties promise nothing. The
step lemma is about `OwnNext`, the calls with own handles, so that it serves the
processes of `FileSystem` too.

`FileSystemProofs` assumes nothing of its constants beyond their types:
`HandlesAreOpen`, `FilesAreExclusive`, `QuietIsUnlocked` and
`ServerEndsForACause` hold for any number of processes, files, directory ids and
calls, whoever is killed, whatever they remove and whatever the uninitialised
`val` holds. That the processes use only their own open handles is part of the
invariant. The idea is that every open descriptor is "mine" of exactly one
process: it has the handle (`Kept`), the answer with it is on its way (`Coming`),
or the call that gives it back is (`Leaving`); only streams may be lost, to
`Garbage`. `SystemInv` says so (`OpenIsMine`, `MineIsOpen`, `PathKept`), together
with `CarefulInv`, who is being served (`Sessions`), that no two processes have
one id (`OwnId`) and what a process may be asking for (`Asked`). For `makeCall`
the ten handlers fall into three kinds: calls that leave descriptors alone, that
grant one, and that release one.

`DatagramProofs`, for any ports, given out in any order: `DatagramsAreTyped`,
`AnswersAreOwn` (`[]AnswerIsOwn`, with any number of duplicates), and
`CallsHappenOnce` (`AtMostOnce`). The invariant `DatagramInv` says that what
belongs to a waiting client's present call goes to or from its port, and that
nothing else does if the port was quiet at first (`Theirs`), that the request or
the answer is on its way but never both (`Single`), and that the list of
procedures is the reverse of the registrations (`Registered`), from which
`LastRegistered` shows that the search finds the registration made last.

`StreamProofs`, from `CallAssumption` (a name is a string, sizes and counts fit
an `int`, a procedure answers bytes): every safety property of the run
`StreamCalls` is proved. `BlocksAreFreed` (`[]FreesWhatItAllocates`) has an
invariant of its own, which says at each field of a request what is allocated by
then. `StreamTypes`, `RequestIsReadOut`, `ExitsForACause` and `ImplementsCall`,
the refinement of `RemoteCall`, share `CallInv`. For the client being served it
says that what the server holds of the present field, what is in flight and what
the client has still to send are together what is left of the marshalled request
from that field on: so a field is complete exactly when its bytes are the next
ones of the request, wherever they were cut, and after the last field nothing is
left. On the way back, what the client has, what is in flight and what the server
still owes are the answer to its own request. That a partial transfer keeps such
an equation is associativity of concatenation (`CatAssociative`); that a field
read back is the field written is `Ahead`/`Behind` of `DataLemmas` for bytes and
`TwosComplement` for sizes and counts; that the fields are those of the call is
the pair of lemmas on `FlattenSeq`. `ImplementsCall` then maps the step that
calls the procedure to `Execute`, the last byte of the answer to `Return`, and
every other step to a stutter.

`StartUpProofs`: `TypeCorrect`, `PortsAreTheirs`, `PrintedPortsAreTheirs` and
`FailsWhenFull`. The inductive invariant adds to `TypeOK` and `BoundToItsPort`
that a server prints once, after it is bound; `FailsWhenFull` needs that every
port the loop has passed was taken and stays so while no server stops.
`SwapTwice` proves that `ntohs(htons(n)) = n` on 16 bits.
`AddressesAreOfInterfaces` is `[]PrintsInterfaceAddress`: `getPublicIPAddr` returns
an address outside 127.0.0.0/8, which by `InterfacesAssumption` is not that of
"lo"; the loop of assignment 1 skips "lo" by its name and interfaces that are not
running (`PublicIsFound`, `HostIsFound`). The invariant `HostsAreFound` carries
this to the line that prints.

`PathNamesProofs`: all five properties of the run `NamesToPaths`, for strings of
any length. `ReplacesEveryOccurrence` compares the result with a definition
(`Replaced`) that chooses a set of occurrences: each one that does not overlap a
chosen one to its left. `ChosenIs` shows that there is one such set only. The
invariant says that a turn which has come to character `k` of the string, having
replaced the occurrences `P`, has in its buffer those `k` characters with `P`
replaced (`With`), then the string's end from `k` on, and that `P` is the choice
as far as `k` (`Passed`). `Turn` shows that `strstr` from `head` finds the next
occurrence to be chosen, that the three copies fill the new buffer exactly, and
that `OneMore` holds of the result. When `strstr` finds none, `P` is the whole
choice: `EveryOccurrence`. `HeadSplits`, `LessIsLeft`, `FillsItsBlock` and
`MountsAreTranslated` read other facts off the same invariant.

`SampleSessionProofs`: the three properties of the run `SampleCalls`.
`ReturnsSorted`, when the values are reduced: the remainder by `INT_MAX/2` is less
than half an int either way (`Values`), so the difference in `compar()` is the
true one (`Compared`) and neighbours in its order are in order; that the ints
survive their bytes is `TwosComplement`, once per pair (`FlattenPairs`).
`ConcatsToString`: each copy of `concatStr` starts where the last one ended
(`CopiedBehind`), and the buffer is filled when the fifth is done. `totallen` and
the copies are recursive functions; their values follow from the recursion by
`BoundedInduction`, a lemma about membership of a set.

Only model-checked: the liveness properties `CallsReturn`, `CallsEnd` and
`StartsOrFails`, since TLAPS proves nothing from fairness. That the loop of
`str_replace` ends is proved as the step property `SearchesLess`; every other
property of a passing run is a theorem.

## What the assumptions keep out

The properties that pass make exceptions, or hold under conditions that the API
does not impose. Each of these was dropped on its own, and TLC then finds the
property violated:

- `CarefulUse` with `Careful = FALSE`: a client that closes a descriptor it does
  not have, with the number of its open directory, unlocks that directory, and
  `DescriptorCovered`, `ExclusiveDescriptors`, `LocksBacked` and `OwnerNotRefused`
  fail.
- `DescriptorCovered` and `ExclusiveDescriptors` without `unlocked`: a client that
  opens one path twice and closes one of the descriptors, or whose `fsRemove`
  fails, has lost the lock and keeps the descriptor. `4/fs_client.c` opens a file
  three times and closes one descriptor (115-121). `HandleIsOpen` and
  `FilesExclusive` fail in the same way.
- `DescriptorCovered`, `ExclusiveDescriptors` and `LocksBacked` without `~clash`:
  a client has directory 5 and the file with descriptor 5, and closing one
  releases the lock of the other. (`OwnerNotRefused` still passes in the run; its
  proof uses the premise.)
- `QuietMeansUnlocked` without its exception for streams: `fsOpenDir` repeats a
  granted call, and one of the two streams is never closed.
- `EndsForACause` of `FileSystem` without any one of its causes, but for the dead
  process, since nobody is killed in `Quiet`.
- `CallsReturn` of `FileSystem` with `Follows <- AnyOrder`: two processes that hold
  a file each and open the other's repeat for ever.
- `AnswerIsOwn` and `AtMostOnce` for calls whose port was not quiet (`crossed`,
  `Misled`): the answer for a client that was killed, or the second one to a
  request that was duplicated, reaches the next call from that port.
- `AtMostOnce` without its premise on duplicates: the procedure runs twice.
- `SampleCalls` with `Reduced = FALSE`: `ReturnsThemSorted` fails, for `compar()`
  subtracts; the sample client reduces its values so that it cannot overflow.

Facts of the code that the models contain and no property forbids: an argument
of size 0 ends the server (`4/simplified_rpc/server_stub.c:113`), as does a client
that dies (`helper.c:85`) and a `read()` that fails (`4/server.c:429`); an `fsRemove` that
fails gives the lock away (`4/server.c:298`); lock types are
stored as 0 and 1 where the comment says 1 and 2 (`4/fsOtherIncludes.h:16-17`); the
answer for an unknown name is an empty datagram and the client takes the size of the
result from what its buffer held (`1/server_stub.c:151`, `1/client_stub.c:82-85`); two buffers per argument are never freed
(`1/server_stub.c:133`); `strcat` writes past the first argument of `concat`
(`1/server.c:60`); a host with no interface besides loopback prints an
uninitialised buffer (`1/server_stub.c:96`); `getPublicIPAddr` does not look at
`IFF_RUNNING`, so a server of the simplified RPC may announce the address of an
interface that is down (`helper.c:31-42`). `str_replace` replaces the mounted
folder's name wherever it occurs in a path, one pass over "/../" leaves one in
"/../../", and with an empty first argument it does not end (no mount name is empty in
the model).

## Findings

`ReopenedRecord`: `fsOpen` and `fsOpenDir` keep the old record and remove the new
one, against the comment at `4/server.c:341`. `OpenDirHandle`: `fsOpenDir` of the
API returns a refusal as a handle. `PROJECT.json` quotes the lines.

## Not modelled

- `errno`: `fsReadDir` compares it around `readdir()`, and the API passes one on.
- The contents and sizes of file buffers and directory entries: `fsRead` sends
  `strlen` of a buffer it did not clear, `printBuf` over-reads short writes.
- Datagrams larger than `BUF_SIZE`, and the checks of name lengths and parameter
  counts against values that these client stubs never send.
- `printBuf`, which prints, and the script `4/fs_client.c`, whose calls the
  processes of `FileSystem` make in any order.
- A block that a procedure returns and that is one of its arguments: no sample
  procedure does that, and `StreamRPC` gives each result a block of its own.
- Texts, build files and binaries.

## Plan

1. Done: lock list, file server, clients, both RPCs, start-up, `str_replace`, the
   sample programs; the safety theorems above.
2. `errno` of `fsReadDir` and of the API, as a value that calls leave behind.
3. Lengths of file data, for `fsRead` and `fsWrite`.
4. Proofs: the lemmas of `StreamProofs` for a client that is not being served, and
   of `FileSystemProofs` for each handler, could be shared more than they are.
