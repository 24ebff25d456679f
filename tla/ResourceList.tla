---------------------------- MODULE ResourceList ----------------------------
(* The list of locks of the file server (resource_list of 4/server.c): one   *)
(* record per locked path, newest first, searched from the head.  The three  *)
(* functions of the C code take the path or the descriptor to look for, the  *)
(* other one being NULL or 0.                                                *)
EXTENDS Integers, SequencesExt

CONSTANTS
  Path,     \* the paths clients name
  NoPath    \* the NULL path

ASSUME NoPathAssumption == NoPath \notin Path

Resource == [lock_type : {0, 1}, id : Nat \ {0}, fd : Int, path : Path]

\* The NULL result of find_resource: no client has id 0.
NoResource == [lock_type |-> 0, id |-> 0, fd |-> 0, path |-> NoPath]

Matches(res, fd, path) ==
  \/ path # NoPath /\ res.path = path
  \/ fd # 0 /\ res.fd = fd

\* The first record with this path or this descriptor, whoever owns it.
find_resource(list, fd, path) ==
  LET i == SelectInSeq(list, LAMBDA res : Matches(res, fd, path))
  IN  IF i = 0 THEN NoResource ELSE list[i]

\* Mutant: a descriptor is never looked for.
remove_by_path_only(list, id, fd, path) ==
  RemoveFirstMatch(list, LAMBDA res : path # NoPath /\ res.path = path /\ res.id = id)

\* Unlinks the first record with this path or descriptor that id owns.
remove_resource(list, id, fd, path) ==
  RemoveFirstMatch(list, LAMBDA res : Matches(res, fd, path) /\ res.id = id)

\* Mutant: the rest of the list is not linked behind the new record.
add_alone(list, lock, id, fd, path) ==
  <<[lock_type |-> lock, id |-> id, fd |-> fd, path |-> path]>>

add_resource(list, lock, id, fd, path) ==
  Cons([lock_type |-> lock, id |-> id, fd |-> fd, path |-> path], list)

\* Mutants: the check is forgotten; it forgets the owner.
HeldByNobody(res, id) == FALSE
HeldByAnyone(res, id) == res # NoResource

\* What the check "res != NULL && res->id != id" of the handlers tests.
HeldByOther(res, id) == res # NoResource /\ res.id # id

\* A path is locked at most once, so that the search for a path does not
\* depend on the order of the list.
OnePerPath(list) ==
  \A i, j \in DOMAIN list : list[i].path = list[j].path => i = j

\* The client that holds the lock of a path, 0 if it is free.
HolderOf(list, path) == find_resource(list, 0, path).id

=============================================================================
