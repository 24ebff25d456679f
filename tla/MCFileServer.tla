---------------------------- MODULE MCFileServer ----------------------------
(* FileServer on small instances.  Paths are interchangeable: no property    *)
(* and no constant tells one from another.                                   *)
EXTENDS FileServer

PathSymmetry == Permutations(Path)

\* No action reads the answer of the last call, nor do the invariants of CarefulUse.
WithoutAnswer == <<tables, running, kernel>>

\* The server after a client has opened and closed a directory twice, which is a
\* reachable state: the streams that are opened next have the ids 4 and 5, below
\* and among the descriptors.
LateInit ==
  /\ client_id = 1 /\ open_dir_id = 3
  /\ open_dir_queue = <<[id |-> 3, dir |-> FirstFd], [id |-> 2, dir |-> FirstFd]>>
  /\ resource_list = <<>>
  /\ ret = [kind |-> "int", val |-> 0]
  /\ running = TRUE
  /\ fdtab = [fd \in Fd |-> Closed]
  /\ disk \in [Path -> {"none", "file", "dir"}]
  /\ clash = FALSE

LateSpec == LateInit /\ [][Next]_vars

=============================================================================
