---------------------------- MODULE MCFileSystem ----------------------------
(* FileSystem on small instances.  Processes are interchangeable, and so are *)
(* paths; liveness is checked without symmetry.                              *)
EXTENDS FileSystem

Symmetry == Permutations(Proc) \cup Permutations(Path)

\* Every path names a file, as fs_client.c leaves them after its first fsOpen.
FilesInit == SystemInit /\ \A path \in Path : disk[path] = "file"

\* One path names a file and the other a directory; a removed one names nothing.
MixedInit == SystemInit /\ {disk[path] : path \in Path} = {"file", "dir"}

\* A process may have any other path open, or opens the paths in one order.
AnyOrder == Path \X Path
InOrder  == {CHOOSE path \in Path : TRUE} \X Path

\* Only returnResult reads the answer of the last call, and no invariant does.
PendingAnswer ==
  IF serving # NoProc /\ stage[serving] = "served" THEN ret ELSE Null

WithoutOldAnswer == <<tables, running, kernel, PendingAnswer, rpc, client, alive>>

MixedSpec == MixedInit /\ [][SystemNext]_allvars

LiveSpec == FilesInit /\ [][SystemNext]_allvars /\ Fairness

=============================================================================
