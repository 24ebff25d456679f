------------------------------ MODULE PathLock ------------------------------
(* What the resource list promises: a lock per path with at most one holder, *)
(* granted only while free and given up only as a whole, one lock at a time. *)
EXTENDS Naturals

CONSTANTS
  Path,
  Client    \* does not contain 0, which stands for nobody

VARIABLE holder   \* holder[p] is the client that holds the lock of p, or 0

Free == [p \in Path |-> 0]

Init == holder = Free

Acquire(c, p) ==
  /\ holder[p] = 0
  /\ holder' = [holder EXCEPT ![p] = c]

Release(c, p) ==
  /\ holder[p] = c
  /\ holder' = [holder EXCEPT ![p] = 0]

Next == \E c \in Client, p \in Path : Acquire(c, p) \/ Release(c, p)

Spec == Init /\ [][Next]_holder

=============================================================================
