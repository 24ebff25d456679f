------------------------------ MODULE RemoteCall ------------------------------
(* What a remote call promises to the application: the procedure is applied  *)
(* to the arguments of this call, at most once while the call lasts, and the *)
(* caller gets that result and no other.  A caller may also exit, the        *)
(* server may too, and nothing says that a call returns.                     *)
EXTENDS Naturals, Sequences

CONSTANTS
  Client,      \* the calling processes
  Request,     \* what they may call, each with its arguments
  Outcome(_)   \* the results that a request may have

VARIABLES
  calling,     \* the call a client is in, a sequence of at most one
  executed,    \* the results computed for it, a sequence of at most one
  returned     \* the call that has just returned, with its result

vars == <<calling, executed, returned>>

Init ==
  /\ calling = [c \in Client |-> <<>>]
  /\ executed = [c \in Client |-> <<>>]
  /\ returned = [c \in Client |-> <<>>]

Call(c) ==
  /\ calling[c] = <<>>
  /\ \E q \in Request : calling' = [calling EXCEPT ![c] = <<q>>]
  /\ returned' = [returned EXCEPT ![c] = <<>>]
  /\ UNCHANGED executed

Execute(c) ==
  /\ calling[c] # <<>> /\ executed[c] = <<>>
  /\ \E v \in Outcome(calling[c][1]) : executed' = [executed EXCEPT ![c] = <<v>>]
  /\ UNCHANGED <<calling, returned>>

Return(c) ==
  /\ calling[c] # <<>> /\ executed[c] # <<>>
  /\ returned' = [returned EXCEPT ![c] = <<calling[c][1], executed[c][1]>>]
  /\ calling' = [calling EXCEPT ![c] = <<>>]
  /\ executed' = [executed EXCEPT ![c] = <<>>]

Next == \E c \in Client : Call(c) \/ Execute(c) \/ Return(c)

Spec == Init /\ [][Next]_vars

=============================================================================
