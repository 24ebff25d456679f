---------------------------- MODULE MCStreamRPC ----------------------------
(* StreamRPC with some of the calls of sample_client_app.c, on ints of two   *)
(* digits.                                                                   *)
EXTENDS StreamRPC

CONSTANTS N, A, P   \* the names of "nothing", "addtwo" and "pickFirst"

Registered(name, n, proc) == [name |-> name, nparams |-> n, proc |-> proc]

\* main() of sample_server_app.c, and a second registration of a name: "a
\* function may be registered twice and we wouldn't know it".
Sample == <<Registered(N, 0, "nothing"), Registered(A, 2, "pickFirst"),
            Registered(A, 2, "add"), Registered(P, 2, "pickFirst")>>

Ask(name, a) == [name |-> name, args |-> a]

\* "addtwo" with one argument names no procedure.
SampleCalls == {Ask(N, <<>>), Ask(A, <<Encode(-3), Encode(5)>>),
                Ask(P, <<<<1>>, Encode(2)>>), Ask(A, <<Encode(1)>>)}

\* fsWrite(fd, buf, 0) sends an argument of size 0.
EmptyToo == SampleCalls \cup {Ask(P, <<Encode(2), <<>>>>)}

=============================================================================
