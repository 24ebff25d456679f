--------------------------- MODULE MCDatagramRPC ---------------------------
(* DatagramRPC with the programs of assignment 1, on ints of two digits.     *)
EXTENDS DatagramRPC

CONSTANT Junk

Registered(name, n, proc) == [name |-> name, nparams |-> n, proc |-> proc]

\* main() of server.c, and an earlier registration of a name.
Sample == <<Registered("concat", 2, "nop"), Registered("addtwo", 2, "add"),
            Registered("concat", 2, "concat"), Registered("nop", 0, "nop")>>

Ask(name, a) == [name |-> name, args |-> a]

\* A call of client.c, with arguments too long for concat, and the name that the
\* test tool calls without a procedure for it.
SampleCalls == {Ask("concat", <<String(<<1>>), String(<<2>>)>>), Ask("noproc", <<>>)}

\* An answer with a size of 0, or anything else.
Garbage == {Nothing, <<Junk>>}

=============================================================================
