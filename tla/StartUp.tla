------------------------------- MODULE StartUp -------------------------------
(* How the servers of one host find a port and an address and announce them: *)
(* mybind.c, getPublicIPAddr of 4/simplified_rpc/helper.c and the first part *)
(* of both launch_server().  The servers of assignment 1 use UDP and are     *)
(* bound to every address, those of the simplified RPC use TCP and are bound *)
(* to the address they announce.                                             *)
EXTENDS Integers, Sequences, FiniteSets

CONSTANTS
  Server,                        \* the server processes of the host
  Datagram,                      \* those of assignment 1
  PORT_RANGE_LO, PORT_RANGE_HI,
  Free, Other,                   \* who has a port: nobody, another program
  Interfaces,                    \* the lists that getifaddrs() may return
  Unset,                         \* an uninitialised buffer
  MayExit                        \* may a server that has started be stopped?

ASSUME StartUpAssumption ==
  /\ Datagram \subseteq Server
  /\ PORT_RANGE_LO \in Nat \ {0} /\ PORT_RANGE_HI \in Nat
  /\ PORT_RANGE_LO <= PORT_RANGE_HI /\ PORT_RANGE_HI < 65535
  /\ Free \notin Server /\ Other \notin Server /\ Free # Other
  /\ MayExit \in BOOLEAN

\* The loopback interface has a loopback address, if it has one.
ASSUME InterfacesAssumption ==
  \A list \in Interfaces :
    /\ list \in Seq([name : STRING, running : BOOLEAN, inet : BOOLEAN, apart : 0 .. 255, addr : Nat])
    /\ \A k \in DOMAIN list : list[k].name = "lo" /\ list[k].inet => list[k].apart = 127

Range16  == {n \in Nat : n < 65536}
Ports    == PORT_RANGE_LO .. PORT_RANGE_HI
Protocol == {"udp", "tcp"}

proto(s) == IF s \in Datagram THEN "udp" ELSE "tcp"

VARIABLES
  at,        \* what a server does next
  p,         \* the loop variable of its mybind()
  sin_port,  \* in its sockaddr_in, in network byte order
  host,      \* the address it found
  printed,   \* what it printed: nothing, or <<address, port>>
  owner,     \* who is bound to a port
  ifaddr     \* the interfaces of the host

vars == <<at, p, sin_port, host, printed, owner, ifaddr>>

\* ntohs() and htons() swap two bytes.  Mutant: without the type's width.
SwapWide(n) == n * 256 + n \div 256

htons(n) == (n % 256) * 256 + n \div 256
ntohs(n) == htons(n)

-----------------------------------------------------------------------------
(* The address.  An interface has a name and the flag IFF_RUNNING, and its   *)
(* address is of the family AF_INET or not; apart is the first number of it. *)

\* Mutant: loopback addresses are accepted.
AnyAddress(i) == i.inet /\ i.apart > 0

Public(i) == i.inet /\ i.apart > 0 /\ i.apart # 127

\* The first public address in the list, or 0.
getPublicIPAddr(list) ==
  LET public == {k \in DOMAIN list : Public(list[k])}
  IN IF public = {} THEN 0
     ELSE list[CHOOSE k \in public : \A j \in public : k <= j].addr

\* Mutant: the interface may be down.
AnyInterface(i) == i.name # "lo" /\ i.inet

\* Which interfaces launch_server() of assignment 1 looks at.
Considered(i) == i.name # "lo" /\ i.running /\ i.inet

\* The loop ends at eth0; without one, the last address stays in the buffer.
hostOf(list) ==
  LET seen == {k \in DOMAIN list : Considered(list[k])}
      eth0 == {k \in seen : list[k].name = "eth0"}
  IN IF eth0 # {} THEN list[CHOOSE k \in eth0 : \A j \in eth0 : k <= j].addr
     ELSE IF seen # {} THEN list[CHOOSE k \in seen : \A j \in seen : k >= j].addr
     ELSE Unset

-----------------------------------------------------------------------------
At(s, from, to) == at[s] = from /\ at' = [at EXCEPT ![s] = to]

\* socket() and the address to bind to; sin_port is 0.  The server of assignment
\* 1 ends if there is no socket; that of the simplified RPC does not look, and
\* ends if there is no address or getifaddrs() fails.
socket(s) ==
  /\ \/ /\ s \in Datagram
        /\ \E to \in {"mybind", "failed"} : At(s, "start", to)
        /\ UNCHANGED host
     \/ /\ s \notin Datagram
        /\ \E addr \in {0, getPublicIPAddr(ifaddr)}, to \in {"mybind", "nosocket"} :
             /\ At(s, "start", IF addr = 0 THEN "failed" ELSE to)
             /\ host' = [host EXCEPT ![s] = addr]
  /\ sin_port' = [sin_port EXCEPT ![s] = 0]
  /\ p' = [p EXCEPT ![s] = PORT_RANGE_LO]
  /\ UNCHANGED <<printed, owner, ifaddr>>

\* "mybind(): sockfd has invalid value"
rejects(s) ==
  /\ At(s, "nosocket", "failed")
  /\ UNCHANGED <<p, sin_port, host, printed, owner, ifaddr>>

\* Who is bound to the port in sin_port.
Holder(s, port) == owner[proto(s)][port]

\* Mutant: bind() with SO_REUSEPORT.
Shared(s) == Holder(s, p[s]) # Other

Bindable(s) == Holder(s, p[s]) = Free

\* One turn of the loop of mybind().
binds(s) ==
  /\ p[s] <= PORT_RANGE_HI /\ Bindable(s)
  /\ At(s, "mybind", IF s \in Datagram THEN "getifaddrs" ELSE "print")
  /\ sin_port' = [sin_port EXCEPT ![s] = htons(p[s])]
  /\ owner' = [owner EXCEPT ![proto(s)][p[s]] = s]
  /\ UNCHANGED <<p, host, printed, ifaddr>>

\* Mutants: the port after next; the same port again.
Skip(n) == n + 2
Again(n) == n

\* p is an unsigned short.
Following(n) == (n + 1) % 65536

continues(s) ==
  /\ at[s] = "mybind" /\ p[s] <= PORT_RANGE_HI /\ ~ Bindable(s)
  /\ sin_port' = [sin_port EXCEPT ![s] = htons(p[s])]
  /\ p' = [p EXCEPT ![s] = Following(@)]
  /\ UNCHANGED <<at, host, printed, owner, ifaddr>>

\* "all bind() attempts failed. No port available...?"
fails(s) ==
  /\ p[s] > PORT_RANGE_HI
  /\ At(s, "mybind", "failed")
  /\ UNCHANGED <<p, sin_port, host, printed, owner, ifaddr>>

findsHost(s) ==
  /\ At(s, "getifaddrs", "print")
  /\ host' = [host EXCEPT ![s] = hostOf(ifaddr)]
  /\ UNCHANGED <<p, sin_port, printed, owner, ifaddr>>

\* Mutant: the port as it is in the structure.
PrintedRaw(s) == <<host[s], sin_port[s]>>

Printed(s) == <<host[s], ntohs(sin_port[s])>>

prints(s) ==
  /\ At(s, "print", IF s \in Datagram THEN "serves" ELSE "listen")
  /\ printed' = [printed EXCEPT ![s] = Printed(s)]
  /\ UNCHANGED <<p, sin_port, host, owner, ifaddr>>

\* listen(), after the announcement.
listens(s) == At(s, "listen", "serves") /\ UNCHANGED <<p, sin_port, host, printed, owner, ifaddr>>

\* The end of a process frees its port; one of TCP may stay in TIME_WAIT.
Ends(s) ==
  /\ at' = [at EXCEPT ![s] = "stopped"]
  /\ \E who \in IF s \in Datagram THEN {Free} ELSE {Free, Other} :
       owner' = [owner EXCEPT ![proto(s)][ntohs(sin_port[s])] = who]
  /\ UNCHANGED <<p, sin_port, host, printed, ifaddr>>

\* getifaddrs() or getnameinfo() fails, with the port taken.
findsNoHost(s) == at[s] = "getifaddrs" /\ Ends(s)

\* listen() fails, with the port printed.
listenFails(s) == at[s] = "listen" /\ Ends(s)

stops(s) == MayExit /\ at[s] \in {"serves", "listen"} /\ Ends(s)

-----------------------------------------------------------------------------
Init ==
  /\ at = [s \in Server |-> "start"]
  /\ p = [s \in Server |-> PORT_RANGE_LO]
  /\ sin_port = [s \in Server |-> 0]
  /\ host = [s \in Server |-> Unset]
  /\ printed = [s \in Server |-> <<>>]
  /\ owner \in [Protocol -> [Ports -> {Free, Other}]]
  /\ ifaddr \in Interfaces

Starts(s) ==
  \/ socket(s) \/ rejects(s) \/ binds(s) \/ continues(s) \/ fails(s)
  \/ findsHost(s) \/ prints(s) \/ listens(s)

Stops(s) == findsNoHost(s) \/ listenFails(s) \/ stops(s)

Next == \E s \in Server : Starts(s) \/ Stops(s)

Spec == Init /\ [][Next]_vars

FairSpec == Spec /\ \A s \in Server : WF_vars(Starts(s))

-----------------------------------------------------------------------------
TypeOK ==
  /\ at \in [Server -> {"start", "nosocket", "mybind", "getifaddrs", "print", "listen",
                        "serves", "failed", "stopped"}]
  /\ p \in [Server -> PORT_RANGE_LO .. PORT_RANGE_HI + 1]
  /\ sin_port \in [Server -> Range16]
  /\ owner \in [Protocol -> [Ports -> Server \cup {Free, Other}]]

Running(s) == at[s] \in {"getifaddrs", "print", "listen", "serves"}

\* "upon return, addr->sin_port contains, in network byte order, the port to
\* which the call bound sockfd" (mybind.c:24-25), and no two servers of a
\* protocol get the same.
BoundToItsPort ==
  \A s \in Server : Running(s) =>
    /\ ntohs(sin_port[s]) \in Ports
    /\ Holder(s, ntohs(sin_port[s])) = s

\* A client that is given the port that a server printed reaches that server.
PrintsItsPort ==
  \A s \in Server : Running(s) /\ printed[s] # <<>> =>
    /\ printed[s][2] \in Ports
    /\ Holder(s, printed[s][2]) = s

\* As long as no server has stopped, the loop of mybind() ends without a port
\* only when the whole range is taken (mybind.c:56-59).
NoneStopped == \A t \in Server : at[t] # "stopped"

FailsOnlyWhenFull ==
  NoneStopped => \A s \in Server : at[s] = "mybind" /\ p[s] > PORT_RANGE_HI =>
                   \A port \in Ports : Holder(s, port) # Free

\* The address that a server prints, if it found any, is of an interface of its
\* host that is not loopback, and for assignment 1 of one that is up:
\* getPublicIPAddr() does not look at IFF_RUNNING (1/server_stub.c:72-74,
\* helper.c:31-42).
PrintsInterfaceAddress ==
  \A s \in Server : printed[s] # <<>> /\ printed[s][1] # Unset =>
    \E k \in DOMAIN ifaddr :
      /\ ifaddr[k].addr = printed[s][1] /\ ifaddr[k].name # "lo"
      /\ s \in Datagram => ifaddr[k].running

\* Every server gets to its loop or gives up, unless it is stopped before.
StartsOrFails == \A s \in Server : <>(at[s] \in {"serves", "failed", "stopped"})

=============================================================================
