---------------------------- MODULE StartUpProofs ----------------------------
(* The ports that servers get and print, for every number of servers, every  *)
(* range of ports and every list of interfaces.                              *)
EXTENDS StartUp, DataLemmas

\* A server prints once, after it has been bound, and prints that port.
PrintsOnce ==
  /\ DOMAIN host = Server /\ DOMAIN printed = Server
  /\ \A s \in Server :
       /\ at[s] \in {"start", "nosocket", "mybind", "getifaddrs", "print"} => printed[s] = <<>>
       /\ printed[s] # <<>> => printed[s] = Printed(s)

\* The inductive invariant.
IInv == TypeOK /\ BoundToItsPort /\ PrintsOnce

-----------------------------------------------------------------------------
Byte == {n \in Nat : n < 256}

\* A number of 16 bits is made of two bytes.
LEMMA TwoBytes ==
  ASSUME NEW n \in Range16
  PROVE  \E hi, lo \in Byte : n \div 256 = hi /\ n % 256 = lo /\ n = hi * 256 + lo
<1>1. n \in Int /\ 0 <= n /\ n < 65536
  BY DEF Range16
<1>2. n \div 256 \in Int /\ 0 <= n \div 256 /\ n \div 256 <= 255
  BY <1>1
<1>3. n % 256 \in Byte
  BY <1>1 DEF Byte
<1>4. PICK hi \in Byte : n \div 256 = hi
  BY <1>2 DEF Byte
<1>5. PICK lo \in Byte : n % 256 = lo
  BY <1>3
<1>6. n = hi * 256 + lo
  BY <1>1, <1>4, <1>5 DEF Byte
<1> QED  BY <1>4, <1>5, <1>6

\* Swapping the two bytes of a port twice gives the port back.
LEMMA SwapTwice ==
  ASSUME NEW n \in Range16
  PROVE  htons(n) \in Range16 /\ ntohs(htons(n)) = n
<1>1. PICK hi \in Byte, lo \in Byte : n \div 256 = hi /\ n % 256 = lo /\ n = hi * 256 + lo
  BY TwoBytes
<1>2. htons(n) = lo * 256 + hi
  BY <1>1 DEF htons
<1>3. (lo * 256 + hi) % 256 = hi /\ (lo * 256 + hi) \div 256 = lo
  BY DEF Byte
<1>4. htons(lo * 256 + hi) = hi * 256 + lo
  BY <1>3 DEF htons
<1>5. lo * 256 + hi \in Range16
  BY DEF Range16, Byte
<1> QED  BY <1>1, <1>2, <1>4, <1>5 DEF ntohs

\* The ports are 16-bit numbers.
LEMMA PortsAreShort ==
  ASSUME NEW n \in Ports
  PROVE  n \in Range16
BY StartUpAssumption DEF Ports, Range16

\* The loop variable does not wrap around.
LEMMA PortsFollow ==
  ASSUME NEW n \in Ports
  PROVE  Following(n) = n + 1 /\ n + 1 \in PORT_RANGE_LO .. PORT_RANGE_HI + 1
<1>1. PICK m \in Nat : m = n + 1 /\ m < 65536
  BY StartUpAssumption DEF Ports
<1>2. m % 65536 = m
  BY <1>1
<1> QED  BY <1>1, <1>2, StartUpAssumption DEF Following, Ports

\* It holds at first,
LEMMA InitIInv == Init => IInv
BY StartUpAssumption DEF Init, IInv, TypeOK, BoundToItsPort, PrintsOnce, Running, Range16, Ports

-----------------------------------------------------------------------------
\* A step of a server that leaves the ports alone disturbs nobody's port.
LEMMA KeepsPorts ==
  ASSUME IInv, NEW s \in Server, socket(s) \/ rejects(s) \/ continues(s) \/ fails(s)
                                   \/ findsHost(s) \/ prints(s) \/ listens(s)
  PROVE  IInv'
<1> USE DEF IInv
<1>0. proto(s) \in Protocol
  BY DEF proto, Protocol
<1>1. CASE socket(s)
  <2>1. TypeOK'
    <3>1. PORT_RANGE_LO \in PORT_RANGE_LO .. PORT_RANGE_HI + 1 /\ 0 \in Range16
      BY StartUpAssumption DEF Range16
    <3> QED  BY <1>1, <3>1 DEF socket, At, TypeOK
  <2>2. BoundToItsPort'
    BY <1>1 DEF socket, At, TypeOK, BoundToItsPort, Running, Holder
  <2>3. PrintsOnce'
    <3>1. at[s] = "start" /\ printed' = printed
      BY <1>1 DEF socket, At
    <3>0. DOMAIN host' = Server /\ \A t \in Server \ {s} : host'[t] = host[t]
      BY <1>1 DEF socket, PrintsOnce
    <3>2. \A t \in Server \ {s} : at'[t] = at[t] /\ host'[t] = host[t] /\ sin_port'[t] = sin_port[t]
      BY <1>1, <3>0 DEF socket, At, TypeOK
    <3>3. DOMAIN host' = Server
      BY <3>0
    <3>4. printed[s] = <<>>
      BY <3>1 DEF PrintsOnce
    <3> QED  BY <3>1, <3>2, <3>3, <3>4 DEF PrintsOnce, Printed
  <2> QED  BY <2>1, <2>2, <2>3
<1>2. CASE continues(s)
  <2>1. p[s] \in Ports
    BY <1>2 DEF continues, TypeOK, Ports
  <2>0. Following(p[s]) \in PORT_RANGE_LO .. PORT_RANGE_HI + 1 /\ htons(p[s]) \in Range16
    BY <2>1, PortsAreShort, PortsFollow, SwapTwice
  <2>2. TypeOK'
    BY <1>2, <2>1, <2>0 DEF continues, TypeOK
  <2>3. BoundToItsPort'
    BY <1>2 DEF continues, TypeOK, BoundToItsPort, Running, Holder
  <2>4. PrintsOnce'
    BY <1>2 DEF continues, TypeOK, PrintsOnce, Printed
  <2> QED  BY <2>2, <2>3, <2>4
<1>3. CASE fails(s)
  <2>1. TypeOK'
    BY <1>3 DEF fails, At, TypeOK
  <2>2. BoundToItsPort'
    BY <1>3 DEF fails, At, TypeOK, BoundToItsPort, Running, Holder
  <2>3. PrintsOnce'
    BY <1>3 DEF fails, At, TypeOK, PrintsOnce, Printed
  <2> QED  BY <2>1, <2>2, <2>3
<1>4. CASE findsHost(s)
  <2>1. TypeOK'
    BY <1>4 DEF findsHost, At, TypeOK
  <2>2. BoundToItsPort'
    BY <1>4 DEF findsHost, At, TypeOK, BoundToItsPort, Running, Holder
  <2>3. PrintsOnce'
    BY <1>4 DEF findsHost, At, TypeOK, PrintsOnce, Printed
  <2> QED  BY <2>1, <2>2, <2>3
<1>5. CASE prints(s)
  <2>1. TypeOK'
    BY <1>5 DEF prints, At, TypeOK
  <2>2. BoundToItsPort'
    BY <1>5 DEF prints, At, TypeOK, BoundToItsPort, Running, Holder
  <2>3. PrintsOnce'
    BY <1>5 DEF prints, At, TypeOK, PrintsOnce, Printed
  <2> QED  BY <2>1, <2>2, <2>3
<1>6. CASE listens(s)
  <2>1. TypeOK'
    BY <1>6 DEF listens, At, TypeOK
  <2>2. BoundToItsPort'
    BY <1>6 DEF listens, At, TypeOK, BoundToItsPort, Running, Holder
  <2>3. PrintsOnce'
    BY <1>6 DEF listens, At, TypeOK, PrintsOnce, Printed
  <2> QED  BY <2>1, <2>2, <2>3
<1>7. CASE rejects(s)
  <2>1. TypeOK'
    BY <1>7 DEF rejects, At, TypeOK
  <2>2. BoundToItsPort'
    BY <1>7 DEF rejects, At, TypeOK, BoundToItsPort, Running, Holder
  <2>3. PrintsOnce'
    BY <1>7 DEF rejects, At, TypeOK, PrintsOnce, Printed
  <2> QED  BY <2>1, <2>2, <2>3
<1> QED  BY <1>1, <1>2, <1>3, <1>4, <1>5, <1>6, <1>7

\* bind() succeeds on a port that nobody has, so it takes no server's port.
LEMMA BindsOwnPort ==
  ASSUME IInv, NEW s \in Server, binds(s)
  PROVE  IInv'
<1> USE DEF IInv
<1>1. p[s] \in Ports /\ p[s] \in Range16 /\ proto(s) \in Protocol
  BY PortsAreShort DEF binds, TypeOK, Ports, proto, Protocol
<1>2. htons(p[s]) \in Range16 /\ ntohs(htons(p[s])) = p[s]
  BY <1>1, SwapTwice
<1>0. /\ owner'[proto(s)][p[s]] = s
      /\ \A q \in Protocol, n \in Ports : ~ (q = proto(s) /\ n = p[s]) => owner'[q][n] = owner[q][n]
  <2>1. /\ owner' \in [Protocol -> [Ports -> Server \cup {Free, Other}]]
        /\ owner'[proto(s)] = [owner[proto(s)] EXCEPT ![p[s]] = s]
        /\ \A q \in Protocol : q # proto(s) => owner'[q] = owner[q]
    BY <1>1 DEF binds, TypeOK
  <2>2. owner[proto(s)] \in [Ports -> Server \cup {Free, Other}]
    BY <1>1 DEF TypeOK
  <2> QED  BY <1>1, <2>1, <2>2
<1>3. TypeOK'
  BY <1>1, <1>2 DEF binds, At, TypeOK
<1>4. ASSUME NEW t \in Server, Running(t)'
      PROVE  ntohs(sin_port'[t]) \in Ports /\ owner'[proto(t)][ntohs(sin_port'[t])] = t
  <2>1. CASE t = s
    BY <1>0, <1>1, <1>2, <2>1 DEF binds, Holder, TypeOK
  <2>2. CASE t # s
    <3>1. sin_port'[t] = sin_port[t] /\ Running(t)
      BY <1>4, <2>2 DEF binds, At, Running, TypeOK
    <3>2. ntohs(sin_port[t]) \in Ports /\ Holder(t, ntohs(sin_port[t])) = t
      BY <3>1 DEF BoundToItsPort
    <3>3. ~ (proto(t) = proto(s) /\ ntohs(sin_port[t]) = p[s])
      BY <3>2, StartUpAssumption DEF binds, Bindable, Holder
    <3>4. owner'[proto(t)][ntohs(sin_port[t])] = owner[proto(t)][ntohs(sin_port[t])]
      <4>1. proto(t) \in Protocol
        BY DEF proto, Protocol
      <4> QED  BY <1>0, <3>2, <3>3, <4>1
    <3> QED  BY <3>1, <3>2, <3>4 DEF Holder
  <2> QED  BY <2>1, <2>2
<1>5. PrintsOnce'
  <2>1. /\ at[s] = "mybind" /\ printed' = printed /\ host' = host
        /\ \A t \in Server \ {s} : at'[t] = at[t] /\ sin_port'[t] = sin_port[t]
    BY DEF binds, At, TypeOK
  <2>2. printed[s] = <<>>
    BY <2>1 DEF PrintsOnce
  <2> QED  BY <2>1, <2>2 DEF PrintsOnce, Printed
<1> QED  BY <1>3, <1>4, <1>5 DEF BoundToItsPort, Holder

\* A server that stops frees its own port and no other server's.
LEMMA StopsOwnPort ==
  ASSUME IInv, NEW s \in Server, Stops(s)
  PROVE  IInv'
<1> USE DEF IInv
<1> DEFINE mine == ntohs(sin_port[s])
<1>e. at[s] \in {"getifaddrs", "listen", "serves"} /\ Ends(s)
  BY DEF Stops, findsNoHost, listenFails, stops
<1>1. mine \in Ports /\ Holder(s, mine) = s /\ proto(s) \in Protocol
  BY <1>e DEF BoundToItsPort, Running, proto, Protocol
<1>2. PICK who \in {Free, Other} : owner' = [owner EXCEPT ![proto(s)][mine] = who]
  BY <1>e DEF Ends
<1>0. \A q \in Protocol, n \in Ports : ~ (q = proto(s) /\ n = mine) => owner'[q][n] = owner[q][n]
  <2>1. /\ owner'[proto(s)] = [owner[proto(s)] EXCEPT ![mine] = who]
        /\ \A q \in Protocol : q # proto(s) => owner'[q] = owner[q]
    BY <1>1, <1>2 DEF TypeOK
  <2>2. owner[proto(s)] \in [Ports -> Server \cup {Free, Other}]
    BY <1>1 DEF TypeOK
  <2> QED  BY <1>1, <2>1, <2>2
<1>3. TypeOK'
  BY <1>e, <1>1, <1>2 DEF Ends, TypeOK
<1>4. ASSUME NEW t \in Server, Running(t)'
      PROVE  ntohs(sin_port'[t]) \in Ports /\ owner'[proto(t)][ntohs(sin_port'[t])] = t
  <2>1. t # s /\ Running(t) /\ sin_port' = sin_port
    BY <1>e, <1>4 DEF Ends, Running, TypeOK
  <2>2. ntohs(sin_port[t]) \in Ports /\ Holder(t, ntohs(sin_port[t])) = t
    BY <2>1 DEF BoundToItsPort
  <2>3. ~ (proto(t) = proto(s) /\ ntohs(sin_port[t]) = mine)
    BY <1>1, <2>1, <2>2 DEF Holder
  <2>4. proto(t) \in Protocol
    BY DEF proto, Protocol
  <2>5. owner'[proto(t)][ntohs(sin_port[t])] = owner[proto(t)][ntohs(sin_port[t])]
    BY <1>0, <2>2, <2>3, <2>4
  <2> QED  BY <2>1, <2>2, <2>5 DEF Holder
<1>5. PrintsOnce'
  <2>1. at'[s] = "stopped"
    BY <1>e DEF Ends, TypeOK
  <2>2. printed' = printed /\ host' = host /\ sin_port' = sin_port
    BY <1>e DEF Ends
  <2>3. \A t \in Server \ {s} : at'[t] = at[t]
    BY <1>e DEF Ends, TypeOK
  <2> QED  BY <2>1, <2>2, <2>3 DEF PrintsOnce, Printed
<1> QED  BY <1>3, <1>4, <1>5 DEF BoundToItsPort, Holder

\* and every step keeps it.
LEMMA StepIInv ==
  ASSUME IInv, [Next]_vars
  PROVE  IInv'
<1>1. CASE UNCHANGED vars
  BY <1>1 DEF IInv, TypeOK, BoundToItsPort, PrintsOnce, Running, Holder, Printed, vars
<1>2. ASSUME NEW s \in Server, Starts(s)
      PROVE  IInv'
  BY <1>2, KeepsPorts, BindsOwnPort DEF Starts
<1>3. ASSUME NEW s \in Server, Stops(s)
      PROVE  IInv'
  BY <1>3, StopsOwnPort
<1> QED  BY <1>1, <1>2, <1>3 DEF Next

-----------------------------------------------------------------------------
\* The variables keep their types; the 16-bit ones do not overflow.
THEOREM TypeCorrect == Spec => []TypeOK
<1>1. IInv => TypeOK
  BY DEF IInv
<1> QED  BY InitIInv, StepIInv, <1>1, PTL DEF Spec

\* A server that got through mybind() has the port in its sockaddr_in, in the
\* range and its own, until it stops (mybind.c:45-63).
THEOREM PortsAreTheirs == Spec => []BoundToItsPort
<1>1. IInv => BoundToItsPort
  BY DEF IInv
<1> QED  BY InitIInv, StepIInv, <1>1, PTL DEF Spec

\* The port that a server printed is the one it is bound to
\* (server_stub.c:247, 1/server_stub.c:96).
THEOREM PrintedPortsAreTheirs == Spec => []PrintsItsPort
<1>1. IInv => PrintsItsPort
  BY DEF IInv, BoundToItsPort, PrintsOnce, PrintsItsPort, Printed
<1> QED  BY InitIInv, StepIInv, <1>1, PTL DEF Spec

-----------------------------------------------------------------------------
\* As long as no server has stopped, no port has become free, and the loop of
\* mybind() has left no free port behind.
Skipped ==
  /\ IInv
  /\ NoneStopped => \A s \in Server : at[s] = "mybind" =>
                      \A port \in Ports : port < p[s] => Holder(s, port) # Free

\* Every step keeps to that,
LEMMA StepSkipped ==
  ASSUME Skipped, [Next]_vars
  PROVE  Skipped'
<1>1. IInv'
  BY StepIInv DEF Skipped
<1>0. NoneStopped' => NoneStopped
  BY DEF NoneStopped, Skipped, IInv, TypeOK, Next, Starts, Stops, findsNoHost, listenFails,
     stops, Ends, socket, rejects, binds, continues, fails,
     findsHost, prints, listens, At, vars
<1>2. ASSUME NoneStopped', NEW s \in Server, at'[s] = "mybind", NEW port \in Ports, port < p'[s]
      PROVE  Holder(s, port)' # Free
  <2>0. proto(s) \in Protocol
    BY DEF proto, Protocol
  <2>1. CASE UNCHANGED vars
    BY <1>0, <1>2, <2>1 DEF Skipped, vars, Holder
  <2>2. ASSUME NEW t \in Server, Starts(t)
        PROVE  Holder(s, port)' # Free
    <3>1. Holder(s, port) # Free => Holder(s, port)' # Free
      <4>1. CASE binds(t)
        <5>1. p[t] \in Ports /\ proto(t) \in Protocol
          BY <4>1 DEF binds, Skipped, IInv, TypeOK, Ports, proto, Protocol
        <5>2. /\ owner'[proto(t)] = [owner[proto(t)] EXCEPT ![p[t]] = t]
              /\ \A q \in Protocol : q # proto(t) => owner'[q] = owner[q]
          BY <4>1, <5>1 DEF binds, Skipped, IInv, TypeOK
        <5>3. owner[proto(t)] \in [Ports -> Server \cup {Free, Other}]
          BY <5>1 DEF Skipped, IInv, TypeOK
        <5>4. CASE proto(s) = proto(t)
          BY <5>1, <5>2, <5>3, <5>4, StartUpAssumption DEF Holder
        <5>5. CASE proto(s) # proto(t)
          BY <2>0, <5>2, <5>5 DEF Holder
        <5> QED  BY <5>4, <5>5
      <4>2. CASE ~ binds(t)
        BY <2>2, <4>2 DEF Starts, socket, rejects, continues, fails, findsHost, prints, listens, Holder
      <4> QED  BY <4>1, <4>2
    <3>2. CASE at[s] = "mybind" /\ port < p[s]
      BY <1>0, <1>2, <3>1, <3>2 DEF Skipped
    <3>3. CASE at[s] # "mybind"
      <4>1. p'[s] = PORT_RANGE_LO
        BY <1>2, <2>2, <3>3 DEF Starts, socket, rejects, binds, continues, fails, findsHost, prints, listens,
             At, Skipped, IInv, TypeOK
      <4> QED  BY <1>2, <4>1, StartUpAssumption DEF Ports
    <3>4. CASE at[s] = "mybind" /\ ~ (port < p[s])
      <4>1. continues(s) /\ t = s
        BY <1>2, <2>2, <3>4 DEF Starts, socket, rejects, binds, continues, fails, findsHost, prints, listens,
             At, Skipped, IInv, TypeOK
      <4>2. p[s] \in Ports
        BY <4>1 DEF continues, Skipped, IInv, TypeOK, Ports
      <4>3. p'[s] = p[s] + 1
        BY <4>1, <4>2, PortsFollow DEF continues, Skipped, IInv, TypeOK
      <4>4. port = p[s]
        BY <1>2, <3>4, <4>2, <4>3, StartUpAssumption DEF Ports
      <4> QED  BY <3>1, <4>1, <4>4 DEF continues, Bindable
    <3> QED  BY <3>2, <3>3, <3>4
  <2>3. ASSUME NEW t \in Server, Stops(t)
        PROVE  FALSE
    BY <1>2, <2>3 DEF Stops, findsNoHost, listenFails, stops, Ends, NoneStopped, Skipped, IInv, TypeOK
  <2> QED  BY <2>1, <2>2, <2>3 DEF Next
<1> QED  BY <1>1, <1>2 DEF Skipped

\* As long as no server has stopped, the loop of mybind() ends without a port only
\* on a host on which the whole range is taken (mybind.c:56-59).
THEOREM FailsWhenFull == Spec => []FailsOnlyWhenFull
<1>1. Init => Skipped
  BY InitIInv, StartUpAssumption DEF Init, Skipped
<1>2. Skipped /\ [Next]_vars => Skipped'
  BY StepSkipped
<1>3. Skipped => FailsOnlyWhenFull
  BY StartUpAssumption DEF Skipped, IInv, TypeOK, FailsOnlyWhenFull, Ports
<1> QED  BY <1>1, <1>2, <1>3, PTL DEF Spec

-----------------------------------------------------------------------------
\* An interface of the host, other than loopback, has this address, and is up
\* if the server is of assignment 1.
HasAddr(s, a) ==
  \E k \in DOMAIN ifaddr :
    /\ ifaddr[k].addr = a /\ ifaddr[k].name # "lo"
    /\ s \in Datagram => ifaddr[k].running

\* A server that goes on has found such an address, or none.
HostsAreFound ==
  /\ ifaddr \in Interfaces
  /\ \A s \in Server :
       /\ host[s] # Unset /\ at[s] # "failed" => HasAddr(s, host[s])
       /\ at[s] = "failed" => printed[s] = <<>>

\* A set of places of a list has a first one and a last one.
LEMMA FirstAndLast ==
  ASSUME NEW n \in Nat, NEW I \in SUBSET (1 .. n), I # {}
  PROVE  /\ \E k \in I : \A j \in I : k <= j
         /\ \E k \in I : \A j \in I : k >= j
<1>1. \E k \in I : \A j \in I : k <= j
  <2>1. I \in SUBSET Nat
    OBVIOUS
  <2> QED  BY <2>1, MinOfNats
<1> DEFINE J == {n - k : k \in I}
<1>2. PICK m \in J : \A y \in J : m <= y
  <2>1. J \in SUBSET Nat /\ J # {}
    <3>1. \A k \in I : n - k \in Nat
      OBVIOUS
    <3>2. PICK x \in I : TRUE
      OBVIOUS
    <3>3. n - x \in J
      OBVIOUS
    <3> QED  BY <3>1, <3>3
  <2> HIDE DEF J
  <2> QED  BY <2>1, MinOfNats
<1>3. PICK k \in I : m = n - k
  BY <1>2
<1>4. \A j \in I : n - j \in J /\ m <= n - j
  BY <1>2
<1>5. \A j \in I : k >= j
  BY <1>3, <1>4
<1> QED  BY <1>1, <1>5

\* What getPublicIPAddr() returns is 0 or the address of such an interface.
LEMMA PublicIsFound ==
  ASSUME ifaddr \in Interfaces, NEW s \in Server \ Datagram, getPublicIPAddr(ifaddr) # 0
  PROVE  HasAddr(s, getPublicIPAddr(ifaddr))
<1> DEFINE public == {k \in DOMAIN ifaddr : Public(ifaddr[k])}
<1>1. PICK n \in Nat : DOMAIN ifaddr = 1 .. n
  BY InterfacesAssumption
<1>2. public # {}
  BY DEF getPublicIPAddr
<1>3. PICK k : k = CHOOSE i \in public : \A j \in public : i <= j
  OBVIOUS
<1>4. k \in public
  <2>1. public \in SUBSET (1 .. n)
    BY <1>1
  <2> HIDE DEF public
  <2> QED  BY <1>2, <1>3, <2>1, FirstAndLast
<1>5. getPublicIPAddr(ifaddr) = ifaddr[k].addr
  BY <1>2, <1>3 DEF getPublicIPAddr
<1>6. ifaddr[k].name # "lo"
  BY <1>4, InterfacesAssumption DEF Public
<1> QED  BY <1>4, <1>5, <1>6 DEF HasAddr

\* What the loop of assignment 1 finds is up and not on loopback.
LEMMA HostIsFound ==
  ASSUME ifaddr \in Interfaces, NEW s \in Server, hostOf(ifaddr) # Unset
  PROVE  HasAddr(s, hostOf(ifaddr))
<1> DEFINE seen == {k \in DOMAIN ifaddr : Considered(ifaddr[k])}
           eth0 == {k \in seen : ifaddr[k].name = "eth0"}
<1>1. PICK n \in Nat : DOMAIN ifaddr = 1 .. n
  BY InterfacesAssumption
<1>2. \A k \in seen : HasAddr(s, ifaddr[k].addr)
  BY DEF Considered, HasAddr
<1>3. seen \in SUBSET (1 .. n) /\ eth0 \in SUBSET (1 .. n) /\ eth0 \in SUBSET seen
  BY <1>1
<1>4. hostOf(ifaddr) = IF eth0 # {} THEN ifaddr[CHOOSE k \in eth0 : \A j \in eth0 : k <= j].addr
                       ELSE IF seen # {} THEN ifaddr[CHOOSE k \in seen : \A j \in seen : k >= j].addr
                       ELSE Unset
  BY DEF hostOf
<1> HIDE DEF seen, eth0
<1>5. CASE eth0 # {}
  <2>1. PICK k : k = CHOOSE i \in eth0 : \A j \in eth0 : i <= j
    OBVIOUS
  <2>2. k \in seen
    BY <1>3, <1>5, <2>1, FirstAndLast
  <2> QED  BY <1>2, <1>4, <1>5, <2>1, <2>2
<1>6. CASE eth0 = {}
  <2>1. seen # {}
    BY <1>4, <1>6
  <2>2. PICK k : k = CHOOSE i \in seen : \A j \in seen : i >= j
    OBVIOUS
  <2>3. k \in seen
    BY <1>3, <2>1, <2>2, FirstAndLast
  <2> QED  BY <1>2, <1>4, <1>6, <2>1, <2>2, <2>3
<1> QED  BY <1>5, <1>6

\* Every step keeps to that.
LEMMA StepHosts ==
  ASSUME IInv, HostsAreFound, [Next]_vars
  PROVE  HostsAreFound'
<1>1. at \in [Server -> {"start", "nosocket", "mybind", "getifaddrs", "print", "listen",
                        "serves", "failed", "stopped"}]
  BY DEF IInv, TypeOK
<1>2. DOMAIN host = Server /\ DOMAIN printed = Server
  BY DEF IInv, PrintsOnce
<1>3. CASE UNCHANGED vars
  BY <1>3 DEF HostsAreFound, HasAddr, vars
<1>4. ASSUME NEW s \in Server, Starts(s) \/ Stops(s) PROVE HostsAreFound'
  <2>1. ifaddr' = ifaddr
    BY <1>4 DEF Starts, socket, rejects, binds, continues, fails, findsHost, prints, listens,
                Stops, findsNoHost, listenFails, stops, Ends
  <2>2. \A t, a : HasAddr(t, a)' <=> HasAddr(t, a)
    BY <2>1 DEF HasAddr
  <2>3. \A t \in Server \ {s} : at'[t] = at[t] /\ host'[t] = host[t] /\ printed'[t] = printed[t]
    BY <1>1, <1>2, <1>4
       DEF Starts, At, socket, rejects, binds, continues, fails, findsHost, prints, listens,
           Stops, findsNoHost, listenFails, stops, Ends
  <2>4. /\ host'[s] # Unset /\ at'[s] # "failed" => HasAddr(s, host'[s])
        /\ at'[s] = "failed" => printed'[s] = <<>>
    <3>1. printed[s] = <<>> \/ at[s] \in {"listen", "serves", "stopped", "failed"}
      BY <1>1 DEF IInv, PrintsOnce
    <3>2. /\ host[s] # Unset /\ at[s] # "failed" => HasAddr(s, host[s])
          /\ at[s] = "failed" => printed[s] = <<>>
      BY Zenon DEF HostsAreFound
    <3>3. CASE socket(s)
      <4>1. printed'[s] = <<>>
        BY <3>1, <3>3 DEF socket, At
      <4>2. CASE s \in Datagram
        BY <1>1, <3>2, <3>3, <4>1, <4>2 DEF socket, At
      <4>3. CASE s \notin Datagram
        <5>1. PICK addr \in {0, getPublicIPAddr(ifaddr)} :
                /\ host' = [host EXCEPT ![s] = addr]
                /\ \E to \in {"mybind", "nosocket"} : At(s, "start", IF addr = 0 THEN "failed" ELSE to)
          BY <3>3, <4>3 DEF socket
        <5>2. host'[s] = addr /\ (at'[s] # "failed" => addr # 0)
          BY <1>1, <1>2, <5>1 DEF At
        <5> QED  BY <4>1, <4>3, <5>1, <5>2, PublicIsFound DEF HostsAreFound
      <4> QED  BY <4>2, <4>3
    <3>4. CASE findsHost(s)
      <4>1. host'[s] = hostOf(ifaddr) /\ printed'[s] = <<>> /\ at'[s] = "print"
        BY <1>1, <1>2, <3>1, <3>4 DEF findsHost, At
      <4> QED  BY <4>1, HostIsFound DEF HostsAreFound
    <3>5. CASE rejects(s) \/ binds(s) \/ continues(s) \/ fails(s) \/ prints(s) \/ listens(s)
      BY <1>1, <1>2, <3>1, <3>2, <3>5 DEF At, rejects, binds, continues, fails, prints, listens
    <3>6. CASE Stops(s)
      BY <1>1, <1>2, <3>1, <3>2, <3>6 DEF Stops, findsNoHost, listenFails, stops, Ends
    <3> QED  BY <1>4, <3>3, <3>4, <3>5, <3>6 DEF Starts
  <2>5. \A t \in Server :
          /\ host'[t] # Unset /\ at'[t] # "failed" => HasAddr(t, host'[t])
          /\ at'[t] = "failed" => printed'[t] = <<>>
    BY <2>3, <2>4 DEF HostsAreFound
  <2> QED  BY <2>1, <2>2, <2>5 DEF HostsAreFound
<1> QED  BY <1>3, <1>4 DEF Next

\* The address that a server prints, if it found any, is of an interface that is
\* not loopback (helper.c:40), and for assignment 1 of one that is up
\* (1/server_stub.c:72-74).
THEOREM AddressesAreOfInterfaces == Spec => []PrintsInterfaceAddress
<1>1. Init => HostsAreFound
  BY DEF Init, HostsAreFound
<1>2. IInv /\ HostsAreFound => PrintsInterfaceAddress
  <2>1. SUFFICES ASSUME IInv, HostsAreFound, NEW s \in Server, printed[s] # <<>>, printed[s][1] # Unset
                 PROVE  HasAddr(s, printed[s][1])
    BY Zenon DEF PrintsInterfaceAddress, HasAddr
  <2>2. printed[s][1] = host[s] /\ at[s] # "failed"
    BY <2>1 DEF IInv, PrintsOnce, HostsAreFound, Printed
  <2>3. host[s] # Unset /\ at[s] # "failed" => HasAddr(s, host[s])
    BY <2>1, Zenon DEF HostsAreFound
  <2> QED  BY <2>1, <2>2, <2>3
<1> QED  BY InitIInv, StepIInv, StepHosts, <1>1, <1>2, PTL DEF Spec

=============================================================================
