------------------------------ MODULE MCStartUp ------------------------------
(* StartUp for the interfaces that hosts have: loopback, eth0, one that is   *)
(* down, another one, and an address that is not of the family AF_INET.      *)
EXTENDS StartUp, SequencesExt

lo    == [name |-> "lo", running |-> TRUE, inet |-> TRUE, apart |-> 127, addr |-> 1]
eth06 == [name |-> "eth0", running |-> TRUE, inet |-> FALSE, apart |-> 0, addr |-> 2]
eth0  == [name |-> "eth0", running |-> TRUE, inet |-> TRUE, apart |-> 10, addr |-> 3]
down  == [name |-> "eth1", running |-> FALSE, inet |-> TRUE, apart |-> 10, addr |-> 4]
wlan0 == [name |-> "wlan0", running |-> TRUE, inet |-> TRUE, apart |-> 192, addr |-> 5]

\* Loopback is there; two of the others may be, in any order.
Hosts == {list \in SetToAllKPermutations({lo, eth06, eth0, down, wlan0}) :
            lo \in ToSet(list) /\ Len(list) <= 3}

=============================================================================
