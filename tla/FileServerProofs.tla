-------------------------- MODULE FileServerProofs --------------------------
(* Theorems about the file server for every number of clients, descriptors,  *)
(* directory ids and paths, and for careful and careless clients.            *)
EXTENDS FileServer, DataLemmas, SequenceTheorems, TLAPS

-----------------------------------------------------------------------------
(* What the three list functions return, for every list.                     *)

\* The search finds the first record that matches, or nothing if none does.
LEMMA FindFirst ==
  ASSUME NEW S, NEW list \in Seq(S), NEW fd, NEW path
  PROVE  \/ /\ \A i \in 1..Len(list) : ~ Matches(list[i], fd, path)
            /\ find_resource(list, fd, path) = NoResource
         \/ \E k \in 1..Len(list) :
              /\ Matches(list[k], fd, path)
              /\ find_resource(list, fd, path) = list[k]
              /\ \A i \in 1..Len(list) : Matches(list[i], fd, path) => k <= i
<1> DEFINE I == {i \in 1..Len(list) : Matches(list[i], fd, path)}
<1>1. I \in SUBSET Nat
  OBVIOUS
<1>2. CASE I = {}
  BY <1>2 DEF find_resource, SelectInSeq
<1>3. CASE I # {}
  <2>1. Min(I) \in I /\ \A j \in I : Min(I) <= j
    BY <1>1, <1>3, MinOfNats
  <2>2. find_resource(list, fd, path) = list[Min(I)]
    BY <1>3, <2>1 DEF find_resource, SelectInSeq
  <2> QED  BY <2>1, <2>2
<1> QED  BY <1>2, <1>3

\* Removal takes out the first record that matches and that id owns; the others
\* keep their order.
LEMMA RemoveFirstOwned ==
  ASSUME NEW S, NEW list \in Seq(S), NEW id, NEW fd, NEW path
  PROVE  LET rest == remove_resource(list, id, fd, path) IN
         \/ /\ \A i \in 1..Len(list) : ~ (Matches(list[i], fd, path) /\ list[i].id = id)
            /\ rest = list
         \/ \E k \in 1..Len(list) :
              /\ Matches(list[k], fd, path) /\ list[k].id = id
              /\ \A i \in 1..Len(list) :
                   Matches(list[i], fd, path) /\ list[i].id = id => k <= i
              /\ rest \in Seq(S)
              /\ Len(rest) = Len(list) - 1
              /\ \A i \in 1..Len(rest) :
                   rest[i] = IF i < k THEN list[i] ELSE list[i + 1]
<1> DEFINE rest == remove_resource(list, id, fd, path)
<1> DEFINE I == {i \in 1..Len(list) : Matches(list[i], fd, path) /\ list[i].id = id}
<1> DEFINE k == Min(I)
<1>1. I \in SUBSET Nat
  OBVIOUS
<1>2. CASE I = {}
  BY <1>2 DEF remove_resource, RemoveFirstMatch
<1>3. CASE I # {}
  <2>1. k \in I /\ \A j \in I : k <= j
    BY <1>1, <1>3, MinOfNats
  <2>2. rest = RemoveAt(list, k)
    BY <1>3 DEF remove_resource, RemoveFirstMatch, SelectInSeq
  <2>3. k \in 1..Len(list) /\ Len(list) \in Nat
    BY <2>1
  <2> HIDE DEF I, k
  <2> DEFINE a == SubSeq(list, 1, k - 1)
             b == SubSeq(list, k + 1, Len(list))
  <2>4. /\ a \in Seq(S)
        /\ Len(a) = k - 1
        /\ \A i \in 1..(k - 1) : a[i] = list[i]
    BY <2>3, SubSeqProperties, ElementOfSeq
  <2>5. /\ b \in Seq(S)
        /\ Len(b) = Len(list) - k
        /\ \A i \in 1..(Len(list) - k) : b[i] = list[k + i]
    BY <2>3, SubSeqProperties, ElementOfSeq
  <2>6. rest = a \o b
    BY <2>2 DEF RemoveAt
  <2> HIDE DEF a, b, rest
  <2>7. /\ rest \in Seq(S)
        /\ Len(rest) = Len(list) - 1
        /\ \A i \in 1..Len(rest) : rest[i] = IF i <= k - 1 THEN a[i] ELSE b[i - (k - 1)]
    <3>1. /\ rest \in Seq(S)
          /\ Len(rest) = Len(a) + Len(b)
          /\ \A i \in 1..(Len(a) + Len(b)) :
               rest[i] = IF i <= Len(a) THEN a[i] ELSE b[i - Len(a)]
      BY <2>4, <2>5, <2>6, ConcatProperties
    <3>2. Len(a) + Len(b) = Len(list) - 1
      BY <2>3, <2>4, <2>5
    <3> QED  BY <2>4, <3>1, <3>2
  <2>8. \A i \in 1..Len(rest) : rest[i] = IF i < k THEN list[i] ELSE list[i + 1]
    BY <2>3, <2>4, <2>5, <2>7
  <2> QED  BY <2>1, <2>3, <2>7, <2>8 DEF I, rest
<1> QED  BY <1>2, <1>3

\* A path or a descriptor search on a list of records.
LEMMA FindByPath ==
  ASSUME NEW list \in Seq(Resource), NEW path \in Path
  PROVE  \/ /\ find_resource(list, 0, path) = NoResource
            /\ \A i \in 1..Len(list) : list[i].path # path
         \/ /\ find_resource(list, 0, path) # NoResource
            /\ \E k \in 1..Len(list) :
                 find_resource(list, 0, path) = list[k] /\ list[k].path = path
<1>1. NoResource.path = NoPath /\ NoPath # path
  BY NoPathAssumption DEF NoResource
<1>2. \A i \in 1..Len(list) : Matches(list[i], 0, path) <=> list[i].path = path
  BY <1>1 DEF Matches
<1> QED  BY <1>1, <1>2, FindFirst

\* Adding a record leaves the others in place.
LEMMA AddInFront ==
  ASSUME NEW list \in Seq(Resource), NEW lock \in {0, 1}, NEW id \in Nat \ {0},
         NEW fd \in Int, NEW path \in Path
  PROVE  LET added == add_resource(list, lock, id, fd, path) IN
         /\ added \in Seq(Resource)
         /\ Len(added) = Len(list) + 1
         /\ added[1] = [lock_type |-> lock, id |-> id, fd |-> fd, path |-> path]
         /\ \A i \in 1..Len(list) : added[i + 1] = list[i]
<1> DEFINE res == [lock_type |-> lock, id |-> id, fd |-> fd, path |-> path]
<1>1. res \in Resource
  BY DEF Resource
<1>2. <<res>> \in Seq(Resource) /\ Len(<<res>>) = 1 /\ <<res>>[1] = res
  BY <1>1
<1> DEFINE s == <<res>>
<1> HIDE DEF s
<1>3. /\ s \o list \in Seq(Resource)
      /\ Len(s \o list) = Len(s) + Len(list)
      /\ \A i \in 1 .. Len(s) + Len(list) : (s \o list)[i] =
              IF i <= Len(s) THEN s[i] ELSE list[i - Len(s)]
  BY <1>2, ConcatProperties DEF s
<1>4. Len(s) = 1 /\ s[1] = res
  BY <1>2 DEF s
<1>5. Len(list) \in Nat
  BY LenProperties
<1>6. (s \o list)[1] = res /\ \A i \in 1..Len(list) : (s \o list)[i + 1] = list[i]
  BY <1>3, <1>4, <1>5
<1> QED  BY <1>3, <1>4, <1>5, <1>6 DEF add_resource, Cons, s

\* Adding a record and removing "the old one" of the same path and client, as
\* fsOpen and fsOpenDir do, leaves the list as it was: the record removed is
\* the one just added.
LEMMA AddThenRemove ==
  ASSUME NEW list \in Seq(Resource), NEW lock \in {0, 1}, NEW id \in Nat \ {0},
         NEW fd \in Int, NEW path \in Path
  PROVE  remove_resource(add_resource(list, lock, id, fd, path), id, 0, path) = list
<1> DEFINE added == add_resource(list, lock, id, fd, path)
           rest  == remove_resource(added, id, 0, path)
<1>1. /\ added \in Seq(Resource)
      /\ Len(added) = Len(list) + 1
      /\ added[1] = [lock_type |-> lock, id |-> id, fd |-> fd, path |-> path]
      /\ \A i \in 1..Len(list) : added[i + 1] = list[i]
  BY AddInFront
<1>2. Len(list) \in Nat
  BY LenProperties
<1>3. Matches(added[1], 0, path) /\ added[1].id = id
  BY <1>1, NoPathAssumption DEF Matches
<1> HIDE DEF added
<1>4. /\ rest \in Seq(Resource)
      /\ Len(rest) = Len(list)
      /\ \A i \in 1..Len(rest) : rest[i] = added[i + 1]
  <2>1. 1 \in 1..Len(added)
    BY <1>1, <1>2
  <2>2. PICK k \in 1..Len(added) :
          /\ \A i \in 1..Len(added) :
               Matches(added[i], 0, path) /\ added[i].id = id => k <= i
          /\ rest \in Seq(Resource)
          /\ Len(rest) = Len(added) - 1
          /\ \A i \in 1..Len(rest) : rest[i] = IF i < k THEN added[i] ELSE added[i + 1]
    <3>1. \E i \in 1..Len(added) : Matches(added[i], 0, path) /\ added[i].id = id
      BY <1>3, <2>1
    <3>2. added \in Seq(Resource)
      BY <1>1
    <3> QED  BY ONLY <3>1, <3>2, RemoveFirstOwned, SMTT(30)
  <2>3. k = 1
    BY <1>1, <1>2, <1>3, <2>1, <2>2
  <2> QED  BY <1>1, <1>2, <2>2, <2>3
<1> HIDE DEF rest
<1>5. rest = list
  BY <1>1, <1>4, SeqEqual
<1> QED  BY <1>5 DEF rest, added

\* With one record per path, a record is the one its path leads to.
LEMMA RecordOfPath ==
  ASSUME NEW list \in Seq(Resource), OnePerPath(list), NEW k \in 1..Len(list)
  PROVE  /\ list[k].path \in Path
         /\ list[k].id # 0
         /\ find_resource(list, 0, list[k].path) = list[k]
         /\ HolderOf(list, list[k].path) = list[k].id
<1>1. list[k] \in Resource
  BY ElementOfSeq
<1>2. list[k].path \in Path /\ list[k].id # 0
  BY <1>1 DEF Resource
<1>3. find_resource(list, 0, list[k].path) = list[k]
  <2>1. PICK j \in 1..Len(list) :
          /\ find_resource(list, 0, list[k].path) = list[j]
          /\ list[j].path = list[k].path
    BY <1>2, FindByPath
  <2>2. j = k
    BY <2>1, LenProperties DEF OnePerPath
  <2> QED  BY <2>1, <2>2
<1> QED  BY <1>2, <1>3 DEF HolderOf

\* A path without a record is free.
LEMMA FreePath ==
  ASSUME NEW list \in Seq(Resource), NEW path \in Path,
         \A i \in 1..Len(list) : list[i].path # path
  PROVE  HolderOf(list, path) = 0
BY FindByPath DEF HolderOf, NoResource

\* A lock that is added changes the holder of its own path only.
LEMMA AddKeeps ==
  ASSUME NEW list \in Seq(Resource), OnePerPath(list),
         NEW lock \in {0, 1}, NEW id \in Nat \ {0}, NEW fd \in Int, NEW path \in Path,
         find_resource(list, 0, path) = NoResource
  PROVE  LET added == add_resource(list, lock, id, fd, path) IN
         /\ added \in Seq(Resource)
         /\ OnePerPath(added)
         /\ HolderOf(list, path) = 0
         /\ \A p \in Path : HolderOf(added, p) = IF p = path THEN id ELSE HolderOf(list, p)
<1> DEFINE added == add_resource(list, lock, id, fd, path)
<1>1. /\ added \in Seq(Resource)
      /\ Len(added) = Len(list) + 1
      /\ added[1] = [lock_type |-> lock, id |-> id, fd |-> fd, path |-> path]
      /\ \A i \in 1..Len(list) : added[i + 1] = list[i]
  BY AddInFront
<1>2. Len(list) \in Nat /\ DOMAIN list = 1..Len(list) /\ DOMAIN added = 1..Len(added)
  BY <1>1, LenProperties
<1>3. \A i \in 1..Len(list) : list[i].path # path
  BY FindByPath
<1> HIDE DEF added
<1>4. \A i \in 1..Len(added) : i = 1 \/ (i - 1 \in 1..Len(list) /\ added[i] = list[i - 1])
  BY <1>1, <1>2
<1>5. added[1].path = path /\ added[1].id = id
  BY <1>1
<1>6. OnePerPath(added)
  <2> SUFFICES ASSUME NEW i \in 1..Len(added), NEW j \in 1..Len(added),
                      added[i].path = added[j].path
               PROVE  i = j
    BY <1>2 DEF OnePerPath
  <2>1. CASE i = 1 \/ j = 1
    BY <1>3, <1>4, <1>5, <2>1
  <2>2. CASE i # 1 /\ j # 1
    <3>1. i - 1 = j - 1
      BY <1>2, <1>4, <2>2 DEF OnePerPath
    <3> QED  BY <1>1, <1>2, <3>1
  <2> QED  BY <2>1, <2>2
<1>7. ASSUME NEW p \in Path
      PROVE  HolderOf(added, p) = IF p = path THEN id ELSE HolderOf(list, p)
  <2>1. CASE p = path
    <3>1. 1 \in 1..Len(added)
      BY <1>1, <1>2
    <3> QED  BY <1>1, <1>5, <1>6, <2>1, <3>1, RecordOfPath
  <2>2. CASE p # path /\ \E i \in 1..Len(list) : list[i].path = p
    <3>1. PICK i \in 1..Len(list) : list[i].path = p
      BY <2>2
    <3>2. i + 1 \in 1..Len(added) /\ added[i + 1] = list[i]
      BY <1>1, <1>2
    <3>3. HolderOf(list, p) = list[i].id
      BY <3>1, RecordOfPath
    <3>4. HolderOf(added, p) = list[i].id
      BY <1>1, <1>6, <3>1, <3>2, RecordOfPath
    <3> QED  BY <2>2, <3>3, <3>4
  <2>3. CASE p # path /\ \A i \in 1..Len(list) : list[i].path # p
    <3>1. \A i \in 1..Len(added) : added[i].path # p
      BY <1>4, <1>5, <2>3
    <3> QED  BY <1>1, <2>3, <3>1, FreePath
  <2> QED  BY <2>1, <2>2, <2>3
<1>8. HolderOf(list, path) = 0
  BY <1>3, FreePath
<1> QED  BY <1>1, <1>6, <1>7, <1>8 DEF added

\* A removal on behalf of id frees at most one path, and one that id holds.
LEMMA RemoveKeeps ==
  ASSUME NEW list \in Seq(Resource), OnePerPath(list), NEW id, NEW fd, NEW path
  PROVE  LET rest == remove_resource(list, id, fd, path) IN
         /\ rest \in Seq(Resource)
         /\ OnePerPath(rest)
         /\ \/ rest = list
            \/ \E k \in 1..Len(list) :
                 /\ Matches(list[k], fd, path) /\ list[k].id = id
                 /\ \A p \in Path : HolderOf(rest, p) =
                      IF p = list[k].path THEN 0 ELSE HolderOf(list, p)
<1> DEFINE rest == remove_resource(list, id, fd, path)
<1>1. CASE rest = list
  BY <1>1
<1>2. CASE rest # list
  <2>1. PICK k \in 1..Len(list) :
          /\ Matches(list[k], fd, path) /\ list[k].id = id
          /\ rest \in Seq(Resource)
          /\ Len(rest) = Len(list) - 1
          /\ \A i \in 1..Len(rest) : rest[i] = IF i < k THEN list[i] ELSE list[i + 1]
    BY <1>2, RemoveFirstOwned
  <2>2. Len(list) \in Nat /\ DOMAIN list = 1..Len(list) /\ DOMAIN rest = 1..Len(rest)
    BY <2>1, LenProperties
  <2> HIDE DEF rest
  <2>3. OnePerPath(rest)
    <3> SUFFICES ASSUME NEW i \in 1..Len(rest), NEW j \in 1..Len(rest),
                        rest[i].path = rest[j].path
                 PROVE  i = j
      BY <2>2 DEF OnePerPath
    <3> DEFINE from(n) == IF n < k THEN n ELSE n + 1
    <3>1. from(i) \in 1..Len(list) /\ from(j) \in 1..Len(list)
      BY <2>1, <2>2
    <3>2. list[from(i)].path = list[from(j)].path
      BY <2>1
    <3>3. from(i) = from(j)
      BY <2>2, <3>1, <3>2 DEF OnePerPath
    <3> QED  BY <2>1, <2>2, <3>3
  <2>4. ASSUME NEW p \in Path
        PROVE  HolderOf(rest, p) = IF p = list[k].path THEN 0 ELSE HolderOf(list, p)
    <3>1. \A i \in 1..Len(rest) : rest[i].path # list[k].path
      <4> SUFFICES ASSUME NEW i \in 1..Len(rest), rest[i].path = list[k].path
                   PROVE  FALSE
        OBVIOUS
      <4> DEFINE n == IF i < k THEN i ELSE i + 1
      <4>1. n \in 1..Len(list) /\ n # k /\ list[n] = rest[i]
        BY <2>1, <2>2
      <4> QED  BY <2>2, <4>1 DEF OnePerPath
    <3>2. CASE p = list[k].path
      BY <2>1, <3>1, <3>2, FreePath
    <3>3. CASE p # list[k].path /\ \E i \in 1..Len(list) : list[i].path = p
      <4>1. PICK i \in 1..Len(list) : list[i].path = p
        BY <3>3
      <4> DEFINE n == IF i < k THEN i ELSE i - 1
      <4>2. i # k
        BY <3>3, <4>1
      <4>3. n \in 1..Len(rest) /\ rest[n] = list[i]
        BY <2>1, <2>2, <4>2
      <4> HIDE DEF n
      <4>4. HolderOf(rest, p) = list[i].id
        BY <2>1, <2>3, <4>1, <4>3, RecordOfPath
      <4>5. HolderOf(list, p) = list[i].id
        BY <4>1, RecordOfPath
      <4> QED  BY <3>3, <4>4, <4>5
    <3>4. CASE p # list[k].path /\ \A i \in 1..Len(list) : list[i].path # p
      <4>1. \A i \in 1..Len(rest) : rest[i].path # p
        BY <2>1, <2>2, <3>4
      <4>2. HolderOf(rest, p) = 0
        BY <2>1, <4>1, FreePath
      <4>3. HolderOf(list, p) = 0
        BY <3>4, FreePath
      <4> QED  BY <3>4, <4>2, <4>3
    <3> QED  BY <3>2, <3>3, <3>4
  <2> QED  BY <2>1, <2>3, <2>4 DEF rest
<1> QED  BY <1>1, <1>2

-----------------------------------------------------------------------------
(* The list as a set of records.                                             *)

\* A path has at most one record.
LEMMA RecordsDistinct ==
  ASSUME NEW list \in Seq(Resource), OnePerPath(list),
         NEW r \in ToSet(list), NEW s \in ToSet(list), r.path = s.path
  PROVE  r = s
BY DEF ToSet, OnePerPath

\* Every record is one: its path is a path, its client is not 0.
LEMMA RecordsTyped ==
  ASSUME NEW list \in Seq(Resource)
  PROVE  ToSet(list) \subseteq Resource
<1>1. ASSUME NEW i \in DOMAIN list
      PROVE  list[i] \in Resource
  BY LenProperties, ElementOfSeq
<1> QED  BY <1>1 DEF ToSet

\* A client holds the lock of a path if and only if it has a record of it.
LEMMA HolderRecord ==
  ASSUME NEW list \in Seq(Resource), OnePerPath(list), NEW path \in Path, NEW id, id # 0
  PROVE  HolderOf(list, path) = id <=> \E r \in ToSet(list) : r.path = path /\ r.id = id
<1>1. DOMAIN list = 1..Len(list)
  BY LenProperties
<1>2. ASSUME HolderOf(list, path) = id
      PROVE  \E r \in ToSet(list) : r.path = path /\ r.id = id
  <2>1. find_resource(list, 0, path) # NoResource
    BY <1>2 DEF HolderOf, NoResource
  <2> QED  BY <1>1, <1>2, <2>1, FindByPath DEF HolderOf, ToSet
<1>3. ASSUME NEW r \in ToSet(list), r.path = path, r.id = id
      PROVE  HolderOf(list, path) = id
  <2>1. PICK k \in 1..Len(list) : r = list[k]
    BY <1>1 DEF ToSet
  <2> QED  BY <1>3, <2>1, RecordOfPath
<1> QED  BY <1>2, <1>3

\* Adding a record adds it to the set.
LEMMA RecordsOfAdd ==
  ASSUME NEW list \in Seq(Resource), NEW lock \in {0, 1}, NEW id \in Nat \ {0},
         NEW fd \in Int, NEW path \in Path
  PROVE  ToSet(add_resource(list, lock, id, fd, path)) =
           ToSet(list) \cup {[lock_type |-> lock, id |-> id, fd |-> fd, path |-> path]}
<1> DEFINE added == add_resource(list, lock, id, fd, path)
           new   == [lock_type |-> lock, id |-> id, fd |-> fd, path |-> path]
<1>1. /\ added \in Seq(Resource)
      /\ Len(added) = Len(list) + 1
      /\ added[1] = new
      /\ \A i \in 1..Len(list) : added[i + 1] = list[i]
  BY AddInFront
<1> HIDE DEF added, new
<1>2. Len(list) \in Nat /\ DOMAIN list = 1..Len(list) /\ DOMAIN added = 1..Len(added)
  BY <1>1, LenProperties
<1>3. \A i \in 1..Len(added) : i = 1 \/ (i - 1 \in 1..Len(list) /\ added[i] = list[i - 1])
  BY <1>1, <1>2
<1>4. ASSUME NEW i \in DOMAIN added
      PROVE  added[i] \in ToSet(list) \cup {new}
  <2>1. CASE i = 1
    BY <1>1, <2>1
  <2>2. CASE i - 1 \in DOMAIN list /\ added[i] = list[i - 1]
    BY <2>2 DEF ToSet
  <2> QED  BY <1>2, <1>3, <2>1, <2>2
<1>5. ASSUME NEW i \in 1..Len(list)
      PROVE  list[i] \in ToSet(added)
  <2>1. i + 1 \in DOMAIN added /\ added[i + 1] = list[i]
    BY <1>1, <1>2
  <2> QED  BY <2>1 DEF ToSet
<1>6. new \in ToSet(added)
  <2>1. 1 \in DOMAIN added
    BY <1>1, <1>2
  <2> QED  BY <1>1, <2>1 DEF ToSet
<1>7. ToSet(list) \subseteq ToSet(added)
  BY <1>2, <1>5 DEF ToSet
<1>8. ToSet(added) \subseteq ToSet(list) \cup {new}
  BY <1>4 DEF ToSet
<1> QED  BY <1>6, <1>7, <1>8 DEF added, new

\* Removing takes a record of the client that matches out of the set, if there
\* is one, and nothing else.
LEMMA RecordsOfRemove ==
  ASSUME NEW list \in Seq(Resource), OnePerPath(list), NEW id, NEW fd, NEW path
  PROVE  LET rest == remove_resource(list, id, fd, path) IN
         \/ /\ \A r \in ToSet(list) : ~ (Matches(r, fd, path) /\ r.id = id)
            /\ rest = list
         \/ \E r \in ToSet(list) :
              /\ Matches(r, fd, path) /\ r.id = id
              /\ ToSet(rest) = ToSet(list) \ {r}
<1> DEFINE rest == remove_resource(list, id, fd, path)
<1>1. Len(list) \in Nat /\ DOMAIN list = 1..Len(list)
  BY LenProperties
<1>2. CASE /\ \A i \in 1..Len(list) : ~ (Matches(list[i], fd, path) /\ list[i].id = id)
           /\ rest = list
  BY <1>1, <1>2 DEF ToSet
<1>3. ASSUME NEW k \in 1..Len(list),
             Matches(list[k], fd, path) /\ list[k].id = id,
             rest \in Seq(Resource),
             Len(rest) = Len(list) - 1,
             \A i \in 1..Len(rest) : rest[i] = IF i < k THEN list[i] ELSE list[i + 1]
      PROVE  ToSet(rest) = ToSet(list) \ {list[k]}
  <2> HIDE DEF rest
  <2>1. DOMAIN rest = 1..Len(rest)
    BY <1>3, LenProperties
  <2>2. \A i, j \in 1..Len(list) : list[i] = list[j] => i = j
    BY <1>1 DEF OnePerPath
  <2>3. ASSUME NEW i \in 1..Len(rest)
        PROVE  rest[i] \in ToSet(list) \ {list[k]}
    <3> DEFINE j == IF i < k THEN i ELSE i + 1
    <3>1. j \in 1..Len(list) /\ j # k /\ rest[i] = list[j]
      BY <1>1, <1>3
    <3> HIDE DEF j
    <3>2. list[j] # list[k]
      BY <2>2, <3>1
    <3> QED  BY <1>1, <3>1, <3>2 DEF ToSet
  <2>4. ASSUME NEW j \in 1..Len(list), list[j] # list[k]
        PROVE  list[j] \in ToSet(rest)
    <3> DEFINE i == IF j < k THEN j ELSE j - 1
    <3>1. j # k
      BY <2>4
    <3>2. i \in 1..Len(rest) /\ rest[i] = list[j]
      BY <1>1, <1>3, <3>1
    <3> QED  BY <2>1, <3>2 DEF ToSet
  <2> QED  BY <1>1, <2>1, <2>3, <2>4 DEF ToSet
<1>4. \A k \in 1..Len(list) : list[k] \in ToSet(list)
  BY <1>1 DEF ToSet
<1>5. CASE \E k \in 1..Len(list) :
              /\ Matches(list[k], fd, path) /\ list[k].id = id
              /\ rest \in Seq(Resource)
              /\ Len(rest) = Len(list) - 1
              /\ \A i \in 1..Len(rest) : rest[i] = IF i < k THEN list[i] ELSE list[i + 1]
  BY <1>3, <1>4, <1>5
<1> QED  BY <1>2, <1>5, RemoveFirstOwned


-----------------------------------------------------------------------------
(* The file server.                                                          *)
USE ServerAssumption DEF Client, Fd, DirId, FirstFd

\* open() and opendir() return a free descriptor of the table.
LEMMA LowestFree ==
  ASSUME FreeFds # {}
  PROVE  Min(FreeFds) \in Fd /\ fdtab[Min(FreeFds)].kind = "closed"
<1>1. FreeFds \in SUBSET Nat
  BY DEF FreeFds
<1>2. Min(FreeFds) \in FreeFds
  BY <1>1, MinOfNats
<1> QED  BY <1>2 DEF FreeFds

\* Giving a lock away leaves a table of entries.
LEMMA UnlockedTyped ==
  ASSUME TypeOK, NEW id, NEW path
  PROVE  WithoutLock(id, path) \in [Fd -> Entry]
<1>1. ASSUME NEW fd \in Fd
      PROVE  [fdtab[fd] EXCEPT !.unlocked = TRUE] \in Entry /\ fdtab[fd] \in Entry
  BY DEF TypeOK, Entry
<1> QED  BY <1>1 DEF WithoutLock

\* Descriptors handed to the handlers are integers.
LEMMA HandleTypes ==
  ASSUME TypeOK, NEW id
  PROVE  DirHandles(id) \subseteq Int
BY DEF TypeOK, DirHandles, Entry, EAGAIN

\* What fsOpen and fsOpenDir do to the list: nothing if the client already has
\* a record of the path, and a new record in front if nobody has one.
LEMMA RelockStep ==
  ASSUME TypeOK, NEW lock \in {0, 1}, NEW id \in Client, NEW fd \in Int, NEW path \in Path,
         ~ HeldByOther(find_resource(resource_list, 0, path), id),
         Relock(lock, id, fd, path)
  PROVE  \/ /\ find_resource(resource_list, 0, path) # NoResource
            /\ resource_list' = resource_list
         \/ /\ find_resource(resource_list, 0, path) = NoResource
            /\ resource_list' = add_resource(resource_list, lock, id, fd, path)
<1>1. resource_list \in Seq(Resource) /\ id \in Nat \ {0}
  BY DEF TypeOK
<1>2. remove_resource(add_resource(resource_list, lock, id, fd, path), id, 0, path)
        = resource_list
  BY <1>1, AddThenRemove
<1> QED  BY <1>2 DEF Relock

AddStep ==
  \E id \in Client, lock \in {0, 1}, fd \in Int, path \in Path :
    /\ find_resource(resource_list, 0, path) = NoResource
    /\ resource_list' = add_resource(resource_list, lock, id, fd, path)

RemoveStep ==
  \E id \in Client, fd \in Int, path \in Path \cup {NoPath} :
    resource_list' = remove_resource(resource_list, id, fd, path)

\* Every step leaves the list alone, adds a record of a free path, or removes
\* a record of the calling client.
LEMMA ListStep ==
  ASSUME TypeOK, [Next]_vars
  PROVE  resource_list' = resource_list \/ AddStep \/ RemoveStep
<1> USE DEF tables, kernel, Answer, Refused, Crash
<1>1. CASE UNCHANGED vars
  BY <1>1 DEF vars
<1>2. CASE CallMount
  BY <1>2 DEF CallMount, fsMount
<1>3. ASSUME NEW id \in Client, CallUnmount(id)
      PROVE  resource_list' = resource_list
  BY <1>3 DEF CallUnmount, fsUnmount
<1>4. ASSUME NEW id \in Client, CallReadDir(id)
      PROVE  resource_list' = resource_list
  BY <1>4 DEF CallReadDir, fsReadDir
<1>5. ASSUME NEW id \in Client, CallCloseDir(id)
      PROVE  resource_list' = resource_list \/ RemoveStep
  <2>1. PICK d \in Int : fsCloseDir(id, d)
    BY <1>5, HandleTypes DEF CallCloseDir
  <2> QED  BY <2>1 DEF fsCloseDir, CloseDirRefused, CloseDirPasses, RemoveStep
<1>6. ASSUME NEW id \in Client, NEW path \in Path, CallOpenDir(id, path)
      PROVE  resource_list' = resource_list \/ AddStep
  <2>1. CASE Refused(find_resource(resource_list, 0, path), id) \/ OpenDirFails(id, path)
    BY <2>1 DEF OpenDirFails
  <2>2. CASE OpenDirSucceeds(id, path)
    <3>1. open_dir_id + 1 \in Int
      BY DEF TypeOK
    <3>2. /\ ~ HeldByOther(find_resource(resource_list, 0, path), id)
          /\ Relock(1, id, open_dir_id + 1, path)
      BY <2>2 DEF OpenDirSucceeds, NewDirId
    <3>3. \/ resource_list' = resource_list
          \/ /\ find_resource(resource_list, 0, path) = NoResource
             /\ resource_list' = add_resource(resource_list, 1, id, open_dir_id + 1, path)
      BY <3>1, <3>2, RelockStep
    <3> QED  BY <3>1, <3>3 DEF AddStep
  <2> QED  BY <1>6, <2>1, <2>2 DEF CallOpenDir, fsOpenDir
<1>7. ASSUME NEW id \in Client, NEW path \in Path, CallRemove(id, path)
      PROVE  resource_list' = resource_list \/ RemoveStep
  BY <1>7 DEF CallRemove, fsRemove, RemoveSucceeds, RemoveFails, Unlock, RemoveStep
<1>8. ASSUME NEW id \in Client, NEW path \in Path, CallOpen(id, path)
      PROVE  resource_list' = resource_list \/ AddStep
  <2>1. PICK mode \in {0, 1} : fsOpen(id, mode, path)
    BY <1>8 DEF CallOpen
  <2>2. CASE Refused(find_resource(resource_list, 0, path), id)
    BY <2>2
  <2>3. ASSUME NEW fd \in Int, Relock(mode, id, fd, path),
               ~ HeldByOther(find_resource(resource_list, 0, path), id)
        PROVE  resource_list' = resource_list \/ AddStep
    BY <2>3, RelockStep DEF AddStep
  <2>4. CASE OpenSucceeds(id, mode, path)
    <3>1. FreeFds # {}
      BY <2>4 DEF OpenSucceeds, open_errno, EMFILE
    <3>2. Min(FreeFds) \in Int
      BY <3>1, LowestFree
    <3> QED  BY <2>3, <2>4, <3>2 DEF OpenSucceeds
  <2>5. CASE OpenFails(id, mode, path)
    BY <2>3, <2>5 DEF OpenFails
  <2> QED  BY <2>1, <2>2, <2>4, <2>5 DEF fsOpen
<1>9. ASSUME NEW id \in Client, NEW fd \in Fd, CallClose(id, fd)
      PROVE  resource_list' = resource_list \/ RemoveStep
  BY <1>9 DEF CallClose, fsClose, ClosePasses, RemoveStep
<1>10. ASSUME NEW id \in Client, NEW fd \in Fd, CallRead(id, fd) \/ CallWrite(id, fd)
       PROVE  resource_list' = resource_list
  BY <1>10 DEF CallRead, fsRead, CallWrite, fsWrite
<1> QED  BY <1>1, <1>2, <1>3, <1>4, <1>5, <1>6, <1>7, <1>8, <1>9, <1>10 DEF Next

-----------------------------------------------------------------------------
(* Types. *)

\* A new record, or a removal, leaves a list of records.
LEMMA ListTyped ==
  ASSUME TypeOK, resource_list' = resource_list \/ AddStep \/ RemoveStep
  PROVE  resource_list' \in Seq(Resource)
<1>1. resource_list \in Seq(Resource)
  BY DEF TypeOK
<1>2. CASE AddStep
  <2>1. PICK id \in Client, lock \in {0, 1}, fd \in Int, path \in Path :
          resource_list' = add_resource(resource_list, lock, id, fd, path)
    BY <1>2 DEF AddStep
  <2>2. id \in Nat \ {0}
    OBVIOUS
  <2> QED  BY <1>1, <2>1, <2>2, AddInFront
<1>3. CASE RemoveStep
  BY <1>1, <1>3, RemoveFirstOwned DEF RemoveStep
<1> QED  BY <1>1, <1>2, <1>3

\* The type invariant is preserved by every call.
LEMMA TypeOKStep ==
  ASSUME TypeOK, [Next]_vars
  PROVE  TypeOK'
<1>0. resource_list' \in Seq(Resource)
  BY ListStep, ListTyped
<1> USE <1>0 DEF tables, kernel, Answer, Refused, Crash,
                 ENOENT, EBADF, EAGAIN, EACCES, EISDIR, EMFILE
<1>1. CASE UNCHANGED vars
  BY <1>1 DEF vars, TypeOK
<1>2. CASE CallMount
  BY <1>2 DEF CallMount, fsMount, TypeOK
<1>3. ASSUME NEW id \in Client, CallUnmount(id)
      PROVE  TypeOK'
  BY <1>3 DEF CallUnmount, fsUnmount, TypeOK
<1>4. ASSUME NEW id \in Client, CallReadDir(id)
      PROVE  TypeOK'
  <2>1. CASE Crash
    BY <2>1 DEF TypeOK
  <2>2. CASE /\ Answer("dirent", 0) \/ Answer("null", 0)
             /\ UNCHANGED <<tables, running, kernel>>
    BY <2>2 DEF TypeOK
  <2> QED  BY <1>4, <2>1, <2>2 DEF CallReadDir, fsReadDir
<1>5. ASSUME NEW id \in Client, CallCloseDir(id)
      PROVE  TypeOK'
  <2>1. PICK d \in Int : fsCloseDir(id, d)
    BY <1>5, HandleTypes DEF CallCloseDir
  <2>2. Closed \in Entry
    BY DEF Closed, Entry
  <2>3. CASE CloseDirRefused(id)
    BY <2>3 DEF CloseDirRefused, TypeOK
  <2>4. CASE Crash
    BY <2>4 DEF TypeOK
  <2>5. CASE CloseDirPasses(id, d)
    <3>1. fdtab' \in [Fd -> Entry]
      <4> DEFINE dir   == find(open_dir_queue, d).dir
                 table == WithoutLock(id, fdtab[dir].path)
      <4>1. fdtab' = [table EXCEPT ![dir] = Closed]
        BY <2>5 DEF CloseDirPasses
      <4>2. table \in [Fd -> Entry]
        BY UnlockedTyped
      <4> HIDE DEF dir, table
      <4> QED  BY <2>2, <4>1, <4>2
    <3>2. ret' = [kind |-> "int", val |-> 0]
      BY <2>5 DEF CloseDirPasses
    <3>3. UNCHANGED <<client_id, open_dir_id, open_dir_queue, running, disk, clash>>
      BY <2>5 DEF CloseDirPasses
    <3> QED  BY <3>1, <3>2, <3>3 DEF TypeOK
  <2> QED  BY <2>1, <2>3, <2>4, <2>5 DEF fsCloseDir
<1>6. ASSUME NEW id \in Client, NEW path \in Path, CallOpenDir(id, path)
      PROVE  TypeOK'
  <2>1. CASE Refused(find_resource(resource_list, 0, path), id) \/ OpenDirFails(id, path)
    BY <2>1 DEF OpenDirFails, TypeOK
  <2>2. CASE OpenDirSucceeds(id, path)
    <3> DEFINE fd == Min(FreeFds)
               d  == open_dir_id + 1
    <3>1. fd \in Fd
      BY <2>2, LowestFree DEF OpenDirSucceeds
    <3>2. d \in DirId
      BY <2>2 DEF OpenDirSucceeds, NewDirId, TypeOK
    <3> DEFINE entry == [kind |-> "stream", mode |-> 0, path |-> path, by |-> id,
                         handle |-> d, unlocked |-> FALSE]
               node  == [id |-> d, dir |-> fd]
    <3>3. entry \in Entry /\ node \in Node
      BY <3>1, <3>2 DEF Entry, Node
    <3> HIDE DEF fd, d
    <3>4. open_dir_queue' \in Seq(Node)
      <4>1. open_dir_queue' = <<node>> \o open_dir_queue
        BY <2>2 DEF OpenDirSucceeds, NewDirId, Cons, fd, d
      <4>2. <<node>> \in Seq(Node) /\ open_dir_queue \in Seq(Node)
        BY <3>3 DEF TypeOK
      <4> QED  BY <4>1, <4>2, ConcatProperties
    <3>5. fdtab' \in [Fd -> Entry]
      <4>1. fdtab' = [fdtab EXCEPT ![fd] = entry]
        BY <2>2 DEF OpenDirSucceeds, NewDirId, Opened, fd, d
      <4> QED  BY <3>1, <3>3, <4>1 DEF TypeOK
    <3>6. /\ open_dir_id' = d
          /\ ret' = [kind |-> "int", val |-> d]
          /\ UNCHANGED <<client_id, running, disk>>
      BY <2>2 DEF OpenDirSucceeds, NewDirId, d
    <3>7. clash' \in BOOLEAN
      BY <2>2, Zenon DEF OpenDirSucceeds, Opened, TypeOK
    <3> QED  BY <3>2, <3>4, <3>5, <3>6, <3>7 DEF TypeOK
  <2> QED  BY <1>6, <2>1, <2>2 DEF CallOpenDir, fsOpenDir
<1>7. ASSUME NEW id \in Client, NEW path \in Path, CallRemove(id, path)
      PROVE  TypeOK'
  <2>1. CASE Refused(find_resource(resource_list, 0, path), id)
    BY <2>1 DEF TypeOK
  <2>2. CASE RemoveSucceeds(id, path)
    <3>1. Unlinked(id, path) \in [Fd -> Entry]
      <4> DEFINE table == WithoutLock(id, path)
      <4>1. table \in [Fd -> Entry]
        BY UnlockedTyped
      <4> HIDE DEF table
      <4>2. ASSUME NEW f \in Fd
            PROVE  [table[f] EXCEPT !.path = NoPath] \in Entry /\ fdtab[f] \in Entry
        BY <4>1 DEF Entry, TypeOK
      <4> QED  BY <4>2 DEF Unlinked, table
    <3> QED  BY <2>2, <3>1 DEF RemoveSucceeds, Unlock, TypeOK
  <2>3. CASE RemoveFails(id, path)
    BY <2>3, UnlockedTyped DEF RemoveFails, Unlock, TypeOK
  <2> QED  BY <1>7, <2>1, <2>2, <2>3 DEF CallRemove, fsRemove
<1>8. ASSUME NEW id \in Client, NEW path \in Path, CallOpen(id, path)
      PROVE  TypeOK'
  <2>1. PICK mode \in {0, 1} : fsOpen(id, mode, path)
    BY <1>8 DEF CallOpen
  <2>2. CASE Refused(find_resource(resource_list, 0, path), id)
    BY <2>2 DEF TypeOK
  <2>3. CASE OpenSucceeds(id, mode, path)
    <3> DEFINE fd   == Min(FreeFds)
               kind == IF disk[path] = "dir" THEN "dir" ELSE "file"
               entry == [kind |-> kind, mode |-> mode, path |-> path, by |-> id,
                         handle |-> fd, unlocked |-> FALSE]
    <3>1. fd \in Fd
      BY <2>3, LowestFree DEF OpenSucceeds, open_errno
    <3>2. entry \in Entry /\ kind \in {"none", "file", "dir"}
      BY <3>1 DEF Entry
    <3> HIDE DEF fd, kind
    <3>3. /\ fdtab' = [fdtab EXCEPT ![fd] = entry]
          /\ disk' = [disk EXCEPT ![path] = kind]
          /\ ret' = [kind |-> "int", val |-> fd]
          /\ UNCHANGED <<client_id, open_dir_id, open_dir_queue, running>>
      BY <2>3 DEF OpenSucceeds, Opened, fd, kind
    <3>4. ret' \in [kind : {"null", "int", "mount", "dirent", "data"}, val : Int]
      BY <3>1, <3>3
    <3>5. clash' \in BOOLEAN
      BY <2>3, Zenon DEF OpenSucceeds, Opened, TypeOK
    <3> QED  BY <3>1, <3>2, <3>3, <3>4, <3>5 DEF TypeOK
  <2>4. CASE OpenFails(id, mode, path)
    BY <2>4 DEF OpenFails, open_errno, TypeOK
  <2> QED  BY <2>1, <2>2, <2>3, <2>4 DEF fsOpen
<1>9. ASSUME NEW id \in Client, NEW fd \in Fd, CallClose(id, fd)
      PROVE  TypeOK'
  <2>1. Closed \in Entry
    BY DEF Closed, Entry
  <2>2. CASE Refused(find_resource(resource_list, fd, NoPath), id)
    BY <2>2 DEF TypeOK
  <2>3. CASE ClosePasses(id, fd)
    BY <2>1, <2>3, UnlockedTyped DEF ClosePasses, TypeOK
  <2> QED  BY <1>9, <2>2, <2>3 DEF CallClose, fsClose
<1>10. ASSUME NEW id \in Client, NEW fd \in Fd, CallRead(id, fd)
       PROVE  TypeOK'
  <2>1. CASE Crash
    BY <2>1 DEF TypeOK
  <2>2. CASE Answer("data", 0) /\ UNCHANGED <<tables, running, kernel>>
    BY <2>2 DEF TypeOK
  <2> QED  BY <1>10, <2>1, <2>2 DEF CallRead, fsRead
<1>11. ASSUME NEW id \in Client, NEW fd \in Fd, CallWrite(id, fd)
       PROVE  TypeOK'
  <2>1. CASE Refused(find_resource(resource_list, fd, NoPath), id)
    BY <2>1 DEF TypeOK
  <2>2. ASSUME NEW n \in Int, Answer("int", n), UNCHANGED <<tables, running, kernel>>
        PROVE  TypeOK'
    BY <2>2 DEF TypeOK
  <2> QED  BY <1>11, <2>1, <2>2 DEF CallWrite, fsWrite
<1> QED
  BY <1>1, <1>2, <1>3, <1>4, <1>5, <1>6, <1>7, <1>8, <1>9, <1>10, <1>11 DEF Next

\* The server starts well-typed.
LEMMA TypeOKInit == Init => TypeOK
<1>1. Closed \in Entry
  BY DEF Closed, Entry
<1>2. Init => clash \in BOOLEAN
  BY DEF Init
<1> HIDE DEF Closed
<1> QED  BY <1>1, <1>2, EmptySeq DEF Init, TypeOK

\* Type correctness of the server's state.
THEOREM TypeCorrect == Spec => []TypeOK
BY TypeOKInit, TypeOKStep, PTL DEF Spec

-----------------------------------------------------------------------------
(* One lock per path. *)

\* A step of the list keeps it one record per path, and either keeps every
\* holder, or gives one free path to one client, or frees one path.
LEMMA LockStep ==
  ASSUME TypeOK, OneRecordPerPath, [Next]_vars
  PROVE  /\ OneRecordPerPath'
         /\ \/ \A p \in Path : HolderOf(resource_list', p) = HolderOf(resource_list, p)
            \/ \E id \in Client, q \in Path :
                 /\ HolderOf(resource_list, q) = 0
                 /\ \A p \in Path : HolderOf(resource_list', p) =
                      IF p = q THEN id ELSE HolderOf(resource_list, p)
            \/ \E id \in Client, q \in Path :
                 /\ HolderOf(resource_list, q) = id
                 /\ \A p \in Path : HolderOf(resource_list', p) =
                      IF p = q THEN 0 ELSE HolderOf(resource_list, p)
<1>1. resource_list \in Seq(Resource) /\ OnePerPath(resource_list)
  BY DEF TypeOK, OneRecordPerPath
<1>2. resource_list' = resource_list \/ AddStep \/ RemoveStep
  BY ListStep
<1>3. CASE resource_list' = resource_list
  BY <1>1, <1>3 DEF OneRecordPerPath
<1>4. CASE AddStep
  <2>1. PICK id \in Client, lock \in {0, 1}, fd \in Int, path \in Path :
          /\ find_resource(resource_list, 0, path) = NoResource
          /\ resource_list' = add_resource(resource_list, lock, id, fd, path)
    BY <1>4 DEF AddStep
  <2>2. id \in Nat \ {0}
    OBVIOUS
  <2>3. /\ OnePerPath(resource_list')
        /\ HolderOf(resource_list, path) = 0
        /\ \A p \in Path : HolderOf(resource_list', p) =
             IF p = path THEN id ELSE HolderOf(resource_list, p)
    BY <1>1, <2>1, <2>2, AddKeeps
  <2> QED  BY <2>3 DEF OneRecordPerPath
<1>5. CASE RemoveStep
  <2>1. PICK id \in Client, fd \in Int, path \in Path \cup {NoPath} :
          resource_list' = remove_resource(resource_list, id, fd, path)
    BY <1>5 DEF RemoveStep
  <2>2. /\ OnePerPath(resource_list')
        /\ \/ resource_list' = resource_list
           \/ \E k \in 1..Len(resource_list) :
                /\ resource_list[k].id = id
                /\ \A p \in Path : HolderOf(resource_list', p) =
                     IF p = resource_list[k].path THEN 0 ELSE HolderOf(resource_list, p)
    BY <1>1, <2>1, RemoveKeeps
  <2>3. \A k \in 1..Len(resource_list) :
          /\ resource_list[k].path \in Path
          /\ HolderOf(resource_list, resource_list[k].path) = resource_list[k].id
    BY <1>1, RecordOfPath
  <2> QED  BY <2>2, <2>3 DEF OneRecordPerPath
<1> QED  BY <1>2, <1>3, <1>4, <1>5

\* A server without records has locked nothing twice.
LEMMA OneRecordInit == Init => OneRecordPerPath
BY EmptySeq DEF Init, OneRecordPerPath, OnePerPath

\* No path ever has two records.
THEOREM OneRecord == Spec => []OneRecordPerPath
<1>1. TypeOK /\ OneRecordPerPath /\ [Next]_vars => OneRecordPerPath'
  BY LockStep
<1> QED  BY <1>1, TypeCorrect, OneRecordInit, PTL DEF Spec

\* The initial holders are the abstract lock's.
LEMMA PathLockInit == Init => Locks!Init
<1> SUFFICES ASSUME Init PROVE Locks!Init
  OBVIOUS
<1>1. resource_list \in Seq(Resource) /\ Len(resource_list) = 0
  BY EmptySeq DEF Init
<1>2. ASSUME NEW p \in Path
      PROVE  HolderOf(resource_list, p) = 0
  <2>1. \A i \in 1..Len(resource_list) : resource_list[i].path # p
    BY <1>1
  <2> QED  BY <1>1, <2>1, FreePath
<1> QED  BY <1>2 DEF Locks!Init, Locks!Free

\* Every step is an Acquire, a Release or a stutter of the abstract lock.
LEMMA PathLockStep ==
  ASSUME TypeOK, OneRecordPerPath, [Next]_vars
  PROVE  [Locks!Next]_([p \in Path |-> HolderOf(resource_list, p)])
<1> DEFINE holder == [p \in Path |-> HolderOf(resource_list, p)]
<1>1. CASE \A p \in Path : HolderOf(resource_list', p) = HolderOf(resource_list, p)
  BY <1>1
<1>2. ASSUME NEW id \in Client, NEW q \in Path,
             HolderOf(resource_list, q) = 0,
             \A p \in Path : HolderOf(resource_list', p) =
               IF p = q THEN id ELSE HolderOf(resource_list, p)
      PROVE  Locks!Acquire(id, q)
  BY <1>2 DEF Locks!Acquire
<1>3. ASSUME NEW id \in Client, NEW q \in Path,
             HolderOf(resource_list, q) = id,
             \A p \in Path : HolderOf(resource_list', p) =
               IF p = q THEN 0 ELSE HolderOf(resource_list, p)
      PROVE  Locks!Release(id, q)
  BY <1>3 DEF Locks!Release
<1> QED  BY <1>1, <1>2, <1>3, LockStep DEF Locks!Next

\* The list of the server implements a lock per path.
THEOREM PathLockImplemented == Spec => ImplementsPathLock
BY TypeCorrect, OneRecord, PathLockInit, PathLockStep, PTL DEF Spec, ImplementsPathLock, Locks!Spec

-----------------------------------------------------------------------------
(* Directory handles, whatever the clients do.                               *)

\* The number a client has for a descriptor: a stream's is one of the ids given
\* so far, any other is the descriptor itself.
EntryShape ==
  \A fd \in Fd :
    /\ fdtab[fd].kind = "closed" => ~ Linked(fd)
    /\ fdtab[fd].kind # "closed" => fdtab[fd].by \in Client
    /\ fdtab[fd].kind = "stream" => fdtab[fd].handle \in 2..open_dir_id
    /\ fdtab[fd].kind \in {"file", "dir"} => fdtab[fd].handle = fd

\* What holds of the server alone.
ServerInv ==
  /\ TypeOK
  /\ OneRecordPerPath
  /\ EntryShape
  /\ DirHandleResolves

-----------------------------------------------------------------------------
(* The queue of streams.                                                     *)

\* find returns the first node with the id, or nothing if none has it.
LEMMA FindNode ==
  ASSUME NEW queue \in Seq(Node), NEW d
  PROVE  \/ /\ \A i \in 1..Len(queue) : queue[i].id # d
            /\ find(queue, d) = NoNode
         \/ \E k \in 1..Len(queue) :
              /\ queue[k].id = d
              /\ find(queue, d) = queue[k]
              /\ \A i \in 1..Len(queue) : queue[i].id = d => k <= i
<1> DEFINE I == {i \in 1..Len(queue) : queue[i].id = d}
<1>1. I \in SUBSET Nat
  OBVIOUS
<1>2. CASE I = {}
  BY <1>2 DEF find, SelectInSeq
<1>3. CASE I # {}
  <2>1. Min(I) \in I /\ \A j \in I : Min(I) <= j
    BY <1>1, <1>3, MinOfNats
  <2>2. find(queue, d) = queue[Min(I)]
    BY <1>3, <2>1 DEF find, SelectInSeq
  <2> QED  BY <2>1, <2>2
<1> QED  BY <1>2, <1>3

\* A new node is found by its id and hides no other.
LEMMA FindInLonger ==
  ASSUME NEW queue \in Seq(Node), NEW node \in Node, NEW d
  PROVE  find(Cons(node, queue), d) = IF d = node.id THEN node ELSE find(queue, d)
<1> DEFINE longer == Cons(node, queue)
<1>1. /\ longer \in Seq(Node)
      /\ Len(longer) = Len(queue) + 1
      /\ longer[1] = node
      /\ \A i \in 1..Len(queue) : longer[i + 1] = queue[i]
  <2>1. <<node>> \in Seq(Node) /\ Len(<<node>>) = 1 /\ <<node>>[1] = node
    OBVIOUS
  <2> DEFINE s == <<node>>
  <2> HIDE DEF s
  <2>2. s \in Seq(Node) /\ Len(s) = 1 /\ s[1] = node
    BY <2>1 DEF s
  <2>3. /\ s \o queue \in Seq(Node)
        /\ Len(s \o queue) = Len(s) + Len(queue)
        /\ \A i \in 1 .. Len(s) + Len(queue) : (s \o queue)[i] =
              IF i <= Len(s) THEN s[i] ELSE queue[i - Len(s)]
    BY <2>2, ConcatProperties
  <2>4. longer = s \o queue
    BY DEF Cons, s
  <2>5. Len(queue) \in Nat
    BY LenProperties
  <2> QED  BY <2>2, <2>3, <2>4, <2>5
<1> HIDE DEF longer
<1>2. Len(queue) \in Nat
  BY LenProperties
<1>3. \A i \in 1..Len(longer) : i = 1 \/ (i - 1 \in 1..Len(queue) /\ longer[i] = queue[i - 1])
  BY <1>1, <1>2
<1>4. CASE d = node.id
  <2>1. PICK k \in 1..Len(longer) :
          find(longer, d) = longer[k] /\ \A i \in 1..Len(longer) : longer[i].id = d => k <= i
    BY <1>1, <1>2, <1>4, FindNode
  <2>2. k = 1
    BY <1>1, <1>2, <1>4, <2>1
  <2> QED  BY <1>1, <1>4, <2>1, <2>2 DEF longer
<1>5. CASE d # node.id /\ find(queue, d) = NoNode
  <2>1. \A i \in 1..Len(queue) : queue[i].id # d
    <3>1. ASSUME NEW k \in 1..Len(queue), queue[k].id = d, find(queue, d) = queue[k]
          PROVE  FALSE
      <4>1. queue[k] \in Node
        BY ElementOfSeq
      <4> QED  BY <1>5, <3>1, <4>1 DEF NoNode, Node
    <3> QED  BY <3>1, FindNode
  <2>2. \A i \in 1..Len(longer) : longer[i].id # d
    BY <1>1, <1>3, <1>5, <2>1
  <2>3. find(longer, d) = NoNode
    BY <1>1, <2>2, FindNode
  <2> QED  BY <1>5, <2>3 DEF longer
<1>6. CASE d # node.id /\ find(queue, d) # NoNode
  <2>1. PICK k \in 1..Len(queue) :
          /\ queue[k].id = d
          /\ find(queue, d) = queue[k]
          /\ \A i \in 1..Len(queue) : queue[i].id = d => k <= i
    BY <1>6, FindNode
  <2>2. k + 1 \in 1..Len(longer) /\ longer[k + 1].id = d
    BY <1>1, <1>2, <2>1
  <2>3. PICK m \in 1..Len(longer) :
          /\ longer[m].id = d
          /\ find(longer, d) = longer[m]
          /\ \A i \in 1..Len(longer) : longer[i].id = d => m <= i
    BY <1>1, <2>2, FindNode
  <2>4. m # 1 /\ m - 1 \in 1..Len(queue) /\ longer[m] = queue[m - 1]
    BY <1>1, <1>3, <1>6, <2>3
  <2>5. m = k + 1
    BY <1>2, <2>1, <2>2, <2>3, <2>4
  <2> QED  BY <1>6, <2>1, <2>3, <2>4, <2>5 DEF longer
<1> QED  BY <1>4, <1>5, <1>6

-----------------------------------------------------------------------------
(* The steps of the server. *)

\* A step that touches neither entries nor streams.
LEMMA QuietStep ==
  ASSUME ServerInv, TypeOK', OneRecordPerPath',
         UNCHANGED <<open_dir_id, open_dir_queue, fdtab>>
  PROVE  ServerInv'
BY DEF ServerInv, EntryShape, DirHandleResolves, Linked

\* A step that closes, unlinks or marks entries.
LEMMA FewerEntries ==
  ASSUME ServerInv, TypeOK', OneRecordPerPath',
         UNCHANGED <<open_dir_id, open_dir_queue>>,
         \A f \in Fd : \/ fdtab'[f] = Closed
                       \/ /\ fdtab'[f].path \in {fdtab[f].path, NoPath}
                          /\ fdtab'[f].kind = fdtab[f].kind
                          /\ fdtab'[f].by = fdtab[f].by
                          /\ fdtab'[f].handle = fdtab[f].handle
  PROVE  ServerInv'
<1>1. EntryShape /\ DirHandleResolves
  BY DEF ServerInv
<1>2. Closed.kind = "closed" /\ Closed.path = NoPath
  BY DEF Closed
<1>3. ASSUME NEW f \in Fd
      PROVE  /\ fdtab'[f].kind = "closed" => fdtab'[f].path = NoPath
             /\ fdtab'[f].kind # "closed" => fdtab'[f].by \in Client
             /\ fdtab'[f].kind = "stream" => fdtab'[f].handle \in 2..open_dir_id'
             /\ fdtab'[f].kind \in {"file", "dir"} => fdtab'[f].handle = f
  BY <1>1, <1>2 DEF EntryShape, Linked
<1>4. ASSUME NEW f \in Fd, fdtab'[f].kind = "stream"
      PROVE  find(open_dir_queue', fdtab'[f].handle) = [id |-> fdtab'[f].handle, dir |-> f]
  BY <1>1, <1>2, <1>4 DEF DirHandleResolves
<1> QED  BY <1>3, <1>4 DEF ServerInv, EntryShape, DirHandleResolves, Linked

\* The entries of a table in which a lock was given away.
LEMMA MarkedEntries ==
  ASSUME TypeOK, NEW id, NEW path, NEW f \in Fd
  PROVE  /\ WithoutLock(id, path)[f].path = fdtab[f].path
         /\ WithoutLock(id, path)[f].kind = fdtab[f].kind
         /\ WithoutLock(id, path)[f].by = fdtab[f].by
         /\ WithoutLock(id, path)[f].handle = fdtab[f].handle
         /\ IF Has(id, f, path) THEN WithoutLock(id, path)[f].unlocked
                                ELSE WithoutLock(id, path)[f] = fdtab[f]
<1>1. fdtab[f] \in Entry
  BY DEF TypeOK
<1> QED  BY <1>1 DEF WithoutLock, Entry

\* A table in which an entry was closed besides.
LEMMA ClosedEntries ==
  ASSUME TypeOK, NEW id, NEW path, NEW fd,
         fdtab' = [WithoutLock(id, path) EXCEPT ![fd] = Closed]
  PROVE  \A f \in Fd : fdtab'[f] = IF f = fd THEN Closed ELSE WithoutLock(id, path)[f]
<1> DEFINE table == WithoutLock(id, path)
<1>1. table \in [Fd -> Entry]
  BY UnlockedTyped
<1> HIDE DEF table
<1>2. fdtab' = [table EXCEPT ![fd] = Closed]
  BY DEF table
<1>3. \A f \in Fd : fdtab'[f] = IF f = fd THEN Closed ELSE table[f]
  BY <1>1, <1>2
<1> QED  BY <1>3 DEF table

\* fsOpenDir that succeeds.
LEMMA OpenDirStep ==
  ASSUME ServerInv, TypeOK', OneRecordPerPath', NEW id \in Client, NEW path \in Path,
         OpenDirSucceeds(id, path)
  PROVE  ServerInv'
<1> DEFINE fd    == Min(FreeFds)
           d     == open_dir_id + 1
           entry == [kind |-> "stream", mode |-> 0, path |-> path, by |-> id,
                     handle |-> d, unlocked |-> FALSE]
           node  == [id |-> d, dir |-> fd]
<1>1. fd \in Fd /\ fdtab[fd].kind = "closed"
  BY LowestFree DEF OpenDirSucceeds
<1>2. TypeOK /\ EntryShape /\ DirHandleResolves
  BY DEF ServerInv
<1>3. open_dir_id \in Nat /\ open_dir_id >= 1 /\ d \in DirId
  BY <1>2 DEF OpenDirSucceeds, NewDirId, TypeOK
<1>4. /\ open_dir_id' = d
      /\ open_dir_queue' = Cons(node, open_dir_queue)
      /\ fdtab' = [fdtab EXCEPT ![fd] = entry]
  BY DEF OpenDirSucceeds, NewDirId, Opened
<1>5. node \in Node
  BY <1>1, <1>3 DEF Node
<1>6. /\ entry.path = path /\ entry.by = id /\ entry.handle = d /\ entry.kind = "stream"
      /\ node.id = d /\ node = [id |-> d, dir |-> fd]
  OBVIOUS
<1>7. fdtab \in [Fd -> Entry] /\ open_dir_queue \in Seq(Node)
  BY <1>2 DEF TypeOK
<1> HIDE DEF fd, entry, node
<1>8. /\ fdtab'[fd] = entry
      /\ \A f \in Fd \ {fd} : fdtab'[f] = fdtab[f]
  BY <1>1, <1>4, <1>7
<1>9. EntryShape'
  <2>1. ASSUME NEW f \in Fd
        PROVE  /\ fdtab'[f].kind = "closed" => fdtab'[f].path = NoPath
               /\ fdtab'[f].kind # "closed" => fdtab'[f].by \in Client
               /\ fdtab'[f].kind = "stream" => fdtab'[f].handle \in 2..open_dir_id'
               /\ fdtab'[f].kind \in {"file", "dir"} => fdtab'[f].handle = f
    BY <1>2, <1>3, <1>4, <1>6, <1>8 DEF EntryShape, Linked
  <2> QED  BY <2>1 DEF EntryShape, Linked
<1>10. DirHandleResolves'
  <2>1. ASSUME NEW f \in Fd, fdtab'[f].kind = "stream"
        PROVE  find(open_dir_queue', fdtab'[f].handle) = [id |-> fdtab'[f].handle, dir |-> f]
    <3>1. CASE f = fd
      BY <1>4, <1>5, <1>6, <1>7, <1>8, <3>1, FindInLonger
    <3>2. CASE f # fd
      <4> DEFINE h == fdtab[f].handle
      <4>1. h # d /\ find(open_dir_queue, h) = [id |-> h, dir |-> f]
        BY <1>2, <1>3, <1>8, <2>1, <3>2 DEF EntryShape, DirHandleResolves
      <4>2. fdtab'[f].handle = h
        BY <1>8, <3>2
      <4> HIDE DEF h
      <4>3. find(open_dir_queue', h) = find(open_dir_queue, h)
        BY <1>4, <1>5, <1>6, <1>7, <4>1, FindInLonger
      <4> QED  BY <4>1, <4>2, <4>3
    <3> QED  BY <3>1, <3>2
  <2> QED  BY <2>1 DEF DirHandleResolves
<1> QED  BY <1>9, <1>10 DEF ServerInv

\* fsOpen that succeeds.
LEMMA OpenStep ==
  ASSUME ServerInv, TypeOK', OneRecordPerPath', NEW id \in Client, NEW path \in Path,
         NEW mode \in {0, 1}, OpenSucceeds(id, mode, path)
  PROVE  ServerInv'
<1> DEFINE fd    == Min(FreeFds)
           kind  == IF disk[path] = "dir" THEN "dir" ELSE "file"
           entry == [kind |-> kind, mode |-> mode, path |-> path, by |-> id,
                     handle |-> fd, unlocked |-> FALSE]
<1>1. fd \in Fd /\ fdtab[fd].kind = "closed"
  BY LowestFree DEF OpenSucceeds, open_errno, EMFILE
<1>2. TypeOK /\ EntryShape /\ DirHandleResolves
  BY DEF ServerInv
<1>3. /\ fdtab' = [fdtab EXCEPT ![fd] = entry]
      /\ UNCHANGED <<open_dir_id, open_dir_queue>>
  BY DEF OpenSucceeds, Opened
<1>4. /\ entry.path = path /\ entry.by = id /\ entry.handle = fd
      /\ entry.kind \in {"file", "dir"}
  OBVIOUS
<1>5. fdtab \in [Fd -> Entry]
  BY <1>2 DEF TypeOK
<1> HIDE DEF fd, kind, entry
<1>6. /\ fdtab'[fd] = entry
      /\ \A f \in Fd \ {fd} : fdtab'[f] = fdtab[f]
  BY <1>1, <1>3, <1>5
<1>7. ASSUME NEW f \in Fd
      PROVE  /\ fdtab'[f].kind = "closed" => fdtab'[f].path = NoPath
             /\ fdtab'[f].kind # "closed" => fdtab'[f].by \in Client
             /\ fdtab'[f].kind = "stream" => fdtab'[f].handle \in 2..open_dir_id'
             /\ fdtab'[f].kind \in {"file", "dir"} => fdtab'[f].handle = f
  BY <1>2, <1>3, <1>4, <1>6 DEF EntryShape, Linked
<1>8. ASSUME NEW f \in Fd, fdtab'[f].kind = "stream"
      PROVE  find(open_dir_queue', fdtab'[f].handle) = [id |-> fdtab'[f].handle, dir |-> f]
  BY <1>2, <1>3, <1>4, <1>6, <1>8 DEF DirHandleResolves
<1> QED  BY <1>7, <1>8 DEF ServerInv, EntryShape, DirHandleResolves, Linked

\* fsRemove that is not refused: what becomes of the entries.
LEMMA RemovedEntries ==
  ASSUME TypeOK, NEW id, NEW path \in Path,
         RemoveSucceeds(id, path) \/ RemoveFails(id, path)
  PROVE  \A f \in Fd :
           /\ fdtab'[f].path \in {fdtab[f].path, NoPath}
           /\ fdtab'[f].kind = fdtab[f].kind
           /\ fdtab'[f].by = fdtab[f].by
           /\ fdtab'[f].handle = fdtab[f].handle
           /\ fdtab[f].path # path => fdtab'[f] = fdtab[f]
           /\ Has(id, f, path) => fdtab'[f].unlocked
           /\ ~ Has(id, f, path) => \/ fdtab'[f] = fdtab[f]
                                    \/ /\ fdtab'[f].path = NoPath
                                       /\ fdtab'[f].unlocked = fdtab[f].unlocked
<1> SUFFICES ASSUME NEW f \in Fd
             PROVE  /\ fdtab'[f].path \in {fdtab[f].path, NoPath}
                    /\ fdtab'[f].kind = fdtab[f].kind
                    /\ fdtab'[f].by = fdtab[f].by
                    /\ fdtab'[f].handle = fdtab[f].handle
                    /\ fdtab[f].path # path => fdtab'[f] = fdtab[f]
                    /\ Has(id, f, path) => fdtab'[f].unlocked
                    /\ ~ Has(id, f, path) => \/ fdtab'[f] = fdtab[f]
                                             \/ /\ fdtab'[f].path = NoPath
                                                /\ fdtab'[f].unlocked = fdtab[f].unlocked
  OBVIOUS
<1> DEFINE mark == WithoutLock(id, path)[f]
<1>1. CASE RemoveSucceeds(id, path)
  <2>1. /\ mark.kind = fdtab[f].kind /\ mark.by = fdtab[f].by
        /\ mark.handle = fdtab[f].handle
        /\ IF Has(id, f, path) THEN mark.unlocked ELSE mark = fdtab[f]
    BY MarkedEntries
  <2>2. mark \in Entry
    BY UnlockedTyped
  <2>3. fdtab'[f] = IF fdtab[f].path = path THEN [mark EXCEPT !.path = NoPath] ELSE fdtab[f]
    BY <1>1 DEF RemoveSucceeds, Unlinked
  <2> HIDE DEF mark
  <2>4. CASE fdtab[f].path = path
    <3>1. /\ fdtab'[f].path = NoPath
          /\ fdtab'[f].kind = mark.kind
          /\ fdtab'[f].by = mark.by
          /\ fdtab'[f].handle = mark.handle
          /\ fdtab'[f].unlocked = mark.unlocked
      BY <2>2, <2>3, <2>4 DEF Entry
    <3> QED  BY <2>1, <2>4, <3>1
  <2>5. CASE fdtab[f].path # path
    BY <2>3, <2>5 DEF Has
  <2> QED  BY <2>4, <2>5
<1>2. CASE RemoveFails(id, path)
  <2>1. fdtab' = WithoutLock(id, path)
    BY <1>2 DEF RemoveFails
  <2> QED  BY <2>1, MarkedEntries DEF Has
<1> QED  BY <1>1, <1>2

\* Every call of any client keeps it.
LEMMA ServerStep ==
  ASSUME ServerInv, [Next]_vars
  PROVE  ServerInv'
<1>1. TypeOK /\ OneRecordPerPath
  BY DEF ServerInv
<1>2. TypeOK' /\ OneRecordPerPath'
  BY <1>1, TypeOKStep, LockStep
<1>3. CASE UNCHANGED <<open_dir_id, open_dir_queue, fdtab>>
  BY <1>2, <1>3, QuietStep
<1> USE DEF tables, kernel, Answer, Refused, Crash
<1>4. CASE \/ UNCHANGED vars \/ CallMount
           \/ \E id \in Client : CallUnmount(id) \/ CallReadDir(id)
           \/ \E id \in Client, fd \in Fd : CallRead(id, fd) \/ CallWrite(id, fd)
  <2>1. CASE UNCHANGED vars \/ CallMount
    BY <1>3, <2>1 DEF vars, CallMount, fsMount
  <2>2. ASSUME NEW id \in Client, CallUnmount(id) \/ CallReadDir(id)
        PROVE  ServerInv'
    BY <1>3, <2>2 DEF CallUnmount, fsUnmount, CallReadDir, fsReadDir
  <2>3. ASSUME NEW id \in Client, NEW fd \in Fd, CallRead(id, fd) \/ CallWrite(id, fd)
        PROVE  ServerInv'
    BY <1>3, <2>3 DEF CallRead, fsRead, CallWrite, fsWrite
  <2> QED  BY <1>4, <2>1, <2>2, <2>3
<1>5. ASSUME NEW id, NEW path, NEW fd,
             fdtab' = [WithoutLock(id, path) EXCEPT ![fd] = Closed],
             UNCHANGED <<open_dir_id, open_dir_queue>>
      PROVE  ServerInv'
  <2>1. \A f \in Fd : \/ fdtab'[f] = Closed
                      \/ /\ fdtab'[f].path = fdtab[f].path
                         /\ fdtab'[f].kind = fdtab[f].kind
                         /\ fdtab'[f].by = fdtab[f].by
                         /\ fdtab'[f].handle = fdtab[f].handle
    BY <1>1, <1>5, ClosedEntries, MarkedEntries
  <2> QED  BY <1>2, <1>5, <2>1, FewerEntries
<1>6. ASSUME NEW id \in Client, CallCloseDir(id)
      PROVE  ServerInv'
  <2>1. PICK d \in DirHandles(id) : fsCloseDir(id, d)
    BY <1>6 DEF CallCloseDir
  <2>2. CASE CloseDirRefused(id) \/ Crash
    BY <1>3, <2>2 DEF CloseDirRefused
  <2>3. CASE CloseDirPasses(id, d)
    BY <1>5, <2>3 DEF CloseDirPasses
  <2> QED  BY <2>1, <2>2, <2>3 DEF fsCloseDir
<1>7. ASSUME NEW id \in Client, NEW path \in Path, CallOpenDir(id, path)
      PROVE  ServerInv'
  <2>1. CASE Refused(find_resource(resource_list, 0, path), id) \/ OpenDirFails(id, path)
    BY <1>3, <2>1 DEF OpenDirFails
  <2>2. CASE OpenDirSucceeds(id, path)
    BY <1>2, <2>2, OpenDirStep
  <2> QED  BY <1>7, <2>1, <2>2 DEF CallOpenDir, fsOpenDir
<1>8. ASSUME NEW id \in Client, NEW path \in Path, CallRemove(id, path)
      PROVE  ServerInv'
  <2>1. CASE Refused(find_resource(resource_list, 0, path), id)
    BY <1>3, <2>1
  <2>2. CASE RemoveSucceeds(id, path) \/ RemoveFails(id, path)
    <3>1. UNCHANGED <<open_dir_id, open_dir_queue>>
      BY <2>2 DEF RemoveSucceeds, RemoveFails, Unlock
    <3> QED  BY <1>1, <1>2, <2>2, <3>1, RemovedEntries, FewerEntries
  <2> QED  BY <1>8, <2>1, <2>2 DEF CallRemove, fsRemove
<1>9. ASSUME NEW id \in Client, NEW path \in Path, CallOpen(id, path)
      PROVE  ServerInv'
  <2>1. PICK mode \in {0, 1} : fsOpen(id, mode, path)
    BY <1>9 DEF CallOpen
  <2>2. CASE Refused(find_resource(resource_list, 0, path), id) \/ OpenFails(id, mode, path)
    BY <1>3, <2>2 DEF OpenFails
  <2>3. CASE OpenSucceeds(id, mode, path)
    BY <1>2, <2>3, OpenStep
  <2> QED  BY <2>1, <2>2, <2>3 DEF fsOpen
<1>10. ASSUME NEW id \in Client, NEW fd \in Fd, CallClose(id, fd)
       PROVE  ServerInv'
  <2>1. CASE Refused(find_resource(resource_list, fd, NoPath), id)
    BY <1>3, <2>1
  <2>2. CASE ClosePasses(id, fd)
    BY <1>5, <2>2 DEF ClosePasses
  <2> QED  BY <1>10, <2>1, <2>2 DEF CallClose, fsClose
<1> QED  BY <1>4, <1>6, <1>7, <1>8, <1>9, <1>10 DEF Next

\* A server that nobody has used satisfies it.
LEMMA ServerInit == Init => ServerInv
<1> SUFFICES ASSUME Init PROVE ServerInv
  OBVIOUS
<1>1. TypeOK /\ OneRecordPerPath
  BY TypeOKInit, OneRecordInit
<1>2. \A fd \in Fd : fdtab[fd].kind = "closed" /\ ~ Linked(fd)
  BY DEF Init, Closed, Linked
<1> QED  BY <1>1, <1>2 DEF ServerInv, EntryShape, DirHandleResolves

\* The invariant holds of any clients.
LEMMA ServerAlways == Spec => []ServerInv
<1>1. ServerInv /\ [Next]_vars => ServerInv'
  BY ServerStep
<1> QED  BY <1>1, ServerInit, PTL DEF Spec

\* The handle of an open directory finds its own stream, whatever clients do.
THEOREM HandlesResolve == Spec => []DirHandleResolves
<1>1. ServerInv => DirHandleResolves
  BY DEF ServerInv
<1> QED  BY <1>1, ServerAlways, PTL

-----------------------------------------------------------------------------
(* What the locks guarantee to careful clients, until one of them has been   *)
(* given one number for two open handles.                                    *)

\* The handles of one client have different numbers.
HandlesDiffer ==
  ~clash => \A f, g \in Fd :
    /\ fdtab[f].kind # "closed" /\ fdtab[g].kind # "closed"
    /\ fdtab[f].by = fdtab[g].by /\ fdtab[f].handle = fdtab[g].handle
    => f = g

\* A handle whose name was removed has lost its lock.
NamelessIsUnlocked ==
  ~clash => \A fd \in Fd : fdtab[fd].kind # "closed" /\ ~Linked(fd) => fdtab[fd].unlocked

\* The inductive invariant.
CarefulInv ==
  /\ ServerInv
  /\ HandlesDiffer
  /\ NamelessIsUnlocked
  /\ DescriptorCovered
  /\ LocksBacked

-----------------------------------------------------------------------------
(* Records and entries.                                                      *)

\* The parts of the invariant for any list and table, in terms of the set of
\* records.
Covers(list, table) ==
  \A fd \in Fd : table[fd].path # NoPath /\ ~table[fd].unlocked =>
    \E r \in ToSet(list) : r.path = table[fd].path /\ r.id = table[fd].by

Backs(list, table) ==
  \A r \in ToSet(list) : r.fd # -1 =>
    \E fd \in Fd : /\ table[fd].path = r.path /\ table[fd].by = r.id
                   /\ table[fd].handle = r.fd

Proper(table) ==
  /\ \A f, g \in Fd :
       /\ table[f].kind # "closed" /\ table[g].kind # "closed"
       /\ table[f].by = table[g].by /\ table[f].handle = table[g].handle
       => f = g
  /\ \A f \in Fd :
       table[f].kind # "closed" /\ table[f].path = NoPath => table[f].unlocked

\* The holder of a path is the client of its record.
LEMMA HoldersCover ==
  ASSUME NEW list \in Seq(Resource), OnePerPath(list), NEW table \in [Fd -> Entry],
         \A fd \in Fd : table[fd].path # NoPath => table[fd].by # 0
  PROVE  Covers(list, table) <=>
           \A fd \in Fd : table[fd].path # NoPath /\ ~table[fd].unlocked =>
             HolderOf(list, table[fd].path) = table[fd].by
<1>1. \A path \in Path : \A id : id # 0 =>
        (HolderOf(list, path) = id <=> \E r \in ToSet(list) : r.path = path /\ r.id = id)
  BY HolderRecord
<1>2. ASSUME NEW fd \in Fd, table[fd].path # NoPath
      PROVE  HolderOf(list, table[fd].path) = table[fd].by <=>
               \E r \in ToSet(list) : r.path = table[fd].path /\ r.id = table[fd].by
  <2>1. table[fd].path \in Path /\ table[fd].by # 0
    BY <1>2 DEF Entry
  <2> QED  BY <1>1, <2>1
<1> QED  BY <1>2 DEF Covers

\* The invariants before a step.
LEMMA AsSets ==
  ASSUME ServerInv, ~clash
  PROVE  /\ DescriptorCovered <=> Covers(resource_list, fdtab)
         /\ LocksBacked <=> Backs(resource_list, fdtab)
         /\ HandlesDiffer /\ NamelessIsUnlocked <=> Proper(fdtab)
<1>1. /\ resource_list \in Seq(Resource) /\ OnePerPath(resource_list)
      /\ fdtab \in [Fd -> Entry]
  BY DEF ServerInv, TypeOK, OneRecordPerPath
<1>2. \A fd \in Fd : fdtab[fd].path # NoPath => fdtab[fd].by # 0
  BY DEF ServerInv, EntryShape, Linked
<1>3. \A r \in ToSet(resource_list) : r.path # NoPath
  BY <1>1, RecordsTyped, NoPathAssumption DEF Resource
<1>4. DescriptorCovered <=> Covers(resource_list, fdtab)
  BY <1>1, <1>2, HoldersCover DEF DescriptorCovered, Linked
<1>5. LocksBacked <=> Backs(resource_list, fdtab)
  BY <1>3 DEF LocksBacked, Backs, Has, Linked, ToSet
<1>6. HandlesDiffer /\ NamelessIsUnlocked <=> Proper(fdtab)
  BY DEF HandlesDiffer, NamelessIsUnlocked, Proper, Linked
<1> QED  BY <1>4, <1>5, <1>6

\* The invariants after it.
LEMMA AsSetsNext ==
  ASSUME ServerInv', Covers(resource_list', fdtab'), Backs(resource_list', fdtab'),
         Proper(fdtab')
  PROVE  CarefulInv'
<1>1. /\ resource_list' \in Seq(Resource) /\ OnePerPath(resource_list')
      /\ fdtab' \in [Fd -> Entry]
  BY DEF ServerInv, TypeOK, OneRecordPerPath
<1>2. \A fd \in Fd : fdtab'[fd].path # NoPath => fdtab'[fd].by # 0
  BY DEF ServerInv, EntryShape, Linked
<1>3. \A r \in ToSet(resource_list') : r.path # NoPath
  BY <1>1, RecordsTyped, NoPathAssumption DEF Resource
<1>4. DescriptorCovered'
  BY <1>1, <1>2, HoldersCover DEF DescriptorCovered, Linked
<1>5. LocksBacked'
  BY <1>3 DEF LocksBacked, Backs, Has, Linked, ToSet
<1>6. HandlesDiffer' /\ NamelessIsUnlocked'
  BY DEF HandlesDiffer, NamelessIsUnlocked, Proper, Linked
<1> QED  BY <1>4, <1>5, <1>6 DEF CarefulInv

\* A client that was not refused a path owns the record of the path, if any.
LEMMA RecordIsMine ==
  ASSUME ServerInv, NEW id \in Client, NEW path \in Path,
         ~ HeldByOther(find_resource(resource_list, 0, path), id)
  PROVE  \A r \in ToSet(resource_list) : r.path = path => r.id = id
<1>1. resource_list \in Seq(Resource) /\ OnePerPath(resource_list)
  BY DEF ServerInv, TypeOK, OneRecordPerPath
<1>2. ASSUME NEW k \in 1..Len(resource_list), resource_list[k].path = path
      PROVE  resource_list[k].id = id
  <2>1. find_resource(resource_list, 0, path) = resource_list[k] /\ resource_list[k].id # 0
    BY <1>1, <1>2, RecordOfPath
  <2> QED  BY <2>1 DEF HeldByOther, NoResource
<1> QED  BY <1>1, <1>2, LenProperties DEF ToSet

-----------------------------------------------------------------------------
(* What the calls do to records and entries.                                 *)

\* A path is opened: the client gets a new entry, and a record if it had none.
LEMMA GrantKeeps ==
  ASSUME CarefulInv, ServerInv', ~clash,
         NEW id \in Client, NEW path \in Path, NEW lock \in {0, 1},
         NEW fd \in Fd, fdtab[fd].kind = "closed",
         NEW entry \in Entry, entry.path = path, entry.by = id,
         \A f \in Fd : ~ (fdtab[f].by = id /\ fdtab[f].handle = entry.handle),
         ~ HeldByOther(find_resource(resource_list, 0, path), id),
         fdtab' = [fdtab EXCEPT ![fd] = entry],
         Relock(lock, id, entry.handle, path)
  PROVE  CarefulInv'
<1>1. /\ ServerInv /\ TypeOK /\ EntryShape /\ Proper(fdtab)
      /\ Covers(resource_list, fdtab) /\ Backs(resource_list, fdtab)
  BY AsSets DEF CarefulInv, ServerInv
<1>2. resource_list \in Seq(Resource) /\ fdtab \in [Fd -> Entry]
  BY <1>1 DEF TypeOK
<1>3. fdtab[fd].path = NoPath
  BY <1>1 DEF EntryShape, Linked
<1>4. /\ fdtab'[fd] = entry
      /\ \A f \in Fd \ {fd} : fdtab'[f] = fdtab[f]
  BY <1>2
<1>5. Proper(fdtab')
  BY <1>1, <1>4, NoPathAssumption DEF Proper
<1>6. entry.handle \in Int
  BY DEF Entry
<1>7. \A r \in ToSet(resource_list) : r.path # NoPath
  BY <1>2, RecordsTyped, NoPathAssumption DEF Resource
<1>8. CASE /\ find_resource(resource_list, 0, path) # NoResource
           /\ resource_list' = resource_list
  <2>1. PICK r \in ToSet(resource_list) : r.path = path
    BY <1>2, <1>8, FindByPath, LenProperties DEF ToSet
  <2>2. r.id = id
    BY <1>1, <2>1, RecordIsMine
  <2>3. Covers(resource_list', fdtab')
    BY <1>1, <1>4, <1>8, <2>1, <2>2 DEF Covers
  <2>4. Backs(resource_list', fdtab')
    BY <1>1, <1>3, <1>4, <1>7, <1>8 DEF Backs
  <2> QED  BY <1>5, <2>3, <2>4, AsSetsNext
<1>9. CASE resource_list' = add_resource(resource_list, lock, id, entry.handle, path)
  <2> DEFINE new == [lock_type |-> lock, id |-> id, fd |-> entry.handle, path |-> path]
  <2>1. ToSet(resource_list') = ToSet(resource_list) \cup {new}
    BY <1>2, <1>6, <1>9, RecordsOfAdd
  <2>2. new.path = path /\ new.id = id /\ new.fd = entry.handle
    OBVIOUS
  <2> HIDE DEF new
  <2>3. Covers(resource_list', fdtab')
    BY <1>1, <1>4, <2>1, <2>2 DEF Covers
  <2>4. Backs(resource_list', fdtab')
    BY <1>1, <1>3, <1>4, <1>7, <2>1, <2>2 DEF Backs
  <2> QED  BY <1>5, <2>3, <2>4, AsSetsNext
<1> QED  BY <1>1, <1>6, <1>8, <1>9, RelockStep

\* An open() fails: at most a record that names no descriptor is added.
LEMMA FailureKeeps ==
  ASSUME CarefulInv, ServerInv', ~clash,
         NEW id \in Client, NEW path \in Path, NEW lock \in {0, 1},
         ~ HeldByOther(find_resource(resource_list, 0, path), id),
         UNCHANGED fdtab,
         Relock(lock, id, -1, path)
  PROVE  CarefulInv'
<1>1. /\ ServerInv /\ TypeOK /\ Proper(fdtab)
      /\ Covers(resource_list, fdtab) /\ Backs(resource_list, fdtab)
  BY AsSets DEF CarefulInv, ServerInv
<1>2. resource_list \in Seq(Resource)
  BY <1>1 DEF TypeOK
<1>3. CASE resource_list' = resource_list
  BY <1>1, <1>3, AsSetsNext
<1>4. CASE resource_list' = add_resource(resource_list, lock, id, -1, path)
  <2> DEFINE new == [lock_type |-> lock, id |-> id, fd |-> -1, path |-> path]
  <2>1. ToSet(resource_list') = ToSet(resource_list) \cup {new}
    BY <1>2, <1>4, RecordsOfAdd
  <2>2. new.fd = -1
    OBVIOUS
  <2> HIDE DEF new
  <2>3. Covers(resource_list', fdtab') /\ Backs(resource_list', fdtab')
    BY <1>1, <2>1, <2>2 DEF Covers, Backs
  <2> QED  BY <1>1, <2>3, AsSetsNext
<1> QED  BY <1>1, <1>3, <1>4, RelockStep

\* A handle is closed: its entry goes, and with it the record that names it.
\* The other entries of the client on the path have lost the lock.
LEMMA ReleaseKeeps ==
  ASSUME CarefulInv, ServerInv', ~clash,
         NEW id \in Client, NEW fd \in Fd,
         fdtab[fd].kind # "closed", fdtab[fd].by = id,
         fdtab' = [WithoutLock(id, fdtab[fd].path) EXCEPT ![fd] = Closed],
         resource_list' = remove_resource(resource_list, id, fdtab[fd].handle, NoPath)
  PROVE  CarefulInv'
<1> DEFINE h == fdtab[fd].handle
<1>1. /\ ServerInv /\ TypeOK /\ EntryShape /\ OneRecordPerPath /\ Proper(fdtab)
      /\ Covers(resource_list, fdtab) /\ Backs(resource_list, fdtab)
  BY AsSets DEF CarefulInv, ServerInv
<1>2. /\ resource_list \in Seq(Resource) /\ OnePerPath(resource_list)
      /\ fdtab \in [Fd -> Entry]
  BY <1>1 DEF TypeOK, OneRecordPerPath
<1>3. h \in Nat /\ h # 0
  <2>1. fdtab[fd].kind \in {"file", "dir", "stream"} /\ h \in Nat
    BY <1>2 DEF Entry
  <2> QED  BY <1>1, <2>1 DEF EntryShape
<1>4. /\ fdtab'[fd].path = NoPath /\ fdtab'[fd].kind = "closed"
      /\ \A f \in Fd \ {fd} :
           /\ fdtab'[f].path = fdtab[f].path
           /\ fdtab'[f].kind = fdtab[f].kind
           /\ fdtab'[f].by = fdtab[f].by
           /\ fdtab'[f].handle = fdtab[f].handle
           /\ ~fdtab'[f].unlocked => ~fdtab[f].unlocked /\ ~Has(id, f, fdtab[fd].path)
  <2>1. \A f \in Fd : fdtab'[f] = IF f = fd THEN Closed
                                  ELSE WithoutLock(id, fdtab[fd].path)[f]
    BY <1>1, ClosedEntries
  <2> QED  BY <1>1, <2>1, MarkedEntries DEF Closed
<1>5. ASSUME NEW f \in Fd, fdtab[f].path # NoPath, fdtab[f].by = id, fdtab[f].handle = h
      PROVE  f = fd
  <2>1. fdtab[f].kind # "closed"
    BY <1>1, <1>5 DEF EntryShape, Linked
  <2> QED  BY <1>1, <1>5, <2>1 DEF Proper
<1>6. \A r \in ToSet(resource_list) : r.path \in Path /\ r.path # NoPath
  BY <1>2, RecordsTyped, NoPathAssumption DEF Resource
\* A record of the client with the number of the handle is that of its path.
<1>7. ASSUME NEW r \in ToSet(resource_list), r.fd = h, r.id = id
      PROVE  r.path = fdtab[fd].path
  <2>1. PICK f \in Fd : fdtab[f].path = r.path /\ fdtab[f].by = r.id /\ fdtab[f].handle = r.fd
    BY <1>1, <1>3, <1>7 DEF Backs
  <2> QED  BY <1>5, <1>6, <1>7, <2>1
<1>8. ToSet(resource_list') = {r \in ToSet(resource_list) : ~(r.fd = h /\ r.id = id)}
  <2>1. \A r \in ToSet(resource_list) : Matches(r, h, NoPath) <=> r.fd = h
    BY <1>3 DEF Matches
  <2>2. CASE /\ \A r \in ToSet(resource_list) : ~ (Matches(r, h, NoPath) /\ r.id = id)
             /\ resource_list' = resource_list
    BY <2>1, <2>2
  <2>3. ASSUME NEW r \in ToSet(resource_list), Matches(r, h, NoPath), r.id = id,
               ToSet(resource_list') = ToSet(resource_list) \ {r}
        PROVE  ToSet(resource_list') = {s \in ToSet(resource_list) : ~(s.fd = h /\ s.id = id)}
    <3>1. \A s \in ToSet(resource_list) : s.fd = h /\ s.id = id => s = r
      BY <1>2, <1>7, <2>1, <2>3, RecordsDistinct
    <3> QED  BY <2>1, <2>3, <3>1
  <2> QED  BY <1>2, <2>2, <2>3, RecordsOfRemove
<1>9. Proper(fdtab')
  BY <1>1, <1>4 DEF Proper
<1> HIDE DEF h
<1>10. Covers(resource_list', fdtab')
  <2>1. ASSUME NEW f \in Fd, fdtab'[f].path # NoPath, ~fdtab'[f].unlocked
        PROVE  \E r \in ToSet(resource_list') : r.path = fdtab'[f].path /\ r.id = fdtab'[f].by
    <3>1. /\ f # fd /\ fdtab'[f].path = fdtab[f].path /\ fdtab'[f].by = fdtab[f].by
          /\ ~fdtab[f].unlocked /\ ~Has(id, f, fdtab[fd].path)
      BY <1>4, <2>1
    <3>2. PICK r \in ToSet(resource_list) : r.path = fdtab[f].path /\ r.id = fdtab[f].by
      BY <1>1, <2>1, <3>1 DEF Covers
    <3>3. ~(r.fd = h /\ r.id = id)
      BY <1>7, <2>1, <3>1, <3>2 DEF Has, Linked
    <3> QED  BY <1>8, <3>1, <3>2, <3>3
  <2> QED  BY <2>1 DEF Covers
<1>11. Backs(resource_list', fdtab')
  <2>1. ASSUME NEW r \in ToSet(resource_list'), r.fd # -1
        PROVE  \E f \in Fd : /\ fdtab'[f].path = r.path /\ fdtab'[f].by = r.id
                             /\ fdtab'[f].handle = r.fd
    <3>1. r \in ToSet(resource_list) /\ ~(r.fd = h /\ r.id = id)
      BY <1>8
    <3>2. PICK f \in Fd : fdtab[f].path = r.path /\ fdtab[f].by = r.id /\ fdtab[f].handle = r.fd
      BY <1>1, <2>1, <3>1 DEF Backs
    <3>3. f # fd
      BY <3>1, <3>2 DEF h
    <3> QED  BY <1>4, <3>2, <3>3
  <2> QED  BY <2>1 DEF Backs
<1> QED  BY <1>9, <1>10, <1>11, AsSetsNext

\* A path is removed: nobody has a record of it any more, the other records stay.
LEMMA UnlockedPath ==
  ASSUME ServerInv, NEW id \in Client, NEW path \in Path,
         ~ HeldByOther(find_resource(resource_list, 0, path), id)
  PROVE  ToSet(remove_resource(resource_list, id, 0, path)) =
           {r \in ToSet(resource_list) : r.path # path}
<1> DEFINE rest == remove_resource(resource_list, id, 0, path)
<1>1. resource_list \in Seq(Resource) /\ OnePerPath(resource_list)
  BY DEF ServerInv, TypeOK, OneRecordPerPath
<1>2. \A r \in ToSet(resource_list) : r.path = path => r.id = id
  BY RecordIsMine
<1>3. \A r \in ToSet(resource_list) : Matches(r, 0, path) <=> r.path = path
  BY NoPathAssumption DEF Matches
<1>4. CASE /\ \A r \in ToSet(resource_list) : ~ (Matches(r, 0, path) /\ r.id = id)
           /\ rest = resource_list
  BY <1>2, <1>3, <1>4
<1>5. ASSUME NEW r \in ToSet(resource_list), Matches(r, 0, path), r.id = id,
             ToSet(rest) = ToSet(resource_list) \ {r}
      PROVE  ToSet(rest) = {s \in ToSet(resource_list) : s.path # path}
  <2>1. \A s \in ToSet(resource_list) : s.path = path => s = r
    BY <1>1, <1>3, <1>5, RecordsDistinct
  <2> QED  BY <1>3, <1>5, <2>1
<1> QED  BY <1>1, <1>4, <1>5, RecordsOfRemove

\* fsRemove that is not refused, whether or not remove() succeeds: the client's
\* entries on the path are unlinked or have lost the lock, and nobody else has
\* an entry on it that was covered.
LEMMA RemovalKeeps ==
  ASSUME CarefulInv, ServerInv', ~clash,
         NEW id \in Client, NEW path \in Path,
         RemoveSucceeds(id, path) \/ RemoveFails(id, path)
  PROVE  CarefulInv'
<1>1. /\ ServerInv /\ TypeOK /\ Proper(fdtab)
      /\ Covers(resource_list, fdtab) /\ Backs(resource_list, fdtab)
  BY AsSets DEF CarefulInv, ServerInv
<1>2. /\ ~ HeldByOther(find_resource(resource_list, 0, path), id)
      /\ resource_list' = remove_resource(resource_list, id, 0, path)
  BY DEF RemoveSucceeds, RemoveFails, Unlock
<1>3. ToSet(resource_list') = {r \in ToSet(resource_list) : r.path # path}
  BY <1>1, <1>2, UnlockedPath
<1>4. \A r \in ToSet(resource_list) : r.path = path => r.id = id
  BY <1>1, <1>2, RecordIsMine
<1>5. \A f \in Fd :
        /\ fdtab'[f].path \in {fdtab[f].path, NoPath}
        /\ fdtab'[f].kind = fdtab[f].kind
        /\ fdtab'[f].by = fdtab[f].by
        /\ fdtab'[f].handle = fdtab[f].handle
        /\ fdtab[f].path # path => fdtab'[f] = fdtab[f]
        /\ Has(id, f, path) => fdtab'[f].unlocked
        /\ ~ Has(id, f, path) => \/ fdtab'[f] = fdtab[f]
                                 \/ /\ fdtab'[f].path = NoPath
                                    /\ fdtab'[f].unlocked = fdtab[f].unlocked
  BY <1>1, RemovedEntries
<1>6. Proper(fdtab')
  <2>1. ASSUME NEW f \in Fd, fdtab'[f].kind # "closed", fdtab'[f].path = NoPath
        PROVE  fdtab'[f].unlocked
    <3>1. CASE Has(id, f, path) \/ fdtab'[f] = fdtab[f]
      BY <1>1, <1>5, <2>1, <3>1 DEF Proper
    <3>2. CASE ~ Has(id, f, path) /\ fdtab'[f] # fdtab[f]
      <4>1. fdtab[f].path = path /\ path # NoPath /\ fdtab[f].by # id
        BY <1>5, <3>2, NoPathAssumption DEF Has, Linked
      <4>2. fdtab[f].unlocked
        BY <1>1, <1>4, <4>1 DEF Covers
      <4> QED  BY <1>5, <3>2, <4>2
    <3> QED  BY <3>1, <3>2
  <2>2. \A f, g \in Fd :
          /\ fdtab'[f].kind # "closed" /\ fdtab'[g].kind # "closed"
          /\ fdtab'[f].by = fdtab'[g].by /\ fdtab'[f].handle = fdtab'[g].handle
          => f = g
    BY <1>1, <1>5 DEF Proper
  <2> QED  BY <2>1, <2>2 DEF Proper
<1>7. Covers(resource_list', fdtab')
  <2>1. ASSUME NEW f \in Fd, fdtab'[f].path # NoPath, ~fdtab'[f].unlocked
        PROVE  \E r \in ToSet(resource_list') : r.path = fdtab'[f].path /\ r.id = fdtab'[f].by
    <3>1. fdtab'[f] = fdtab[f] /\ ~ Has(id, f, path)
      BY <1>5, <2>1
    <3>2. PICK r \in ToSet(resource_list) : r.path = fdtab[f].path /\ r.id = fdtab[f].by
      BY <1>1, <2>1, <3>1 DEF Covers
    <3>3. r.path # path
      BY <1>4, <2>1, <3>1, <3>2 DEF Has, Linked
    <3> QED  BY <1>3, <3>1, <3>2, <3>3
  <2> QED  BY <2>1 DEF Covers
<1>8. Backs(resource_list', fdtab')
  <2>1. ASSUME NEW r \in ToSet(resource_list'), r.fd # -1
        PROVE  \E f \in Fd : /\ fdtab'[f].path = r.path /\ fdtab'[f].by = r.id
                             /\ fdtab'[f].handle = r.fd
    <3>1. PICK f \in Fd : fdtab[f].path = r.path /\ fdtab[f].by = r.id /\ fdtab[f].handle = r.fd
      BY <1>1, <1>3, <2>1 DEF Backs
    <3>2. fdtab'[f] = fdtab[f]
      BY <1>3, <1>5, <2>1, <3>1
    <3> QED  BY <3>1, <3>2
  <2> QED  BY <2>1 DEF Backs
<1> QED  BY <1>6, <1>7, <1>8, AsSetsNext

-----------------------------------------------------------------------------
(* The inductive step.                                                       *)

\* Once two handles have clashed nothing more is claimed.
LEMMA AfterClash ==
  ASSUME ServerInv', clash'
  PROVE  CarefulInv'
BY DEF CarefulInv, HandlesDiffer, NamelessIsUnlocked, DescriptorCovered, LocksBacked

\* A step that touches neither records nor entries.
LEMMA IdleStep ==
  ASSUME CarefulInv, ServerInv', UNCHANGED <<resource_list, fdtab, clash>>
  PROVE  CarefulInv'
BY DEF CarefulInv, HandlesDiffer, NamelessIsUnlocked, DescriptorCovered, LocksBacked, Linked, Has

\* The calls of clients that close only what they have open.
OwnClose(id, fd) ==
  /\ Mounted(id)
  /\ fdtab[fd].kind \in {"file", "dir"} /\ fdtab[fd].by = id
  /\ fsClose(id, fd)

OwnCloseDir(id, fd) ==
  /\ Mounted(id)
  /\ fdtab[fd].kind = "stream" /\ fdtab[fd].by = id
  /\ fsCloseDir(id, fdtab[fd].handle)

OwnNext ==
  \/ CallMount
  \/ \E id \in Client :
       \/ CallUnmount(id) \/ CallReadDir(id)
       \/ \E path \in Path :
            CallOpenDir(id, path) \/ CallRemove(id, path) \/ CallOpen(id, path)
       \/ \E fd \in Fd :
            \/ OwnClose(id, fd) \/ OwnCloseDir(id, fd)
            \/ CallRead(id, fd) \/ CallWrite(id, fd)

\* They are among the calls of any clients.
LEMMA OwnCalls == ASSUME OwnNext PROVE Next
<1>1. ASSUME NEW id \in Client, NEW fd \in Fd, OwnClose(id, fd)
      PROVE  CallClose(id, fd)
  BY <1>1 DEF OwnClose, CallClose, MayUse
<1>2. ASSUME NEW id \in Client, NEW fd \in Fd, OwnCloseDir(id, fd)
      PROVE  CallCloseDir(id)
  BY <1>2 DEF OwnCloseDir, CallCloseDir, DirHandles
<1> QED  BY <1>1, <1>2 DEF OwnNext, Next

\* And careful clients make no others.
LEMMA CarefulCalls == ASSUME Careful, TypeOK, Next PROVE OwnNext
<1>1. ASSUME NEW id \in Client, NEW fd \in Fd, CallClose(id, fd)
      PROVE  OwnClose(id, fd)
  <2>1. fdtab[fd].kind \in {"closed", "file", "dir", "stream"}
    BY DEF TypeOK, Entry
  <2> QED  BY <1>1, <2>1 DEF OwnClose, CallClose, MayUse
<1>2. ASSUME NEW id \in Client, CallCloseDir(id)
      PROVE  \E fd \in Fd : OwnCloseDir(id, fd)
  BY <1>2 DEF OwnCloseDir, CallCloseDir, DirHandles
<1> QED  BY <1>1, <1>2 DEF OwnNext, Next

\* The invariant is preserved by every call of such a client.
LEMMA OwnStep ==
  ASSUME CarefulInv, [OwnNext]_vars
  PROVE  CarefulInv'
<1>1. ServerInv /\ TypeOK
  BY DEF CarefulInv, ServerInv
<1>2. ServerInv'
  BY <1>1, OwnCalls, ServerStep
<1>3. CASE UNCHANGED <<resource_list, fdtab, clash>>
  BY <1>2, <1>3, IdleStep
<1> USE DEF tables, kernel, Answer, Refused, Crash
<1>4. CASE \/ UNCHANGED vars \/ CallMount
           \/ \E id \in Client : CallUnmount(id) \/ CallReadDir(id)
           \/ \E id \in Client, fd \in Fd : CallRead(id, fd) \/ CallWrite(id, fd)
  <2>1. CASE UNCHANGED vars \/ CallMount
    BY <1>3, <2>1 DEF vars, CallMount, fsMount
  <2>2. ASSUME NEW id \in Client, CallUnmount(id) \/ CallReadDir(id)
        PROVE  CarefulInv'
    BY <1>3, <2>2 DEF CallUnmount, fsUnmount, CallReadDir, fsReadDir
  <2>3. ASSUME NEW id \in Client, NEW fd \in Fd, CallRead(id, fd) \/ CallWrite(id, fd)
        PROVE  CarefulInv'
    BY <1>3, <2>3 DEF CallRead, fsRead, CallWrite, fsWrite
  <2> QED  BY <1>4, <2>1, <2>2, <2>3
<1>5. CASE clash
  <2>1. [OwnNext]_vars /\ clash => clash'
    <3> USE DEF CallMount, fsMount, CallUnmount, fsUnmount, CallReadDir, fsReadDir,
                CallRead, fsRead, CallWrite, fsWrite
    <3>1. ASSUME NEW id \in Client, NEW fd \in Fd, OwnCloseDir(id, fd)
          PROVE  clash'
      BY <1>5, <3>1 DEF OwnCloseDir, fsCloseDir, CloseDirRefused, CloseDirPasses
    <3>2. ASSUME NEW id \in Client, NEW path \in Path, CallOpenDir(id, path)
          PROVE  clash'
      BY <1>5, <3>2 DEF CallOpenDir, fsOpenDir, OpenDirFails, OpenDirSucceeds, Opened
    <3>3. ASSUME NEW id \in Client, NEW path \in Path, CallRemove(id, path)
          PROVE  clash'
      BY <1>5, <3>3 DEF CallRemove, fsRemove, RemoveSucceeds, RemoveFails
    <3>4. ASSUME NEW id \in Client, NEW path \in Path, CallOpen(id, path)
          PROVE  clash'
      BY <1>5, <3>4 DEF CallOpen, fsOpen, OpenFails, OpenSucceeds, Opened
    <3>5. ASSUME NEW id \in Client, NEW fd \in Fd, OwnClose(id, fd)
          PROVE  clash'
      BY <1>5, <3>5 DEF OwnClose, fsClose, ClosePasses
    <3> QED  BY <3>1, <3>2, <3>3, <3>4, <3>5 DEF OwnNext, vars
  <2> QED  BY <1>2, <1>5, <2>1, AfterClash
<1>6. CASE clash'
  BY <1>2, <1>6, AfterClash
<1>7. ASSUME ~clash, NEW id \in Client, NEW fd \in Fd, OwnCloseDir(id, fd)
      PROVE  CarefulInv'
  <2> DEFINE d == fdtab[fd].handle
  <2>1. fsCloseDir(id, d)
    BY <1>7 DEF OwnCloseDir
  <2>2. fdtab[fd].kind = "stream" /\ fdtab[fd].by = id
    BY <1>7 DEF OwnCloseDir
  <2>3. CASE CloseDirRefused(id) \/ Crash
    BY <1>3, <2>3 DEF CloseDirRefused
  <2>4. CASE CloseDirPasses(id, d)
    <3>1. find(open_dir_queue, d) = [id |-> d, dir |-> fd]
      BY <1>1, <2>2 DEF ServerInv, DirHandleResolves
    <3>2. find(open_dir_queue, d).dir = fd
      BY <3>1
    <3>3. /\ fdtab' = [WithoutLock(id, fdtab[fd].path) EXCEPT ![fd] = Closed]
          /\ resource_list' = remove_resource(resource_list, id, fdtab[fd].handle, NoPath)
      BY <2>2, <2>4, <3>2 DEF CloseDirPasses
    <3> QED  BY <1>2, <1>7, <2>2, <3>3, ReleaseKeeps
  <2> QED  BY <2>1, <2>3, <2>4 DEF fsCloseDir
<1>8. ASSUME ~clash, ~clash', NEW id \in Client, NEW path \in Path, CallOpenDir(id, path)
      PROVE  CarefulInv'
  <2>1. CASE Refused(find_resource(resource_list, 0, path), id) \/ OpenDirFails(id, path)
    BY <1>3, <2>1 DEF OpenDirFails
  <2>2. CASE OpenDirSucceeds(id, path)
    <3> DEFINE fd    == Min(FreeFds)
               d     == open_dir_id + 1
               entry == [kind |-> "stream", mode |-> 0, path |-> path, by |-> id,
                         handle |-> d, unlocked |-> FALSE]
    <3>1. fd \in Fd /\ fdtab[fd].kind = "closed"
      BY <2>2, LowestFree DEF OpenDirSucceeds
    <3>2. d \in Nat
      BY <1>1 DEF TypeOK
    <3>3. /\ ~ HeldByOther(find_resource(resource_list, 0, path), id)
          /\ fdtab' = [fdtab EXCEPT ![fd] = entry]
          /\ Relock(1, id, d, path)
      BY <2>2 DEF OpenDirSucceeds, NewDirId, Opened
    <3>4. \A f \in Fd : ~ (fdtab[f].by = id /\ fdtab[f].handle = d)
      BY <1>8, <2>2, Zenon DEF OpenDirSucceeds, NewDirId, Opened
    <3>5. entry \in Entry /\ entry.path = path /\ entry.by = id /\ entry.handle = d
      BY <3>2 DEF Entry
    <3> HIDE DEF fd, d, entry
    <3> QED  BY <1>2, <1>8, <3>1, <3>3, <3>4, <3>5, GrantKeeps
  <2> QED  BY <1>8, <2>1, <2>2 DEF CallOpenDir, fsOpenDir
<1>9. ASSUME ~clash, NEW id \in Client, NEW path \in Path, CallRemove(id, path)
      PROVE  CarefulInv'
  <2>1. CASE Refused(find_resource(resource_list, 0, path), id)
    BY <1>3, <2>1
  <2>2. CASE RemoveSucceeds(id, path) \/ RemoveFails(id, path)
    BY <1>2, <1>9, <2>2, RemovalKeeps
  <2> QED  BY <1>9, <2>1, <2>2 DEF CallRemove, fsRemove
<1>10. ASSUME ~clash, ~clash', NEW id \in Client, NEW path \in Path, CallOpen(id, path)
       PROVE  CarefulInv'
  <2>1. PICK mode \in {0, 1} : fsOpen(id, mode, path)
    BY <1>10 DEF CallOpen
  <2>2. CASE Refused(find_resource(resource_list, 0, path), id)
    BY <1>3, <2>2
  <2>3. CASE OpenSucceeds(id, mode, path)
    <3> DEFINE fd    == Min(FreeFds)
               kind  == IF disk[path] = "dir" THEN "dir" ELSE "file"
               entry == [kind |-> kind, mode |-> mode, path |-> path, by |-> id,
                         handle |-> fd, unlocked |-> FALSE]
    <3>1. fd \in Fd /\ fdtab[fd].kind = "closed"
      BY <2>3, LowestFree DEF OpenSucceeds, open_errno, EMFILE
    <3>2. /\ ~ HeldByOther(find_resource(resource_list, 0, path), id)
          /\ fdtab' = [fdtab EXCEPT ![fd] = entry]
          /\ Relock(mode, id, fd, path)
      BY <2>3 DEF OpenSucceeds, Opened
    <3>3. \A f \in Fd : ~ (fdtab[f].by = id /\ fdtab[f].handle = fd)
      BY <1>10, <2>3, Zenon DEF OpenSucceeds, Opened
    <3>4. entry \in Entry /\ entry.path = path /\ entry.by = id /\ entry.handle = fd
      BY <3>1 DEF Entry
    <3> HIDE DEF fd, kind, entry
    <3> QED  BY <1>2, <1>10, <3>1, <3>2, <3>3, <3>4, GrantKeeps
  <2>4. CASE OpenFails(id, mode, path)
    <3>1. /\ ~ HeldByOther(find_resource(resource_list, 0, path), id)
          /\ Relock(mode, id, -1, path)
          /\ UNCHANGED fdtab
      BY <2>4 DEF OpenFails
    <3> QED  BY <1>2, <1>10, <3>1, FailureKeeps
  <2> QED  BY <2>1, <2>2, <2>3, <2>4 DEF fsOpen
<1>11. ASSUME ~clash, NEW id \in Client, NEW fd \in Fd, OwnClose(id, fd)
       PROVE  CarefulInv'
  <2>1. /\ fdtab[fd].kind \in {"file", "dir"} /\ fdtab[fd].by = id
        /\ fdtab[fd].handle = fd
    BY <1>1, <1>11 DEF OwnClose, ServerInv, EntryShape
  <2>2. CASE Refused(find_resource(resource_list, fd, NoPath), id)
    BY <1>3, <2>2
  <2>3. CASE ClosePasses(id, fd)
    <3>1. /\ fdtab' = [WithoutLock(id, fdtab[fd].path) EXCEPT ![fd] = Closed]
          /\ resource_list' = remove_resource(resource_list, id, fdtab[fd].handle, NoPath)
      BY <2>1, <2>3 DEF ClosePasses
    <3> QED  BY <1>2, <1>11, <2>1, <3>1, ReleaseKeeps
  <2> QED  BY <1>11, <2>2, <2>3 DEF OwnClose, fsClose
<1> QED  BY <1>4, <1>5, <1>6, <1>7, <1>8, <1>9, <1>10, <1>11 DEF OwnNext

\* A server that nobody has used satisfies it.
LEMMA CarefulInit == Init => CarefulInv
<1> SUFFICES ASSUME Init PROVE CarefulInv
  OBVIOUS
<1>1. ServerInv
  BY ServerInit
<1>2. \A fd \in Fd : fdtab[fd].kind = "closed" /\ ~ Linked(fd)
  BY DEF Init, Closed, Linked
<1>3. DOMAIN resource_list = {}
  BY DEF Init
<1> QED  BY <1>1, <1>2, <1>3 DEF CarefulInv, HandlesDiffer, NamelessIsUnlocked, DescriptorCovered, LocksBacked

-----------------------------------------------------------------------------
(* The theorems.                                                             *)

\* The invariant holds of careful clients.
LEMMA CarefulAlways == ASSUME Careful PROVE Spec => []CarefulInv
<1>1. CarefulInv /\ [Next]_vars => CarefulInv'
  BY CarefulCalls, OwnStep DEF CarefulInv, ServerInv
<1> QED  BY <1>1, CarefulInit, PTL DEF Spec

\* A client holds the lock of a path for as long as it has the path open, unless
\* it has given the lock away.
THEOREM Coverage == ASSUME Careful PROVE Spec => []DescriptorCovered
<1>1. CarefulInv => DescriptorCovered
  BY DEF CarefulInv
<1> QED  BY <1>1, CarefulAlways, PTL

\* No two clients that have kept their locks have one file or directory open.
THEOREM Exclusion == ASSUME Careful PROVE Spec => []ExclusiveDescriptors
<1>1. CarefulInv => ExclusiveDescriptors
  BY DEF CarefulInv, DescriptorCovered, ExclusiveDescriptors
<1> QED  BY <1>1, CarefulAlways, PTL

\* A lock is gone when its handle is closed.
THEOREM NoStaleLock == ASSUME Careful PROVE Spec => []LocksBacked
<1>1. CarefulInv => LocksBacked
  BY DEF CarefulInv
<1> QED  BY <1>1, CarefulAlways, PTL

\* A client is refused its own descriptor only for another's directory id.
THEOREM OwnerServed == ASSUME Careful PROVE Spec => []OwnerNotRefused
<1>1. ASSUME CarefulInv, ~clash, NEW fd \in Fd, fdtab[fd].kind \in {"file", "dir"},
             HeldByOther(find_resource(resource_list, fd, NoPath), fdtab[fd].by)
      PROVE  \E f \in Fd : /\ fdtab[f].kind = "stream" /\ fdtab[f].handle = fd
                           /\ fdtab[f].by # fdtab[fd].by
  <2> DEFINE res == find_resource(resource_list, fd, NoPath)
  <2>1. /\ resource_list \in Seq(Resource) /\ Backs(resource_list, fdtab)
        /\ EntryShape /\ fdtab \in [Fd -> Entry]
    BY <1>1, AsSets DEF CarefulInv, ServerInv, TypeOK
  <2>2. res # NoResource /\ res.id # fdtab[fd].by
    BY <1>1 DEF HeldByOther
  <2>3. PICK k \in 1..Len(resource_list) :
          Matches(resource_list[k], fd, NoPath) /\ res = resource_list[k]
    BY <2>1, <2>2, FindFirst
  <2>4. res \in ToSet(resource_list) /\ res.fd = fd
    BY <2>1, <2>3, LenProperties DEF ToSet, Matches
  <2> HIDE DEF res
  <2>5. res.path # NoPath
    BY <2>1, <2>4, RecordsTyped, NoPathAssumption DEF Resource
  <2>6. PICK f \in Fd : fdtab[f].path = res.path /\ fdtab[f].by = res.id /\ fdtab[f].handle = fd
    BY <2>1, <2>4 DEF Backs
  <2>7. fdtab[f].kind \in {"closed", "file", "dir", "stream"}
    BY <2>1 DEF Entry
  <2>8. fdtab[f].kind \in {"file", "dir"} => f = fd
    BY <2>1, <2>6 DEF EntryShape
  <2>9. fdtab[f].kind = "stream"
    BY <2>1, <2>2, <2>5, <2>6, <2>7, <2>8 DEF EntryShape, Linked
  <2> QED  BY <2>2, <2>6, <2>9
<1>2. CarefulInv => OwnerNotRefused
  BY <1>1 DEF OwnerNotRefused
<1> QED  BY <1>2, CarefulAlways, PTL

=============================================================================
