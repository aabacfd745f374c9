-------------------------- MODULE MdnsCacheProofs --------------------------
(***************************************************************************)
(* Endpoints in the mDNS cache and the peer table, for any receivers with  *)
(* any number of lives, any records in a packet and tables of any size.    *)
(***************************************************************************)
EXTENDS MdnsCache, FiniteSetTheorems, WellFoundedInduction, TLAPS

-----------------------------------------------------------------------------
(***************************************************************************)
(* Loops, and first and last places.                                       *)
(***************************************************************************)

\* Of some natural numbers one is the least: Min finds it.
LEMMA LeastFound ==
    ASSUME NEW S \in SUBSET Nat, S # {}
    PROVE  Min(S) \in S /\ \A j \in S : Min(S) <= j
<1>1. PICK m \in S : \A k \in S : ~(<<k, m>> \in OpToRel(<, Nat))
  BY NatLessThanWellFounded, WFMin
<1>2. \A k \in S : m <= k
  <2>1. ASSUME NEW k \in S PROVE ~(k < m) /\ k \in Nat /\ m \in Nat
    BY <1>1 DEF OpToRel
  <2> QED  BY <2>1
<1> QED  BY <1>2 DEF Min

\* Of some places of a list one is the last: Max finds it.
LEMMA GreatestFound ==
    ASSUME NEW n \in Nat, NEW S \in SUBSET (1 .. n), S # {}
    PROVE  Max(S) \in S /\ \A j \in S : j <= Max(S)
<1> DEFINE Behind == {n - j : j \in S}
<1>1. Behind \in SUBSET Nat /\ Behind # {}
  <2>1. \A j \in S : n - j \in Nat
    OBVIOUS
  <2> QED  BY <2>1
<1>2. Min(Behind) \in Behind /\ \A k \in Behind : Min(Behind) <= k
  BY <1>1, LeastFound
<1>3. PICK m \in S : \A j \in S : n - m <= n - j
  BY <1>2
<1>4. \A j \in S : m >= j
  BY <1>3
<1>5. Max(S) \in S /\ \A j \in S : Max(S) >= j
  BY <1>4 DEF Max
<1> QED  BY <1>5

\* A set that has 0 and with every number below n the next one has all numbers
\* up to n: induction over a loop.
LEMMA UpTo ==
    ASSUME NEW n \in Nat, NEW S, 0 \in S, \A i \in 1 .. n : i - 1 \in S => i \in S
    PROVE  n \in S
<1> DEFINE Absent == {i \in Nat : i <= n /\ i \notin S}
<1> SUFFICES ASSUME Absent # {} PROVE FALSE
  OBVIOUS
<1>1. Absent \in SUBSET Nat
  OBVIOUS
<1> DEFINE m == Min(Absent)
<1>2. m \in Absent /\ \A k \in Absent : m <= k
  BY <1>1, LeastFound
<1> HIDE DEF m
<1>3. m \in 1 .. n /\ m - 1 \in Nat /\ m - 1 <= n /\ ~(m <= m - 1)
  BY <1>2
<1>4. m - 1 \notin Absent
  BY <1>2, <1>3
<1> QED  BY <1>2, <1>3, <1>4

\* A loop that applies a step to what it has and to the next item, where D is
\* what it may have and E what an item may be.
IsLoop(step_of, first, items, D, E) ==
    step_of \in [D -> [E -> D]] /\ first \in D /\ items \in Seq(E)

\* f is what it has after each number of items.
Runs(f, step_of, first, items, D) ==
    /\ f \in [0 .. Len(items) -> D] /\ f[0] = first
    /\ \A i \in 1 .. Len(items) : f[i] = step_of[f[i - 1]][items[i]]

\* A loop has a result after every number of items.
LEMMA LoopRuns ==
    ASSUME NEW step_of, NEW first, NEW items, NEW D, NEW E, IsLoop(step_of, first, items, D, E)
    PROVE  \E f : Runs(f, step_of, first, items, D)
<1> USE DEF IsLoop
<1> DEFINE Up(f, n) == /\ f \in [0 .. n -> D] /\ f[0] = first
                       /\ \A i \in 1 .. n : f[i] = step_of[f[i - 1]][items[i]]
           Reached == {n \in 0 .. Len(items) : \E f : Up(f, n)}
<1>1. 0 \in Reached
  <2>1. Up([i \in 0 .. 0 |-> first], 0)
    OBVIOUS
  <2>2. 0 \in 0 .. Len(items)
    OBVIOUS
  <2> HIDE DEF Up
  <2> QED  BY <2>1, <2>2
<1>2. ASSUME NEW n \in 1 .. Len(items), n - 1 \in Reached
      PROVE  n \in Reached
  <2>1. PICK f : Up(f, n - 1)
    BY <1>2
  <2> DEFINE g == [i \in 0 .. n |->
                        IF i < n THEN f[i] ELSE step_of[f[n - 1]][items[n]]]
  <2>2. f[n - 1] \in D /\ items[n] \in E
    BY <2>1
  <2>3. step_of[f[n - 1]][items[n]] \in D
    BY <2>2
  <2>4. g \in [0 .. n -> D] /\ g[0] = first
    BY <2>1, <2>3
  <2>5. ASSUME NEW i \in 1 .. n PROVE g[i] = step_of[g[i - 1]][items[i]]
    <3>1. CASE i = n
      <4>1. g[i] = step_of[f[n - 1]][items[n]] /\ g[i - 1] = f[n - 1]
        BY <3>1
      <4> QED  BY <3>1, <4>1
    <3>2. CASE i # n
      <4>1. i \in 1 .. n - 1 /\ g[i] = f[i] /\ g[i - 1] = f[i - 1]
        BY <3>2
      <4> QED  BY <2>1, <4>1
    <3> QED  BY <3>1, <3>2
  <2> HIDE DEF g
  <2>6. Up(g, n)
    BY <2>4, <2>5
  <2>7. n \in 0 .. Len(items)
    OBVIOUS
  <2> HIDE DEF Up
  <2> QED  BY <2>6, <2>7
<1> HIDE DEF Reached
<1>3. Len(items) \in Reached
  BY <1>1, <1>2, UpTo
<1> QED  BY <1>3 DEF Reached, Runs

\* Sequences of items put one after the other are a sequence of items.
LEMMA Flattened ==
    ASSUME NEW T, NEW seqs \in Seq(Seq(T))
    PROVE  FlattenSeq(seqs) \in Seq(T)
<1>1. CASE Len(seqs) = 0
  BY <1>1 DEF FlattenSeq
<1>2. CASE Len(seqs) # 0
  <2> DEFINE n == Len(seqs)
             put == [p \in Seq(T) |-> [q \in Seq(T) |-> p \o q]]
             flatten == CHOOSE f : f = [i \in 1 .. n |->
                                            IF i = 1 THEN seqs[i] ELSE f[i - 1] \o seqs[i]]
  <2>1. put \in [Seq(T) -> [Seq(T) -> Seq(T)]] /\ <<>> \in Seq(T) /\ n \in Nat \ {0}
    BY <1>2
  <2>2. PICK f : Runs(f, put, <<>>, seqs, Seq(T))
    <3>1. IsLoop(put, <<>>, seqs, Seq(T), Seq(T))
      BY <2>1 DEF IsLoop
    <3> HIDE DEF put
    <3> QED  BY <3>1, LoopRuns
  <2> DEFINE g == [i \in 1 .. n |-> f[i]]
  <2>3. \A i \in 1 .. n : f[i] = f[i - 1] \o seqs[i] /\ f[i - 1] \in Seq(T)
    <3> TAKE i \in 1 .. n
    <3>1. i - 1 \in 0 .. n /\ seqs[i] \in Seq(T)
      OBVIOUS
    <3> QED  BY <2>2, <3>1 DEF Runs
  <2>4. g = [i \in 1 .. n |-> IF i = 1 THEN seqs[i] ELSE g[i - 1] \o seqs[i]]
    <3> SUFFICES ASSUME NEW i \in 1 .. n
                 PROVE  f[i] = IF i = 1 THEN seqs[i] ELSE f[i - 1] \o seqs[i]
      OBVIOUS
    <3>1. CASE i = 1
      <4>1. 1 \in 1 .. n /\ seqs[1] \in Seq(T)
        BY <2>1
      <4>2. <<>> \o seqs[1] = seqs[1]
        BY <4>1
      <4>3. f[1] = f[0] \o seqs[1]
        <5>1. f[1] = f[1 - 1] \o seqs[1]
          BY <2>3, <4>1
        <5> QED  BY <5>1
      <4> HIDE DEF n
      <4> QED  BY <2>2, <3>1, <4>2, <4>3 DEF Runs
    <3>2. CASE i # 1
      BY <2>3, <3>2
    <3> QED  BY <3>1, <3>2
  <2>5. flatten = [i \in 1 .. n |-> IF i = 1 THEN seqs[i] ELSE flatten[i - 1] \o seqs[i]]
    <3> HIDE DEF g
    <3> QED  BY <2>4
  <2> HIDE DEF flatten
  <2> DEFINE Fits == {i \in 0 .. n : i # 0 => flatten[i] \in Seq(T)}
  <2>6. 0 \in Fits
    OBVIOUS
  <2>7. ASSUME NEW i \in 1 .. n, i - 1 \in Fits PROVE i \in Fits
    <3>1. seqs[i] \in Seq(T) /\ i \in 0 .. n
      OBVIOUS
    <3>2. CASE i = 1
      BY <2>5, <3>1, <3>2
    <3>3. CASE i # 1
      <4>1. i - 1 # 0 /\ flatten[i - 1] \in Seq(T)
        BY <2>7, <3>3
      <4>2. flatten[i] = flatten[i - 1] \o seqs[i]
        BY <2>5, <3>3
      <4>3. flatten[i] \in Seq(T)
        BY <3>1, <4>1, <4>2
      <4> QED  BY <3>1, <4>3
    <3> QED  BY <3>2, <3>3
  <2> HIDE DEF Fits
  <2>8. n \in Fits
    BY <2>1, <2>6, <2>7, UpTo
  <2>9. FlattenSeq(seqs) = flatten[n]
    BY <1>2 DEF FlattenSeq, flatten
  <2> QED  BY <2>1, <2>8, <2>9 DEF Fits
<1> QED  BY <1>1, <1>2

-----------------------------------------------------------------------------
(***************************************************************************)
(* Hosts.                                                                  *)
(***************************************************************************)

Host == Names \X Addresses

\* The address of a name is one of those that hosts give for it, if any does.
LEMMA AddressFound ==
    ASSUME NEW list \in Seq(Host), NEW name
    PROVE  /\ AddressIn(list, name) = None <=> \A i \in 1 .. Len(list) : list[i][1] # name
           /\ AddressIn(list, name) # None =>
                \E i \in 1 .. Len(list) : list[i][1] = name /\ AddressIn(list, name) = list[i][2]
<1>1. PlacesOf(list, name) = {i \in 1 .. Len(list) : list[i][1] = name}
  BY DEF PlacesOf
<1>2. CASE PlacesOf(list, name) = {}
  BY <1>1, <1>2 DEF AddressIn
<1>3. CASE PlacesOf(list, name) # {}
  <2> DEFINE i == Min(PlacesOf(list, name))
  <2>1. i \in PlacesOf(list, name)
    <3>1. PlacesOf(list, name) \in SUBSET Nat
      BY <1>1
    <3> QED  BY <1>3, <3>1, LeastFound
  <2>2. AddressIn(list, name) = list[i][2]
    BY <1>3 DEF AddressIn
  <2> HIDE DEF i
  <2>3. i \in 1 .. Len(list) /\ list[i][1] = name
    BY <1>1, <2>1
  <2>4. list[i] \in Host
    BY <2>3
  <2>5. list[i][2] # None
    BY <2>4, MdnsAssumption DEF Host
  <2> QED  BY <2>2, <2>3, <2>5
<1> QED  BY <1>2, <1>3

\* A host of a packet is the only one that changes a place, no name is lost,
\* and it is entered unless the table is full.
LEMMA HostMerged ==
    ASSUME NEW list \in Seq(Host), Len(list) <= MaxHosts, NEW host \in Host
    PROVE  /\ merge_host(list, host) \in Seq(Host)
           /\ Len(list) <= Len(merge_host(list, host)) /\ Len(merge_host(list, host)) <= MaxHosts
           /\ \A i \in 1 .. Len(merge_host(list, host)) :
                \/ merge_host(list, host)[i] = host
                \/ i <= Len(list) /\ merge_host(list, host)[i] = list[i]
           /\ \A i \in 1 .. Len(list) : merge_host(list, host)[i][1] = list[i][1]
           /\ \/ Len(merge_host(list, host)) = MaxHosts
              \/ \E i \in 1 .. Len(merge_host(list, host)) :
                    merge_host(list, host)[i][1] = host[1]
           /\ merge_host(merge_host(list, host), host) = merge_host(list, host)
<1> DEFINE new == merge_host(list, host)
           at == PlacesOf(list, host[1])
<1>1. MaxHosts \in Nat
  BY MdnsAssumption
<1>2. at = {i \in 1 .. Len(list) : list[i][1] = host[1]} /\ at \in SUBSET Nat
  BY DEF PlacesOf
<1>3. CASE at # {}
  <2>1. PICK m \in 1 .. Len(list) : m = Min(at) /\ list[m][1] = host[1]
    <3>1. Min(at) \in at
      BY <1>2, <1>3, LeastFound
    <3>2. Min(at) \in {i \in 1 .. Len(list) : list[i][1] = host[1]}
      BY <1>2, <3>1
    <3> HIDE DEF at
    <3> QED  BY <3>2
  <2>2. new = [list EXCEPT ![m] = host]
    BY <1>3, <2>1 DEF merge_host
  <2>3. new \in Seq(Host) /\ Len(new) = Len(list)
    BY <2>2
  <2>4. \A i \in 1 .. Len(list) : new[i] = IF i = m THEN host ELSE list[i]
    BY <2>2
  <2>5. \A i \in 1 .. Len(list) : new[i][1] = list[i][1]
    BY <2>1, <2>4
  <2>6. PlacesOf(new, host[1]) = at
    <3> HIDE DEF new, at
    <3> QED  BY <1>2, <2>3, <2>5 DEF PlacesOf
  <2>7. merge_host(new, host) = [new EXCEPT ![m] = host]
    BY <1>3, <2>1, <2>6 DEF merge_host
  <2>8. [new EXCEPT ![m] = host] = new
    BY <2>1, <2>2
  <2> HIDE DEF new, at
  <2>9. \E i \in 1 .. Len(new) : new[i][1] = host[1]
    BY <2>1, <2>3, <2>4
  <2>10. \A i \in 1 .. Len(new) : new[i] = host \/ (i <= Len(list) /\ new[i] = list[i])
    BY <2>3, <2>4
  <2>11. Len(list) <= Len(new) /\ Len(new) <= MaxHosts
    BY <1>1, <2>3
  <2> QED  BY <2>3, <2>5, <2>7, <2>8, <2>9, <2>10, <2>11 DEF new
<1>4. CASE at = {} /\ Len(list) < MaxHosts
  <2>1. new = Append(list, host)
    BY <1>4 DEF merge_host
  <2>2. new \in Seq(Host) /\ Len(new) = Len(list) + 1 /\ new[Len(list) + 1] = host
    BY <2>1
  <2>3. \A i \in 1 .. Len(list) : new[i] = list[i]
    BY <2>1
  <2> DEFINE m == Len(list) + 1
  <2>4. PlacesOf(new, host[1]) = {m}
    <3>1. \A i \in 1 .. Len(list) : list[i][1] # host[1]
      BY <1>2, <1>4
    <3> HIDE DEF new, at
    <3> QED  BY <2>2, <2>3, <3>1 DEF PlacesOf
  <2>5. Min({m}) = m
    <3>1. {m} \in SUBSET Nat /\ {m} # {}
      OBVIOUS
    <3> QED  BY <3>1, LeastFound
  <2>6. merge_host(new, host) = [new EXCEPT ![m] = host]
    <3> HIDE DEF new, m
    <3> QED  BY <2>4, <2>5 DEF merge_host
  <2>7. [new EXCEPT ![m] = host] = new
    <3>1. new \in [1 .. m -> Host] /\ new[m] = host
      <4> HIDE DEF new
      <4>1. new \in [1 .. Len(new) -> Host]
        BY <2>2
      <4> QED  BY <2>2, <4>1
    <3> HIDE DEF new, m
    <3> QED  BY <3>1
  <2> HIDE DEF new, at
  <2>8. \E i \in 1 .. Len(new) : new[i][1] = host[1]
    BY <2>2
  <2>9. \A i \in 1 .. Len(new) : new[i] = host \/ (i <= Len(list) /\ new[i] = list[i])
    BY <2>2, <2>3
  <2>10. Len(list) <= Len(new) /\ Len(new) <= MaxHosts
    BY <1>1, <1>4, <2>2
  <2> QED  BY <2>2, <2>3, <2>6, <2>7, <2>8, <2>9, <2>10 DEF new
<1>5. CASE at = {} /\ ~(Len(list) < MaxHosts)
  <2>1. new = list /\ merge_host(list, host) = list
    BY <1>5 DEF merge_host
  <2> HIDE DEF new, at
  <2>2. Len(list) = MaxHosts
    BY <1>1, <1>5
  <2> QED  BY <2>1, <2>2
<1> QED  BY <1>3, <1>4, <1>5

\* The hosts of a packet of one receiver say the same: merging them all is
\* merging one.
LEMMA HostsMerged ==
    ASSUME NEW list \in Seq(Host), Len(list) <= MaxHosts, NEW host \in Host,
           NEW incoming \in Seq(Host), \A i \in 1 .. Len(incoming) : incoming[i] = host
    PROVE  merge_hosts(list, incoming) =
                IF incoming = <<>> THEN list ELSE merge_host(list, host)
<1> DEFINE n == Len(incoming)
           merged == CHOOSE f : f = [i \in 0 .. n |->
                        IF i = 0 THEN list ELSE merge_host(f[i - 1], incoming[i])]
           f == [i \in 0 .. n |-> IF i = 0 THEN list ELSE merge_host(list, host)]
<1>1. ASSUME NEW i \in 1 .. n
      PROVE  f[i] = merge_host(f[i - 1], incoming[i])
  <2>1. f[i] = merge_host(list, host) /\ incoming[i] = host
    OBVIOUS
  <2>2. f[i - 1] = list \/ f[i - 1] = merge_host(list, host)
    OBVIOUS
  <2>3. merge_host(merge_host(list, host), host) = merge_host(list, host)
    BY HostMerged
  <2> HIDE DEF f
  <2> QED  BY <2>1, <2>2, <2>3
<1>2. f = [i \in 0 .. n |-> IF i = 0 THEN list ELSE merge_host(f[i - 1], incoming[i])]
  <2>1. \A i \in 0 .. n : f[i] = IF i = 0 THEN list ELSE merge_host(f[i - 1], incoming[i])
    <3>1. f[0] = list
      OBVIOUS
    <3> HIDE DEF f
    <3> QED  BY <1>1, <3>1
  <2> QED  BY <2>1
<1>3. merged = [i \in 0 .. n |-> IF i = 0 THEN list ELSE merge_host(merged[i - 1], incoming[i])]
  <2> HIDE DEF f
  <2> QED  BY <1>2
<1>4. merge_hosts(list, incoming) = merged[n]
  BY DEF merge_hosts
<1> HIDE DEF merged
<1> DEFINE Right == {i \in 0 .. n : merged[i] = f[i]}
<1>5. 0 \in Right
  BY <1>3
<1>6. ASSUME NEW i \in 1 .. n, i - 1 \in Right PROVE i \in Right
  <2> HIDE DEF f
  <2>1. i \in 0 .. n /\ i # 0 /\ merged[i - 1] = f[i - 1]
    BY <1>6
  <2>2. merged[i] = merge_host(merged[i - 1], incoming[i])
    BY <1>3, <2>1
  <2> QED  BY <1>1, <2>1, <2>2
<1> HIDE DEF Right
<1>7. n \in Right
  BY <1>5, <1>6, UpTo
<1>8. n = 0 <=> incoming = <<>>
  OBVIOUS
<1> QED  BY <1>4, <1>7, <1>8 DEF Right

-----------------------------------------------------------------------------
(***************************************************************************)
(* Services.                                                               *)
(***************************************************************************)

\* A new service is a service of which nothing but its name is known.
LEMMA NewIsService ==
    ASSUME NEW instance \in Instances
    PROVE  /\ NewService(instance) \in Service
           /\ NewService(instance).instance = instance
           /\ ~NewService(instance).has_srv /\ NewService(instance).target = None
           /\ NewService(instance).port = 0 /\ NewService(instance).ipv6 = None
BY DEF NewService, Service

\* What is written into a service when one of a packet is merged into it.
LEMMA UpdateWrites ==
    ASSUME NEW t \in Service, NEW s \in Service
    PROVE  /\ Updated(t, s) \in Service
           /\ Updated(t, s).instance = t.instance
           /\ Updated(t, s).has_ptr <=> t.has_ptr \/ s.has_ptr
           /\ Updated(t, s).has_srv <=> t.has_srv \/ s.has_srv
           /\ Updated(t, s).has_txt <=> t.has_txt \/ s.has_txt
           /\ Updated(t, s).target = IF s.has_srv THEN s.target ELSE t.target
           /\ Updated(t, s).port = IF s.has_srv THEN s.port ELSE t.port
           /\ Updated(t, s).ipv6 = IF s.ipv6 # None THEN s.ipv6 ELSE t.ipv6
<1> DEFINE u == Updated(t, s)
<1>1. u = [instance |-> t.instance,
           target |-> IF s.has_srv THEN s.target ELSE t.target,
           port |-> IF s.has_srv THEN s.port ELSE t.port,
           ipv6 |-> IF s.ipv6 # None THEN s.ipv6 ELSE t.ipv6,
           has_ptr |-> t.has_ptr \/ s.has_ptr,
           has_srv |-> t.has_srv \/ s.has_srv,
           has_txt |-> t.has_txt \/ s.has_txt]
  BY DEF Updated, has_ipv6
<1> HIDE DEF u
<1>2. /\ u.has_ptr <=> t.has_ptr \/ s.has_ptr
      /\ u.has_srv <=> t.has_srv \/ s.has_srv
      /\ u.has_txt <=> t.has_txt \/ s.has_txt
  BY <1>1
<1>3. /\ t.has_ptr \in BOOLEAN /\ t.has_srv \in BOOLEAN /\ t.has_txt \in BOOLEAN
      /\ s.has_ptr \in BOOLEAN /\ s.has_srv \in BOOLEAN /\ s.has_txt \in BOOLEAN
  BY DEF Service
<1>4. u \in Service
  BY <1>1, <1>3 DEF Service
<1> QED  BY <1>1, <1>2, <1>4 DEF u

\* find_service enters a service once at most and none beyond the capacity.
LEMMA ServiceFound ==
    ASSUME NEW list \in Seq(Service), Len(list) <= MaxServices, NEW instance \in Instances
    PROVE  /\ find_service(list, instance) \in Seq(Service)
           /\ Len(list) <= Len(find_service(list, instance))
           /\ Len(find_service(list, instance)) <= MaxServices
           /\ \A i \in 1 .. Len(list) : find_service(list, instance)[i] = list[i]
           /\ \A i \in 1 .. Len(find_service(list, instance)) :
                i <= Len(list) \/ ( /\ find_service(list, instance)[i] = NewService(instance)
                                    /\ ~Holds(list, instance) )
           /\ Holds(find_service(list, instance), instance)
                \/ Len(find_service(list, instance)) = MaxServices
<1> DEFINE found == find_service(list, instance)
<1>1. MaxServices \in Nat
  BY MdnsAssumption
<1>2. CASE Holds(list, instance) \/ Len(list) >= MaxServices
  <2>1. found = list
    BY <1>2 DEF find_service
  <2> HIDE DEF found
  <2>2. Holds(found, instance) \/ Len(found) = MaxServices
    BY <1>1, <1>2, <2>1
  <2> QED  BY <2>1, <2>2 DEF found
<1>3. CASE ~(Holds(list, instance) \/ Len(list) >= MaxServices)
  <2>1. found = Append(list, NewService(instance)) /\ NewService(instance) \in Service
    BY <1>3, NewIsService DEF find_service
  <2>2. /\ found \in Seq(Service) /\ Len(found) = Len(list) + 1
        /\ found[Len(list) + 1] = NewService(instance)
        /\ \A i \in 1 .. Len(list) : found[i] = list[i]
    BY <2>1
  <2> HIDE DEF found
  <2>3. Holds(found, instance)
    BY <2>2, NewIsService DEF Holds
  <2>4. \A i \in 1 .. Len(found) : i <= Len(list) \/ i = Len(list) + 1
    BY <2>2
  <2>5. Len(found) <= MaxServices /\ Len(list) <= Len(found)
    BY <1>1, <1>3, <2>2
  <2> QED  BY <1>3, <2>2, <2>3, <2>4, <2>5 DEF found
<1> QED  BY <1>2, <1>3

\* Merging a service changes the entries of its name only, keeps their places
\* and enters it unless the table is full.
LEMMA ServiceMerged ==
    ASSUME NEW list \in Seq(Service), Len(list) <= MaxServices, NEW s \in Service
    PROVE  /\ merge_service(list, s) \in Seq(Service)
           /\ Len(list) <= Len(merge_service(list, s))
           /\ Len(merge_service(list, s)) <= MaxServices
           /\ \A i \in 1 .. Len(list) : merge_service(list, s)[i] =
                IF list[i].instance = s.instance THEN Updated(list[i], s) ELSE list[i]
           /\ \A i \in 1 .. Len(merge_service(list, s)) :
                i <= Len(list) \/ ( /\ merge_service(list, s)[i] =
                                            Updated(NewService(s.instance), s)
                                    /\ ~Holds(list, s.instance) )
           /\ Holds(merge_service(list, s), s.instance)
                \/ Len(merge_service(list, s)) = MaxServices
<1> DEFINE found == find_service(list, s.instance)
           new == merge_service(list, s)
<1>1. s.instance \in Instances
  BY DEF Service
<1>2. /\ found \in Seq(Service)
      /\ Len(list) <= Len(found) /\ Len(found) <= MaxServices
      /\ \A i \in 1 .. Len(list) : found[i] = list[i]
      /\ \A i \in 1 .. Len(found) :
            i <= Len(list) \/ (found[i] = NewService(s.instance) /\ ~Holds(list, s.instance))
      /\ Holds(found, s.instance) \/ Len(found) = MaxServices
  BY <1>1, ServiceFound
<1>3. new = [i \in DOMAIN found |->
                IF found[i].instance = s.instance THEN Updated(found[i], s) ELSE found[i]]
  BY DEF merge_service
<1> HIDE DEF found, new
<1>4. ASSUME NEW i \in 1 .. Len(found)
      PROVE  new[i] = IF found[i].instance = s.instance THEN Updated(found[i], s) ELSE found[i]
  BY <1>2, <1>3
<1>5. \A i \in 1 .. Len(found) : new[i] \in Service /\ new[i].instance = found[i].instance
  <2> TAKE i \in 1 .. Len(found)
  <2>1. found[i] \in Service
    BY <1>2
  <2> QED  BY <1>4, <2>1, UpdateWrites
<1>6. new \in Seq(Service) /\ Len(new) = Len(found)
  <2>1. new = [i \in 1 .. Len(found) |-> new[i]]
    BY <1>2, <1>3
  <2>2. new \in [1 .. Len(found) -> Service]
    BY <1>5, <2>1
  <2> QED  BY <1>2, <2>2
<1>7. Holds(new, s.instance) \/ Len(new) = MaxServices
  BY <1>2, <1>5, <1>6 DEF Holds
<1>8. \A i \in 1 .. Len(list) : new[i] =
            IF list[i].instance = s.instance THEN Updated(list[i], s) ELSE list[i]
  BY <1>2, <1>4
<1>9. ASSUME NEW i \in 1 .. Len(new), ~(i <= Len(list))
      PROVE  new[i] = Updated(NewService(s.instance), s) /\ ~Holds(list, s.instance)
  BY <1>1, <1>2, <1>4, <1>6, <1>9, NewIsService
<1> QED  BY <1>2, <1>6, <1>7, <1>8, <1>9 DEF new

\* At most one service of a packet is merged.
LEMMA ServicesMerged ==
    ASSUME NEW list, NEW incoming \in Seq(Service), Len(incoming) <= 1
    PROVE  merge_services(list, incoming) =
                IF incoming = <<>> THEN list ELSE merge_service(list, incoming[1])
<1> DEFINE n == Len(incoming)
           merged == CHOOSE f : f = [i \in 0 .. n |->
                        IF i = 0 THEN list ELSE merge_service(f[i - 1], incoming[i])]
           f == [i \in 0 .. n |-> IF i = 0 THEN list ELSE merge_service(list, incoming[1])]
<1>1. n \in {0, 1} /\ (n = 0 <=> incoming = <<>>)
  <2>1. n \in Nat /\ n <= 1
    OBVIOUS
  <2>2. n = 0 <=> incoming = <<>>
    OBVIOUS
  <2> HIDE DEF n
  <2> QED  BY <2>1, <2>2
<1>2. f = [i \in 0 .. n |-> IF i = 0 THEN list ELSE merge_service(f[i - 1], incoming[i])]
  <2>1. ASSUME NEW i \in 0 .. n
        PROVE  f[i] = IF i = 0 THEN list ELSE merge_service(f[i - 1], incoming[i])
    <3>1. CASE i = 0
      BY <3>1
    <3>2. CASE i # 0
      <4>1. i = 1 /\ f[1] = merge_service(list, incoming[1]) /\ f[1 - 1] = list
        BY <1>1, <3>2
      <4> HIDE DEF f
      <4> QED  BY <4>1
    <3> QED  BY <3>1, <3>2
  <2> QED  BY <2>1
<1>3. merged = [i \in 0 .. n |-> IF i = 0 THEN list ELSE merge_service(merged[i - 1], incoming[i])]
  <2> HIDE DEF f
  <2> QED  BY <1>2
<1>4. merge_services(list, incoming) = merged[n]
  BY DEF merge_services
<1> HIDE DEF merged
<1>5. merged[0] = list
  BY <1>1, <1>3
<1>6. n = 1 => merged[1] = merge_service(list, incoming[1])
  <2> SUFFICES ASSUME n = 1 PROVE merged[1] = merge_service(list, incoming[1])
    OBVIOUS
  <2>1. merged[1] = merge_service(merged[1 - 1], incoming[1])
    BY <1>3
  <2> QED  BY <1>5, <2>1
<1> QED  BY <1>1, <1>4, <1>5, <1>6

-----------------------------------------------------------------------------
(***************************************************************************)
(* Packets of one receiver in one life.                                    *)
(***************************************************************************)

\* A service says of itself what a receiver has sent in this life, and nothing
\* else.
SaidBy(s, e) ==
    /\ s.instance = e.instance
    /\ s.has_srv => s.target = e.target /\ s.port = e.port
    /\ ~s.has_srv => s.target = None

\* A record of a service has left its mark on it.
Marked(s, x) ==
    /\ x[1] = "PTR" => s.has_ptr
    /\ x[1] = "SRV" => s.has_srv
    /\ x[1] = "TXT" => s.has_txt

\* What may be read of records of one life, before addresses are filled in.
ReadOf(e) ==
    {result \in [services : Seq(Service), hosts : Seq(Host)] :
        /\ Len(result.services) <= 1 /\ Len(result.hosts) <= MaxHosts
        /\ \A j \in 1 .. Len(result.services) :
                SaidBy(result.services[j], e) /\ result.services[j].ipv6 = None
        /\ \A j \in 1 .. Len(result.hosts) : result.hosts[j] = <<e.target, e.ipv6>>}

\* A record has been read.
Shown(result, x) ==
    IF x[1] = "AAAA" THEN result.hosts # <<>>
    ELSE Len(result.services) = 1 /\ Marked(result.services[1], x)

\* A record is of one of four types and about the one instance or host.
LEMMA RecordTypes ==
    ASSUME NEW e, NEW x \in Records(e)
    PROVE  \/ x = <<"PTR", e.instance>> \/ x = <<"TXT", e.instance>>
           \/ x = <<"SRV", e.instance, e.target, e.port>>
           \/ x = <<"AAAA", e.target, e.ipv6>>
BY DEF Records, PTR, SRV, TXT, AAAA

\* What a record says of its service is noted, and no mark is lost.
LEMMA RecordNoted ==
    ASSUME NEW e \in Life, NEW s \in Service, SaidBy(s, e), s.ipv6 = None,
           NEW x \in Records(e), x[1] # "AAAA"
    PROVE  /\ Noted(s, x) \in Service /\ SaidBy(Noted(s, x), e) /\ Noted(s, x).ipv6 = None
           /\ Marked(Noted(s, x), x)
           /\ \A y : Marked(s, y) => Marked(Noted(s, x), y)
<1> DEFINE t == Noted(s, x)
<1>1. CASE x = <<"PTR", e.instance>>
  <2>1. t = [s EXCEPT !.has_ptr = TRUE]
    BY <1>1 DEF Noted
  <2>2. /\ t \in Service /\ t.has_ptr /\ t.has_srv = s.has_srv /\ t.has_txt = s.has_txt
        /\ t.instance = s.instance /\ t.target = s.target /\ t.port = s.port /\ t.ipv6 = s.ipv6
    BY <2>1 DEF Service
  <2> HIDE DEF t
  <2> QED  BY <2>2, <1>1 DEF SaidBy, Marked, t
<1>2. CASE x = <<"TXT", e.instance>>
  <2>1. t = [s EXCEPT !.has_txt = TRUE]
    BY <1>2 DEF Noted
  <2>2. /\ t \in Service /\ t.has_txt /\ t.has_srv = s.has_srv /\ t.has_ptr = s.has_ptr
        /\ t.instance = s.instance /\ t.target = s.target /\ t.port = s.port /\ t.ipv6 = s.ipv6
    BY <2>1 DEF Service
  <2> HIDE DEF t
  <2> QED  BY <2>2, <1>2 DEF SaidBy, Marked, t
<1>3. CASE x = <<"SRV", e.instance, e.target, e.port>>
  <2>1. t = [s EXCEPT !.has_srv = TRUE, !.target = e.target, !.port = e.port]
    BY <1>3 DEF Noted
  <2>2. e.target \in Names /\ e.port \in Ports
    BY DEF Life
  <2>3. /\ t \in Service /\ t.has_srv /\ t.has_ptr = s.has_ptr /\ t.has_txt = s.has_txt
        /\ t.instance = s.instance /\ t.target = e.target /\ t.port = e.port /\ t.ipv6 = s.ipv6
    BY <2>1, <2>2 DEF Service
  <2> HIDE DEF t
  <2> QED  BY <2>3, <1>3 DEF SaidBy, Marked, t
<1> QED  BY <1>1, <1>2, <1>3, RecordTypes

\* A record is read into a service of its own or the hosts, beside what was read
\* before.
LEMMA RecordRead ==
    ASSUME NEW e \in Life, NEW result \in ReadOf(e), NEW x \in Records(e)
    PROVE  /\ parse_record(result, x) \in ReadOf(e)
           /\ Shown(parse_record(result, x), x)
           /\ \A y : Shown(result, y) => Shown(parse_record(result, x), y)
<1> DEFINE read == parse_record(result, x)
           services_ == result.services
           hosts_ == result.hosts
<1>1. /\ result \in [services : Seq(Service), hosts : Seq(Host)]
      /\ Len(services_) <= 1 /\ Len(hosts_) <= MaxHosts
      /\ \A j \in 1 .. Len(services_) : SaidBy(services_[j], e) /\ services_[j].ipv6 = None
      /\ \A j \in 1 .. Len(hosts_) : hosts_[j] = <<e.target, e.ipv6>>
  BY DEF ReadOf
<1>2. Len(services_) <= 1 /\ Len(hosts_) <= MaxHosts /\ services_ \in Seq(Service)
  BY <1>1
<1>3. \A j \in 1 .. Len(hosts_) : hosts_[j] = <<e.target, e.ipv6>>
  BY <1>1
<1>4. MaxHosts \in Nat \ {0} /\ MaxServices \in Nat \ {0}
  BY MdnsAssumption
<1>5. CASE x[1] = "AAAA"
  <2> DEFINE more == IF Len(hosts_) < MaxHosts THEN Append(hosts_, <<x[2], x[3]>>) ELSE hosts_
  <2>1. read = [result EXCEPT !.hosts = more]
    BY <1>5 DEF parse_record
  <2>2. <<x[2], x[3]>> = <<e.target, e.ipv6>> /\ <<e.target, e.ipv6>> \in Host
    BY <1>5, RecordTypes DEF Life, Host
  <2>3. /\ more \in Seq(Host) /\ Len(more) <= MaxHosts /\ more # <<>>
        /\ \A j \in 1 .. Len(more) : more[j] = <<e.target, e.ipv6>>
    <3>1. CASE Len(hosts_) < MaxHosts
      <4>1. more = Append(hosts_, <<e.target, e.ipv6>>) /\ hosts_ \in Seq(Host)
        BY <1>1, <2>2, <3>1
      <4> HIDE DEF more, hosts_
      <4>2. more \in Seq(Host) /\ Len(more) = Len(hosts_) + 1 /\ more # <<>>
        BY <2>2, <4>1
      <4>3. ASSUME NEW j \in 1 .. Len(more) PROVE more[j] = <<e.target, e.ipv6>>
        BY <1>1, <2>2, <4>1
      <4> QED  BY <1>4, <3>1, <4>1, <4>2, <4>3
    <3>2. CASE ~(Len(hosts_) < MaxHosts)
      BY <1>1, <1>4, <3>2
    <3> QED  BY <3>1, <3>2
  <2> HIDE DEF more
  <2>4. read.hosts = more /\ read.services = services_
        /\ read \in [services : Seq(Service), hosts : Seq(Host)]
    BY <1>1, <2>1, <2>3
  <2> HIDE DEF read
  <2>5. read \in ReadOf(e)
    BY <1>1, <2>3, <2>4 DEF ReadOf
  <2> QED  BY <1>5, <2>3, <2>4, <2>5 DEF Shown, read
<1>6. CASE x[1] # "AAAA"
  <2> DEFINE found == find_service(services_, x[2])
             noted == [i \in DOMAIN found |->
                        IF found[i].instance = x[2] THEN Noted(found[i], x) ELSE found[i]]
  <2>1. read = [result EXCEPT !.services = noted]
    BY <1>6 DEF parse_record
  <2>2. x[2] = e.instance /\ e.instance \in Instances
    BY <1>6, RecordTypes DEF Life
  <2>3. PICK s \in Service :
            /\ found = <<s>> /\ SaidBy(s, e) /\ s.ipv6 = None
            /\ \A y : Len(services_) = 1 /\ Marked(services_[1], y) => Marked(s, y)
    <3>1. services_ \in Seq(Service) /\ (Len(services_) = 0 \/ Len(services_) = 1)
      <4>1. \A n \in Nat : n <= 1 => n = 0 \/ n = 1
        OBVIOUS
      <4> HIDE DEF services_, hosts_
      <4>2. Len(services_) \in Nat
        BY <1>2
      <4> QED  BY <1>2, <4>1, <4>2
    <3>2. CASE Len(services_) = 0
      <4> DEFINE s == NewService(e.instance)
      <4>1. services_ = <<>>
        BY <3>1, <3>2
      <4>2. ~Holds(<<>>, e.instance) /\ ~(Len(<<>>) >= MaxServices)
        BY <1>4 DEF Holds
      <4>3. found = Append(<<>>, s)
        BY <2>2, <4>1, <4>2 DEF find_service
      <4>4. s \in Service /\ SaidBy(s, e) /\ s.ipv6 = None
        BY <2>2, NewIsService DEF SaidBy
      <4> HIDE DEF s, found, services_
      <4>5. found = <<s>>
        BY <4>3, <4>4
      <4> QED  BY <3>2, <4>4, <4>5
    <3>3. CASE Len(services_) = 1
      <4>1. services_[1] \in Service /\ SaidBy(services_[1], e) /\ services_[1].ipv6 = None
        BY <1>1, <3>3
      <4>2. services_ = <<services_[1]>>
        BY <3>1, <3>3
      <4>3. Holds(services_, e.instance)
        BY <3>1, <3>3, <4>1 DEF Holds, SaidBy
      <4>4. found = services_
        BY <2>2, <4>3 DEF find_service
      <4> HIDE DEF found, services_
      <4> QED  BY <4>1, <4>2, <4>4
    <3> QED  BY <3>1, <3>2, <3>3
  <2>4. /\ Noted(s, x) \in Service /\ SaidBy(Noted(s, x), e) /\ Noted(s, x).ipv6 = None
        /\ Marked(Noted(s, x), x)
        /\ \A y : Marked(s, y) => Marked(Noted(s, x), y)
    BY <1>6, <2>3, RecordNoted
  <2>5. noted = <<Noted(s, x)>>
    <3> HIDE DEF found
    <3>1. s.instance = x[2]
      BY <2>2, <2>3 DEF SaidBy
    <3>2. DOMAIN found = 1 .. 1 /\ found[1] = s
      BY <2>3
    <3> QED  BY <3>1, <3>2
  <2> HIDE DEF noted
  <2>6. noted \in Seq(Service) /\ Len(noted) = 1 /\ noted[1] = Noted(s, x)
    BY <2>4, <2>5
  <2>7. read.services = noted /\ read.hosts = hosts_
        /\ read \in [services : Seq(Service), hosts : Seq(Host)]
    BY <1>1, <2>1, <2>6
  <2> HIDE DEF read, found
  <2>8. read \in ReadOf(e)
    <3>1. read.services = noted /\ read.hosts = hosts_
      BY <2>7
    <3>2. read \in [services : Seq(Service), hosts : Seq(Host)]
      BY <2>7
    <3> HIDE DEF hosts_
    <3>3. \A j \in 1 .. Len(noted) : SaidBy(noted[j], e) /\ noted[j].ipv6 = None
      BY <2>4, <2>6
    <3>4. Len(noted) <= 1 /\ Len(hosts_) <= MaxHosts
      BY <1>2, <2>6
    <3> QED  BY <1>3, <3>1, <3>2, <3>3, <3>4 DEF ReadOf
  <2>9. \A y : Len(services_) = 1 /\ Marked(services_[1], y) => Marked(noted[1], y)
    BY <2>3, <2>4, <2>6
  <2> QED  BY <1>6, <2>4, <2>6, <2>7, <2>8, <2>9 DEF Shown, read
<1> QED  BY <1>5, <1>6

\* What a packet of one life may be parsed into.
ParsedOf(e) ==
    {result \in [services : Seq(Service), hosts : Seq(Host)] :
        /\ Len(result.services) <= 1
        /\ \A j \in 1 .. Len(result.services) :
                /\ SaidBy(result.services[j], e)
                /\ result.services[j].ipv6 # None => result.services[j].ipv6 = e.ipv6
        /\ \A j \in 1 .. Len(result.hosts) : result.hosts[j] = <<e.target, e.ipv6>>}

\* Filling in the addresses of the packet changes nothing else.
LEMMA AddressesRead ==
    ASSUME NEW e \in Life, NEW read \in ReadOf(e),
           NEW result,
           result = [services |-> [i \in DOMAIN read.services |-> [read.services[i] EXCEPT
                        !.ipv6 = AddressIn(read.hosts, read.services[i].target)]],
                     hosts |-> read.hosts]
    PROVE  /\ result \in ParsedOf(e)
           /\ \A x : Shown(read, x) => Shown(result, x)
<1> DEFINE listed == read.services
           given == read.hosts
           addressed == [i \in DOMAIN listed |-> [listed[i] EXCEPT
                            !.ipv6 = AddressIn(given, listed[i].target)]]
<1>1. result.services = addressed /\ result.hosts = given
  OBVIOUS
<1>2. listed \in Seq(Service) /\ given \in Seq(Host) /\ Len(listed) <= 1
  BY DEF ReadOf
<1>3. \A j \in 1 .. Len(listed) : SaidBy(listed[j], e) /\ listed[j].ipv6 = None
  BY DEF ReadOf
<1>4. \A j \in 1 .. Len(given) : given[j] = <<e.target, e.ipv6>>
  BY DEF ReadOf
<1>5. \A name : AddressIn(given, name) # None => AddressIn(given, name) = e.ipv6
  <2> TAKE name
  <2> SUFFICES ASSUME AddressIn(given, name) # None PROVE AddressIn(given, name) = e.ipv6
    OBVIOUS
  <2> HIDE DEF given
  <2>1. PICK i \in 1 .. Len(given) : AddressIn(given, name) = given[i][2]
    BY <1>2, AddressFound
  <2>2. given[i] = <<e.target, e.ipv6>>
    BY <1>4
  <2> QED  BY <2>1, <2>2
<1>6. e.ipv6 \in Addresses
  BY DEF Life
<1> HIDE DEF listed, given
<1>7. \A i \in 1 .. Len(listed) :
        /\ addressed[i] \in Service /\ SaidBy(addressed[i], e)
        /\ addressed[i].ipv6 # None => addressed[i].ipv6 = e.ipv6
        /\ \A x : Marked(listed[i], x) => Marked(addressed[i], x)
  <2> TAKE i \in 1 .. Len(listed)
  <2> DEFINE s == listed[i]
             a == AddressIn(given, s.target)
             t == addressed[i]
  <2>1. s \in Service /\ SaidBy(s, e)
    BY <1>2, <1>3
  <2>2. a \in Addresses \cup {None} /\ (a # None => a = e.ipv6)
    BY <1>5, <1>6
  <2>3. t = [s EXCEPT !.ipv6 = a]
    BY <1>2
  <2> HIDE DEF s, a, t, addressed
  <2>4. /\ t \in Service /\ t.has_ptr = s.has_ptr /\ t.has_srv = s.has_srv
        /\ t.has_txt = s.has_txt /\ t.instance = s.instance /\ t.target = s.target
        /\ t.port = s.port /\ t.ipv6 = a
    BY <2>1, <2>2, <2>3 DEF Service
  <2>5. SaidBy(t, e) /\ \A x : Marked(s, x) => Marked(t, x)
    BY <2>1, <2>4 DEF SaidBy, Marked
  <2> QED  BY <2>2, <2>4, <2>5 DEF s, t
<1>8. addressed \in Seq(Service) /\ Len(addressed) = Len(listed)
  <2>1. addressed = [i \in 1 .. Len(listed) |-> addressed[i]]
    BY <1>2
  <2> HIDE DEF addressed
  <2>2. addressed \in [1 .. Len(listed) -> Service]
    BY <1>7, <2>1
  <2> QED  BY <1>2, <2>2
<1> HIDE DEF addressed
<1>9. result \in [services : Seq(Service), hosts : Seq(Host)]
  <2>1. result = [services |-> addressed, hosts |-> given]
    BY DEF addressed, listed, given
  <2> QED  BY <1>2, <1>8, <2>1
<1>10. result \in ParsedOf(e)
  <2>1. \A j \in 1 .. Len(addressed) :
            /\ SaidBy(addressed[j], e)
            /\ addressed[j].ipv6 # None => addressed[j].ipv6 = e.ipv6
    BY <1>7, <1>8
  <2>2. Len(addressed) <= 1
    BY <1>2, <1>8
  <2> QED  BY <1>1, <1>4, <1>9, <2>1, <2>2 DEF ParsedOf
<1>11. ASSUME NEW x, Shown(read, x) PROVE Shown(result, x)
  <2>1. CASE x[1] = "AAAA"
    BY <1>1, <1>11, <2>1 DEF Shown, given
  <2>2. CASE x[1] # "AAAA"
    <3>1. Len(listed) = 1 /\ Marked(listed[1], x)
      BY <1>11, <2>2 DEF Shown, listed
    <3>2. Len(addressed) = 1 /\ Marked(addressed[1], x)
      BY <1>7, <1>8, <3>1
    <3> QED  BY <1>1, <2>2, <3>2 DEF Shown
  <2> QED  BY <2>1, <2>2
<1> QED  BY <1>10, <1>11

\* A packet of one life gives at most one service and hosts that say the same,
\* and each of its records is read.
LEMMA PacketParsed ==
    ASSUME NEW e \in Life, NEW packet \in Seq(Records(e))
    PROVE  /\ Parse(packet) \in ParsedOf(e)
           /\ \A x \in ToSet(packet) : Shown(Parse(packet), x)
<1> DEFINE n == Len(packet)
           nothing == [services |-> <<>>, hosts |-> <<>>]
           D == ReadOf(e)
           E == Records(e)
           one == [result \in D |-> [x \in E |-> parse_record(result, x)]]
           result == CHOOSE f : f = [i \in 0 .. n |->
                        IF i = 0 THEN nothing ELSE parse_record(f[i - 1], packet[i])]
<1>1. nothing \in D
  <2>1. <<>> \in Seq(Service) /\ <<>> \in Seq(Host) /\ Len(<<>>) = 0 /\ 0 <= MaxHosts
    BY MdnsAssumption
  <2> QED  BY <2>1 DEF ReadOf
<1>2. IsLoop(one, nothing, packet, D, E)
  <2>1. \A r \in D, x \in E : parse_record(r, x) \in D
    BY RecordRead
  <2> HIDE DEF D, nothing
  <2>2. one \in [D -> [E -> D]]
    BY <2>1
  <2> QED  BY <1>1, <2>2 DEF IsLoop
<1>3. PICK f : Runs(f, one, nothing, packet, D)
  <2> HIDE DEF one, nothing, D, E
  <2> QED  BY <1>2, LoopRuns
<1>4. /\ f \in [0 .. n -> D] /\ f[0] = nothing
      /\ \A i \in 1 .. n : f[i] = parse_record(f[i - 1], packet[i])
  <2>1. f \in [0 .. n -> D] /\ f[0] = nothing
    BY <1>3 DEF Runs
  <2>2. ASSUME NEW i \in 1 .. n PROVE f[i] = parse_record(f[i - 1], packet[i])
    <3>1. f[i - 1] \in D /\ packet[i] \in E
      BY <2>1
    <3>2. f[i] = one[f[i - 1]][packet[i]]
      BY <1>3 DEF Runs
    <3> HIDE DEF D, E
    <3> QED  BY <3>1, <3>2
  <2> QED  BY <2>1, <2>2
<1> HIDE DEF nothing, D, E
<1>5. result = [i \in 0 .. n |->
                    IF i = 0 THEN nothing ELSE parse_record(result[i - 1], packet[i])]
  <2>1. f = [i \in 0 .. n |-> IF i = 0 THEN nothing ELSE parse_record(f[i - 1], packet[i])]
    BY <1>4
  <2> QED  BY <2>1
<1>6. \E g : /\ g = [services |-> [i \in DOMAIN result[n].services |->
                        [result[n].services[i] EXCEPT
                            !.ipv6 = AddressIn(result[n].hosts, result[n].services[i].target)]],
                     hosts |-> result[n].hosts]
             /\ Parse(packet) = g
  BY DEF Parse, nothing
<1> HIDE DEF result
<1> DEFINE ReadSoFar == {i \in 0 .. n : /\ result[i] \in D
                                        /\ \A j \in 1 .. i : Shown(result[i], packet[j])}
<1>7. 0 \in ReadSoFar
  <2>1. result[0] = nothing /\ 0 \in 0 .. n /\ 1 .. 0 = {}
    BY <1>5
  <2> QED  BY <1>1, <2>1
<1>8. ASSUME NEW i \in 1 .. n, i - 1 \in ReadSoFar PROVE i \in ReadSoFar
  <2>1. result[i] = parse_record(result[i - 1], packet[i])
    BY <1>5
  <2>2. result[i - 1] \in D /\ \A j \in 1 .. i - 1 : Shown(result[i - 1], packet[j])
    BY <1>8
  <2>3. packet[i] \in Records(e)
    OBVIOUS
  <2>4. /\ result[i] \in D /\ Shown(result[i], packet[i])
        /\ \A y : Shown(result[i - 1], y) => Shown(result[i], y)
    BY <2>1, <2>2, <2>3, RecordRead DEF D
  <2>5. \A j \in 1 .. i : j = i \/ j \in 1 .. i - 1
    OBVIOUS
  <2>6. \A j \in 1 .. i : Shown(result[i], packet[j])
    BY <2>2, <2>4, <2>5
  <2>7. i \in 0 .. n
    OBVIOUS
  <2> QED  BY <2>4, <2>6, <2>7
<1> HIDE DEF ReadSoFar
<1>9. n \in ReadSoFar
  <2>1. n \in Nat
    OBVIOUS
  <2> HIDE DEF n
  <2> QED  BY <1>7, <1>8, <2>1, UpTo
<1>10. result[n] \in ReadOf(e) /\ \A j \in 1 .. n : Shown(result[n], packet[j])
  BY <1>9 DEF ReadSoFar, D
<1>11. Parse(packet) \in ParsedOf(e) /\ \A x : Shown(result[n], x) => Shown(Parse(packet), x)
  <2> DEFINE read == result[n]
  <2> HIDE DEF read
  <2>1. read \in ReadOf(e)
    BY <1>10 DEF read
  <2>2. PICK g : /\ g = [services |-> [i \in DOMAIN read.services |->
                        [read.services[i] EXCEPT
                            !.ipv6 = AddressIn(read.hosts, read.services[i].target)]],
                         hosts |-> read.hosts]
                 /\ Parse(packet) = g
    BY <1>6 DEF read
  <2>3. g \in ParsedOf(e) /\ \A x : Shown(read, x) => Shown(g, x)
    BY <2>1, <2>2, AddressesRead
  <2> QED  BY <2>2, <2>3 DEF read
<1>12. \A x \in ToSet(packet) : \E j \in 1 .. n : x = packet[j]
  BY DEF ToSet
<1> QED  BY <1>10, <1>11, <1>12

-----------------------------------------------------------------------------
(***************************************************************************)
(* What a packet of one life does to the cache.                            *)
(***************************************************************************)

\* hosts before and after: the packet's host is all that is new, and no name
\* is lost.
HostsGrow(list, new, e) ==
    /\ new \in Seq(Host) /\ Len(list) <= Len(new) /\ Len(new) <= MaxHosts
    /\ \A i \in 1 .. Len(new) : \/ new[i] = <<e.target, e.ipv6>>
                                \/ i <= Len(list) /\ new[i] = list[i]
    /\ \A i \in 1 .. Len(list) : new[i][1] = list[i][1]

\* services before and after, where s is what the packet says of its service:
\* it changes the entries of this name and takes a place if there are none.
ServicesGrow(list, new, s, e) ==
    /\ new \in Seq(Service) /\ Len(list) <= Len(new) /\ Len(new) <= MaxServices
    /\ \A i \in 1 .. Len(list) :
            \/ new[i] = list[i]
            \/ list[i].instance = e.instance /\ new[i] = Updated(list[i], s)
    /\ \A i \in 1 .. Len(new) :
            \/ i <= Len(list)
            \/ new[i] = Updated(NewService(e.instance), s) /\ ~Holds(list, e.instance)

\* What a packet of one life may say of its service.
Tells(s, e) ==
    s \in Service /\ SaidBy(s, e) /\ (s.ipv6 # None => s.ipv6 = e.ipv6)

\* The hosts of a packet are merged, and its host is there unless the table is
\* full.
LEMMA HostsOfPacket ==
    ASSUME NEW list \in Seq(Host), Len(list) <= MaxHosts,
           NEW e \in Life, NEW packet \in Seq(Records(e))
    PROVE  /\ HostsGrow(list, merge_hosts(list, Parse(packet).hosts), e)
           /\ \A x \in ToSet(packet) : x[1] = "AAAA" =>
                \/ Len(merge_hosts(list, Parse(packet).hosts)) = MaxHosts
                \/ \E i \in 1 .. Len(merge_hosts(list, Parse(packet).hosts)) :
                        merge_hosts(list, Parse(packet).hosts)[i][1] = e.target
<1> DEFINE host == <<e.target, e.ipv6>>
           incoming == Parse(packet).hosts
           new == merge_hosts(list, incoming)
<1>1. /\ incoming \in Seq(Host) /\ \A i \in 1 .. Len(incoming) : incoming[i] = host
      /\ \A x \in ToSet(packet) : x[1] = "AAAA" => incoming # <<>>
  BY PacketParsed DEF ParsedOf, Shown
<1>2. host \in Host /\ host[1] = e.target
  BY DEF Life, Host
<1> HIDE DEF host, incoming
<1>3. new = IF incoming = <<>> THEN list ELSE merge_host(list, host)
  BY <1>1, <1>2, HostsMerged
<1> HIDE DEF new
<1>4. CASE incoming = <<>>
  <2>1. new = list
    BY <1>3, <1>4
  <2>2. HostsGrow(list, new, e)
    BY <2>1 DEF HostsGrow
  <2> QED  BY <1>1, <1>4, <2>2 DEF new, incoming
<1>5. CASE incoming # <<>>
  <2>1. new = merge_host(list, host)
    BY <1>3, <1>5
  <2>2. HostsGrow(list, new, e)
    BY <1>2, <2>1, HostMerged DEF HostsGrow, host
  <2>3. \/ Len(new) = MaxHosts
        \/ \E i \in 1 .. Len(new) : new[i][1] = e.target
    <3>1. \/ Len(merge_host(list, host)) = MaxHosts
          \/ \E i \in 1 .. Len(merge_host(list, host)) :
                merge_host(list, host)[i][1] = host[1]
      BY <1>2, HostMerged
    <3> QED  BY <1>2, <2>1, <3>1
  <2> QED  BY <2>2, <2>3 DEF new, incoming
<1> QED  BY <1>4, <1>5

\* The service of a packet is merged, and the cache has its marks unless the
\* table is full.
LEMMA ServicesOfPacket ==
    ASSUME NEW list \in Seq(Service), Len(list) <= MaxServices,
           NEW e \in Life, NEW packet \in Seq(Records(e))
    PROVE  LET new == merge_services(list, Parse(packet).services)
           IN  /\ \E s : Tells(s, e) /\ ServicesGrow(list, new, s, e)
               /\ \A x \in ToSet(packet) : x[1] # "AAAA" =>
                    /\ Holds(new, e.instance) \/ Len(new) = MaxServices
                    /\ \A i \in 1 .. Len(new) :
                            new[i].instance = e.instance => Marked(new[i], x)
<1> DEFINE incoming == Parse(packet).services
           new == merge_services(list, incoming)
<1>1. /\ incoming \in Seq(Service) /\ Len(incoming) <= 1
      /\ \A x \in ToSet(packet) : x[1] # "AAAA" =>
            Len(incoming) = 1 /\ Marked(incoming[1], x)
  BY PacketParsed DEF ParsedOf, Shown
<1>2. Len(incoming) = 1 => Tells(incoming[1], e)
  BY PacketParsed DEF ParsedOf, Tells
<1>3. e.instance \in Instances
  BY DEF Life
<1> HIDE DEF incoming
<1>4. new = IF incoming = <<>> THEN list ELSE merge_service(list, incoming[1])
  BY <1>1, ServicesMerged
<1> HIDE DEF new
<1>5. CASE incoming = <<>>
  <2>1. new = list
    BY <1>4, <1>5
  <2>2. Tells(NewService(e.instance), e)
    BY <1>3, NewIsService DEF Tells, SaidBy
  <2>3. ServicesGrow(list, new, NewService(e.instance), e)
    BY <2>1 DEF ServicesGrow
  <2>4. ToSet(packet) = {} \/ \A x \in ToSet(packet) : x[1] = "AAAA"
    <3>1. Len(incoming) # 1
      BY <1>5
    <3> QED  BY <1>1, <3>1
  <2> QED  BY <2>2, <2>3, <2>4 DEF new, incoming
<1>6. CASE incoming # <<>>
  <2>1. Len(incoming) = 1
    <3>1. Len(incoming) # 0 /\ Len(incoming) \in Nat /\ Len(incoming) <= 1
      BY <1>1, <1>6
    <3>2. \A n \in Nat : n <= 1 /\ n # 0 => n = 1
      OBVIOUS
    <3> QED  BY <3>1, <3>2
  <2>2. PICK s \in Service : s = incoming[1] /\ Tells(s, e) /\ s.instance = e.instance
    BY <1>2, <2>1 DEF Tells, SaidBy
  <2>3. new = merge_service(list, s)
    BY <1>4, <1>6, <2>2
  <2>4. /\ new \in Seq(Service) /\ Len(list) <= Len(new) /\ Len(new) <= MaxServices
        /\ \A i \in 1 .. Len(list) : new[i] =
                IF list[i].instance = s.instance THEN Updated(list[i], s) ELSE list[i]
        /\ \A i \in 1 .. Len(new) :
                \/ i <= Len(list)
                \/ new[i] = Updated(NewService(s.instance), s) /\ ~Holds(list, s.instance)
        /\ Holds(new, s.instance) \/ Len(new) = MaxServices
    <3>1. new \in Seq(Service) /\ Len(list) <= Len(new) /\ Len(new) <= MaxServices
      BY <2>3, ServiceMerged
    <3>2. \A i \in 1 .. Len(list) : new[i] =
                IF list[i].instance = s.instance THEN Updated(list[i], s) ELSE list[i]
      BY <2>3, ServiceMerged
    <3>3. \A i \in 1 .. Len(new) :
                \/ i <= Len(list)
                \/ new[i] = Updated(NewService(s.instance), s) /\ ~Holds(list, s.instance)
      <4> SUFFICES ASSUME NEW i \in 1 .. Len(new), ~(i <= Len(list))
                   PROVE  new[i] = Updated(NewService(s.instance), s) /\ ~Holds(list, s.instance)
        OBVIOUS
      <4> QED  BY <2>3, ServiceMerged
    <3>4. Holds(new, s.instance) \/ Len(new) = MaxServices
      BY <2>3, ServiceMerged
    <3> QED  BY <3>1, <3>2, <3>3, <3>4
  <2>5. ServicesGrow(list, new, s, e)
    BY <2>2, <2>4 DEF ServicesGrow
  <2>6. ASSUME NEW x \in ToSet(packet), x[1] # "AAAA",
               NEW i \in 1 .. Len(new), new[i].instance = e.instance
        PROVE  Marked(new[i], x)
    <3>1. Marked(s, x)
      BY <1>1, <2>2, <2>6
    <3>2. PICK t \in Service : new[i] = Updated(t, s)
      <4>1. CASE i <= Len(list)
        <5>1. i \in 1 .. Len(list) /\ list[i] \in Service
          BY <2>4, <4>1
        <5>2. new[i] = IF list[i].instance = s.instance THEN Updated(list[i], s) ELSE list[i]
          BY <2>4, <5>1
        <5> QED  BY <2>2, <2>6, <5>1, <5>2
      <4>2. CASE ~(i <= Len(list))
        BY <1>3, <2>2, <2>4, <4>2, NewIsService
      <4> QED  BY <4>1, <4>2
    <3>3. /\ new[i].has_ptr <=> t.has_ptr \/ s.has_ptr
          /\ new[i].has_srv <=> t.has_srv \/ s.has_srv
          /\ new[i].has_txt <=> t.has_txt \/ s.has_txt
      BY <3>2, UpdateWrites
    <3> QED  BY <3>1, <3>3 DEF Marked
  <2> QED  BY <2>2, <2>4, <2>5, <2>6 DEF new, incoming
<1> QED  BY <1>5, <1>6

\* Services that have a target but no address are given the one that hosts
\* have for it; nothing else changes.
LEMMA ServicesResolved ==
    ASSUME NEW list \in Seq(Service), NEW known \in Seq(Host)
    PROVE  /\ resolve(list, known) \in Seq(Service)
           /\ Len(resolve(list, known)) = Len(list)
           /\ \A i \in 1 .. Len(list) :
                \/ ~(list[i].has_srv /\ list[i].ipv6 = None) /\ resolve(list, known)[i] = list[i]
                \/ /\ list[i].has_srv /\ list[i].ipv6 = None
                   /\ resolve(list, known)[i] =
                        [list[i] EXCEPT !.ipv6 = AddressIn(known, list[i].target)]
           /\ \A i \in 1 .. Len(list) :
                /\ resolve(list, known)[i].instance = list[i].instance
                /\ resolve(list, known)[i].target = list[i].target
                /\ resolve(list, known)[i].port = list[i].port
                /\ resolve(list, known)[i].has_ptr = list[i].has_ptr
                /\ resolve(list, known)[i].has_srv = list[i].has_srv
                /\ resolve(list, known)[i].has_txt = list[i].has_txt
<1> DEFINE new == resolve(list, known)
<1>1. \A name : AddressIn(known, name) \in Addresses \cup {None}
  <2> TAKE name
  <2>1. CASE AddressIn(known, name) = None
    BY <2>1
  <2>2. CASE AddressIn(known, name) # None
    <3>1. PICK i \in 1 .. Len(known) : AddressIn(known, name) = known[i][2]
      BY <2>2, AddressFound
    <3>2. known[i] \in Host
      OBVIOUS
    <3> QED  BY <3>1, <3>2 DEF Host
  <2> QED  BY <2>1, <2>2
<1>2. new = [i \in 1 .. Len(list) |->
                IF list[i].has_srv /\ list[i].ipv6 = None
                THEN [list[i] EXCEPT !.ipv6 = AddressIn(known, list[i].target)] ELSE list[i]]
  BY DEF resolve, has_ipv6
<1> HIDE DEF new
<1>3. \A i \in 1 .. Len(list) :
        /\ \/ ~(list[i].has_srv /\ list[i].ipv6 = None) /\ new[i] = list[i]
           \/ /\ list[i].has_srv /\ list[i].ipv6 = None
              /\ new[i] = [list[i] EXCEPT !.ipv6 = AddressIn(known, list[i].target)]
        /\ new[i] \in Service
        /\ new[i].instance = list[i].instance /\ new[i].target = list[i].target
        /\ new[i].port = list[i].port /\ new[i].has_ptr = list[i].has_ptr
        /\ new[i].has_srv = list[i].has_srv /\ new[i].has_txt = list[i].has_txt
  <2> TAKE i \in 1 .. Len(list)
  <2> DEFINE s == list[i]
             a == AddressIn(known, s.target)
             t == new[i]
  <2>1. s \in Service /\ a \in Addresses \cup {None}
    BY <1>1
  <2>2. t = IF s.has_srv /\ s.ipv6 = None THEN [s EXCEPT !.ipv6 = a] ELSE s
    BY <1>2
  <2> HIDE DEF s, a, t
  <2>3. CASE s.has_srv /\ s.ipv6 = None
    <3>1. t = [s EXCEPT !.ipv6 = a]
      BY <2>2, <2>3
    <3>2. /\ t \in Service /\ t.instance = s.instance /\ t.target = s.target
          /\ t.port = s.port /\ t.has_ptr = s.has_ptr
          /\ t.has_srv = s.has_srv /\ t.has_txt = s.has_txt
      BY <2>1, <3>1 DEF Service
    <3> QED  BY <2>3, <3>1, <3>2 DEF s, a, t
  <2>4. CASE ~(s.has_srv /\ s.ipv6 = None)
    <3>1. t = s
      BY <2>2, <2>4
    <3> QED  BY <2>1, <2>4, <3>1 DEF s, t
  <2> QED  BY <2>3, <2>4
<1>4. new \in Seq(Service) /\ Len(new) = Len(list)
  <2>1. new = [i \in 1 .. Len(list) |-> new[i]]
    BY <1>2
  <2>2. new \in [1 .. Len(list) -> Service]
    BY <1>3, <2>1
  <2> QED  BY <2>2
<1> QED  BY <1>3, <1>4 DEF new

-----------------------------------------------------------------------------
(***************************************************************************)
(* The inductive invariant.                                                *)
(***************************************************************************)

\* The lives a receiver has had, up to the one it is in.
Past(r) == {Lives[r][k] : k \in 1 .. life[r]}

\* The packets that receivers may have sent.
Told == UNION {Seq(Records(e)) : e \in UNION {Past(r) : r \in Receivers}}

\* What the cache has of a service comes from lives P of one receiver: name,
\* target and port from one of them, the address from this or another.
ServiceOf(s, P) ==
    /\ \E e \in P : s.instance = e.instance
    /\ s.has_srv => \E e \in P :
            s.instance = e.instance /\ s.target = e.target /\ s.port = e.port
    /\ ~s.has_srv => s.target = None
    /\ s.ipv6 # None => \E e \in P : s.ipv6 = e.ipv6

HostOf(h, P) == \E e \in P : h = <<e.target, e.ipv6>>

EndpointOf(p, a, P) == \E d, e \in P : p = <<d.instance, d.port>> /\ a = e.ipv6

\* Everything that is cached, published or waiting comes from one receiver.
Sources ==
    /\ \A i \in 1 .. Len(services) : \E r \in Receivers : ServiceOf(services[i], Past(r))
    /\ \A i \in 1 .. Len(hosts) : \E r \in Receivers : HostOf(hosts[i], Past(r))
    /\ \A a \in Addresses : peers[a] # None =>
            \E r \in Receivers : EndpointOf(peers[a], a, Past(r))
    /\ socket \in Seq(Told)

\* A service that was heard of is there with the mark of every record of it,
\* or the table is full.
ServicesKept ==
    \A x \in heard : x[1] # "AAAA" =>
        /\ Holds(services, x[2]) \/ Len(services) = MaxServices
        /\ \A i \in 1 .. Len(services) :
                services[i].instance = x[2] => Marked(services[i], x)

\* So is an address that was heard of, and no service waits for one that is
\* there.
HostsKept ==
    /\ \A x \in heard : x[1] = "AAAA" =>
            AddressIn(hosts, x[2]) # None \/ Len(hosts) = MaxHosts
    /\ \A i \in 1 .. Len(services) : services[i].has_srv /\ services[i].ipv6 = None =>
            AddressIn(hosts, services[i].target) = None

\* A receiver that is known is published as it is now.
CurrentPublished ==
    \A r \in Receivers : Known(r) =>
        peers[Now(r).ipv6] = <<Now(r).instance, Now(r).port>>

\* Questions are asked in as many rounds as there are.
RoundsLeft == step # "listen" => round <= Rounds

CacheInv ==
    TypeOK /\ Sources /\ ServicesKept /\ HostsKept /\ CurrentPublished /\ RoundsLeft

\* A receiver has been in the life it is in, all its lives are lives, and none
\* of them shares a name or an address with one of another receiver.
LEMMA PastIsOfOne ==
    ASSUME TypeOK
    PROVE  /\ \A r \in Receivers : Past(r) \in SUBSET Life /\ Now(r) \in Past(r)
           /\ \A q, r \in Receivers : \A d \in Past(q), e \in Past(r) :
                d.instance = e.instance \/ d.target = e.target \/ d.ipv6 = e.ipv6 => q = r
<1>1. ASSUME NEW r \in Receivers
      PROVE  /\ Lives[r] \in Seq(Life) /\ life[r] \in 1 .. Len(Lives[r])
             /\ 1 .. life[r] \in SUBSET (1 .. Len(Lives[r]))
  <2>1. Lives[r] \in Seq(Life) /\ life[r] \in DOMAIN Lives[r]
    BY MdnsAssumption DEF TypeOK
  <2>2. life[r] \in 1 .. Len(Lives[r])
    BY <2>1
  <2> QED  BY <2>1, <2>2
<1>2. ASSUME NEW r \in Receivers PROVE Past(r) \in SUBSET Life /\ Now(r) \in Past(r)
  <2>1. \A k \in 1 .. life[r] : Lives[r][k] \in Life
    BY <1>1
  <2>2. life[r] \in 1 .. life[r]
    BY <1>1
  <2> QED  BY <2>1, <2>2 DEF Past, Now
<1>3. ASSUME NEW q \in Receivers, NEW r \in Receivers, q # r,
             NEW d \in Past(q), NEW e \in Past(r)
      PROVE  d.instance # e.instance /\ d.target # e.target /\ d.ipv6 # e.ipv6
  <2>1. PICK k \in DOMAIN Lives[q] : d = Lives[q][k]
    BY <1>1 DEF Past
  <2>2. PICK l \in DOMAIN Lives[r] : e = Lives[r][l]
    BY <1>1 DEF Past
  <2> QED  BY <1>3, <2>1, <2>2, ReceiversDiffer
<1> QED  BY <1>2, <1>3

\* A service that is merged with what a packet of the same receiver says is
\* still of this receiver.
LEMMA UpdateIsOfOne ==
    ASSUME NEW P, NEW e \in P, NEW t \in Service, ServiceOf(t, P), t.instance = e.instance,
           NEW s, Tells(s, e)
    PROVE  ServiceOf(Updated(t, s), P)
<1> DEFINE u == Updated(t, s)
<1>1. s \in Service /\ SaidBy(s, e) /\ (s.ipv6 # None => s.ipv6 = e.ipv6)
  BY DEF Tells
<1>2. /\ u.instance = t.instance /\ (u.has_srv <=> t.has_srv \/ s.has_srv)
      /\ u.target = IF s.has_srv THEN s.target ELSE t.target
      /\ u.port = IF s.has_srv THEN s.port ELSE t.port
      /\ u.ipv6 = IF s.ipv6 # None THEN s.ipv6 ELSE t.ipv6
  BY <1>1, UpdateWrites
<1> HIDE DEF u
<1>3. \E d \in P : u.instance = d.instance
  BY <1>2
<1>4. ASSUME u.has_srv
      PROVE  \E d \in P : u.instance = d.instance /\ u.target = d.target /\ u.port = d.port
  <2>1. CASE s.has_srv
    BY <1>1, <1>2, <2>1 DEF SaidBy
  <2>2. CASE ~s.has_srv
    BY <1>2, <1>4, <2>2 DEF ServiceOf
  <2> QED  BY <2>1, <2>2
<1>5. ~u.has_srv => u.target = None
  BY <1>2 DEF ServiceOf
<1>6. ASSUME u.ipv6 # None PROVE \E d \in P : u.ipv6 = d.ipv6
  <2>1. CASE s.ipv6 # None
    BY <1>1, <1>2, <2>1
  <2>2. CASE s.ipv6 = None
    BY <1>2, <1>6, <2>2 DEF ServiceOf
  <2> QED  BY <2>1, <2>2
<1> QED  BY <1>3, <1>4, <1>5, <1>6 DEF ServiceOf, u

\* So is one that is entered for the packet.
LEMMA NewIsOfOne ==
    ASSUME NEW P, NEW e \in P, e.instance \in Instances, NEW s, Tells(s, e)
    PROVE  ServiceOf(Updated(NewService(e.instance), s), P)
<1>1. NewService(e.instance) \in Service /\ NewService(e.instance).instance = e.instance
  BY NewIsService
<1>2. ServiceOf(NewService(e.instance), P)
  BY NewIsService DEF ServiceOf
<1> QED  BY <1>1, <1>2, UpdateIsOfOne

\* More lives, more that a service, a host or an endpoint may be of.
LEMMA PastGrows ==
    ASSUME NEW P, NEW Q, P \subseteq Q
    PROVE  /\ \A s : ServiceOf(s, P) => ServiceOf(s, Q)
           /\ \A h : HostOf(h, P) => HostOf(h, Q)
           /\ \A p, a : EndpointOf(p, a, P) => EndpointOf(p, a, Q)
<1>1. \A s : ServiceOf(s, P) => ServiceOf(s, Q)
  BY DEF ServiceOf
<1>2. \A h : HostOf(h, P) => HostOf(h, Q)
  BY DEF HostOf
<1>3. \A p, a : EndpointOf(p, a, P) => EndpointOf(p, a, Q)
  BY DEF EndpointOf
<1> QED  BY <1>1, <1>2, <1>3

-----------------------------------------------------------------------------
(***************************************************************************)
(* A packet is received.                                                   *)
(***************************************************************************)

\* The cache after a packet of one life: merged has its service, the hosts have
\* its host, and services are merged with addresses filled in.
After(packet, e, merged) ==
    /\ \E s : Tells(s, e) /\ ServicesGrow(services, merged, s, e)
    /\ \A x \in ToSet(packet) : x[1] # "AAAA" =>
            /\ Holds(merged, e.instance) \/ Len(merged) = MaxServices
            /\ \A i \in 1 .. Len(merged) :
                    merged[i].instance = e.instance => Marked(merged[i], x)
    /\ HostsGrow(hosts, hosts', e)
    /\ \A x \in ToSet(packet) : x[1] = "AAAA" =>
            \/ Len(hosts') = MaxHosts
            \/ \E i \in 1 .. Len(hosts') : hosts'[i][1] = e.target
    /\ services' = resolve(merged, hosts')
    /\ peers' = publish(peers, services')
    /\ heard' = heard \cup ToSet(packet)

LEMMA CacheAfter ==
    ASSUME TypeOK, NEW e \in Life, NEW packet \in Seq(Records(e)), receive_mdns_packet(packet)
    PROVE  \E merged : After(packet, e, merged)
<1> DEFINE merged == merge_services(services, Parse(packet).services)
<1>1. /\ services \in Seq(Service) /\ Len(services) <= MaxServices
      /\ hosts \in Seq(Host) /\ Len(hosts) <= MaxHosts
  BY DEF TypeOK, Host
<1>2. /\ hosts' = merge_hosts(hosts, Parse(packet).hosts)
      /\ services' = resolve(merged, hosts')
      /\ peers' = publish(peers, services')
      /\ heard' = heard \cup ToSet(packet)
  BY DEF receive_mdns_packet
<1>3. /\ HostsGrow(hosts, hosts', e)
      /\ \A x \in ToSet(packet) : x[1] = "AAAA" =>
            \/ Len(hosts') = MaxHosts
            \/ \E i \in 1 .. Len(hosts') : hosts'[i][1] = e.target
  BY <1>1, <1>2, HostsOfPacket
<1>4. /\ \E s : Tells(s, e) /\ ServicesGrow(services, merged, s, e)
      /\ \A x \in ToSet(packet) : x[1] # "AAAA" =>
            /\ Holds(merged, e.instance) \/ Len(merged) = MaxServices
            /\ \A i \in 1 .. Len(merged) :
                    merged[i].instance = e.instance => Marked(merged[i], x)
  BY <1>1, ServicesOfPacket
<1> HIDE DEF merged
<1> QED  BY <1>2, <1>3, <1>4 DEF After

\* services and hosts stay typed and within their limits.
LEMMA TablesAfter ==
    ASSUME NEW packet, NEW e, NEW merged, After(packet, e, merged)
    PROVE  /\ services' \in Seq(Service) /\ Len(services') <= MaxServices
           /\ hosts' \in Seq(Host) /\ Len(hosts') <= MaxHosts
           /\ merged \in Seq(Service) /\ Len(services') = Len(merged)
<1>1. merged \in Seq(Service) /\ Len(merged) <= MaxServices
  BY DEF After, ServicesGrow
<1>2. hosts' \in Seq(Host) /\ Len(hosts') <= MaxHosts
  BY DEF After, HostsGrow
<1>3. services' = resolve(merged, hosts')
  BY DEF After
<1>4. services' \in Seq(Service) /\ Len(services') = Len(merged)
  BY <1>1, <1>2, <1>3, ServicesResolved
<1> QED  BY <1>1, <1>2, <1>4

\* Each service and each host is still of one receiver.
LEMMA SourcesAfter ==
    ASSUME TypeOK, Sources, NEW r \in Receivers, NEW e \in Past(r),
           NEW packet, NEW merged, After(packet, e, merged)
    PROVE  /\ \A i \in 1 .. Len(services') : \E q \in Receivers : ServiceOf(services'[i], Past(q))
           /\ \A i \in 1 .. Len(hosts') : \E q \in Receivers : HostOf(hosts'[i], Past(q))
<1>1. e \in Life /\ e.instance \in Instances
  BY PastIsOfOne DEF Life
<1>2. PICK s : Tells(s, e) /\ ServicesGrow(services, merged, s, e)
  BY DEF After
<1>3. /\ services \in Seq(Service)
      /\ \A i \in 1 .. Len(services) : \E q \in Receivers : ServiceOf(services[i], Past(q))
      /\ \A i \in 1 .. Len(hosts) : \E q \in Receivers : HostOf(hosts[i], Past(q))
  BY DEF TypeOK, Sources
<1>4. \A i \in 1 .. Len(hosts') : \E q \in Receivers : HostOf(hosts'[i], Past(q))
  <2>1. HostOf(<<e.target, e.ipv6>>, Past(r))
    BY DEF HostOf
  <2>2. hosts' \in Seq(Host) /\ hosts \in Seq(Host)
    BY TablesAfter DEF TypeOK, Host
  <2>3. ASSUME NEW i \in 1 .. Len(hosts')
        PROVE  \E q \in Receivers : HostOf(hosts'[i], Past(q))
    <3>1. hosts'[i] = <<e.target, e.ipv6>> \/ (i \in 1 .. Len(hosts) /\ hosts'[i] = hosts[i])
      BY <2>2 DEF After, HostsGrow
    <3>2. CASE hosts'[i] = <<e.target, e.ipv6>>
      BY <2>1, <3>2
    <3>3. CASE i \in 1 .. Len(hosts) /\ hosts'[i] = hosts[i]
      BY <1>3, <3>3
    <3> QED  BY <3>1, <3>2, <3>3
  <2> QED  BY <2>3
<1>5. \A i \in 1 .. Len(merged) : \E q \in Receivers : ServiceOf(merged[i], Past(q))
  <2>1. ASSUME NEW i \in 1 .. Len(merged)
        PROVE  \E q \in Receivers : ServiceOf(merged[i], Past(q))
    <3>1. CASE i <= Len(services)
      <4>1. i \in 1 .. Len(services)
        BY <1>3, <3>1
      <4>2. services[i] \in Service
        BY <1>3, <4>1
      <4>3. PICK q \in Receivers : ServiceOf(services[i], Past(q))
        BY <1>3, <4>1
      <4>4. CASE merged[i] = services[i]
        BY <4>3, <4>4
      <4>5. CASE services[i].instance = e.instance /\ merged[i] = Updated(services[i], s)
        <5>1. PICK d \in Past(q) : services[i].instance = d.instance
          BY <4>3 DEF ServiceOf
        <5>2. q = r
          BY <4>5, <5>1, PastIsOfOne
        <5>3. ServiceOf(Updated(services[i], s), Past(r))
          BY <1>2, <4>2, <4>3, <4>5, <5>2, UpdateIsOfOne
        <5> QED  BY <4>5, <5>3
      <4>6. merged[i] = services[i]
            \/ (services[i].instance = e.instance /\ merged[i] = Updated(services[i], s))
        BY <1>2, <4>1 DEF ServicesGrow
      <4> QED  BY <4>4, <4>5, <4>6
    <3>2. CASE ~(i <= Len(services))
      <4>1. merged[i] = Updated(NewService(e.instance), s)
        BY <1>2, <3>2 DEF ServicesGrow
      <4>2. ServiceOf(Updated(NewService(e.instance), s), Past(r))
        BY <1>1, <1>2, NewIsOfOne
      <4> QED  BY <4>1, <4>2
    <3> QED  BY <3>1, <3>2
  <2> QED  BY <2>1
<1>6. ASSUME NEW i \in 1 .. Len(services')
      PROVE  \E q \in Receivers : ServiceOf(services'[i], Past(q))
  <2> DEFINE t == merged[i]
             u == services'[i]
             a == AddressIn(hosts', t.target)
  <2>1. /\ i \in 1 .. Len(merged) /\ t \in Service /\ hosts' \in Seq(Host)
        /\ merged \in Seq(Service)
    BY <1>6, TablesAfter
  <2>2. services' = resolve(merged, hosts')
    BY DEF After
  <2>3. /\ \/ u = t
           \/ t.has_srv /\ t.ipv6 = None /\ u = [t EXCEPT !.ipv6 = a]
        /\ u.instance = t.instance /\ u.target = t.target /\ u.port = t.port
        /\ u.has_srv = t.has_srv
    BY <2>1, <2>2, ServicesResolved
  <2>4. PICK q \in Receivers : ServiceOf(t, Past(q))
    BY <1>5, <2>1
  <2> HIDE DEF t, u
  <2>5. CASE u = t
    BY <2>4, <2>5 DEF u
  <2>6. CASE t.has_srv /\ t.ipv6 = None /\ u = [t EXCEPT !.ipv6 = a]
    <3>1. u.ipv6 = a
      BY <2>1, <2>6 DEF Service
    <3>2. PICK d \in Past(q) : t.instance = d.instance /\ t.target = d.target /\ t.port = d.port
      BY <2>4, <2>6 DEF ServiceOf
    <3>3. ASSUME a # None PROVE \E f \in Past(q) : a = f.ipv6
      <4>1. PICK j \in 1 .. Len(hosts') : hosts'[j][1] = t.target /\ a = hosts'[j][2]
        BY <2>1, <3>3, AddressFound
      <4>2. PICK p \in Receivers : HostOf(hosts'[j], Past(p))
        BY <1>4
      <4>3. PICK f \in Past(p) : hosts'[j] = <<f.target, f.ipv6>>
        BY <4>2 DEF HostOf
      <4>4. f.target = d.target /\ a = f.ipv6
        BY <3>2, <4>1, <4>3
      <4>5. p = q
        BY <4>4, PastIsOfOne
      <4> QED  BY <4>4, <4>5
    <3> HIDE DEF a
    <3>4. ServiceOf(u, Past(q))
      BY <2>3, <2>4, <2>6, <3>1, <3>2, <3>3 DEF ServiceOf
    <3> QED  BY <3>4 DEF u
  <2> QED  BY <2>3, <2>5, <2>6
<1> QED  BY <1>4, <1>6

\* A service that was heard of stays, with all its marks, and one that is heard
\* of now is entered and marked, or the table is full.
LEMMA ServicesKeptAfter ==
    ASSUME TypeOK, ServicesKept, NEW e \in Life, NEW packet \in Seq(Records(e)),
           NEW merged, After(packet, e, merged)
    PROVE  ServicesKept'
<1>1. PICK s : Tells(s, e) /\ ServicesGrow(services, merged, s, e)
  BY DEF After
<1>2. /\ merged \in Seq(Service) /\ Len(services) <= Len(merged) /\ Len(merged) <= MaxServices
      /\ services \in Seq(Service) /\ MaxServices \in Nat /\ s \in Service
  BY <1>1, MdnsAssumption DEF ServicesGrow, Tells, TypeOK
<1>3. \A i \in 1 .. Len(services) :
        /\ merged[i].instance = services[i].instance
        /\ \A x : Marked(services[i], x) => Marked(merged[i], x)
  <2> TAKE i \in 1 .. Len(services)
  <2>1. services[i] \in Service
    BY <1>2
  <2>2. CASE merged[i] = services[i]
    BY <2>2
  <2>3. CASE merged[i] = Updated(services[i], s)
    <3> DEFINE t == services[i]
               u == Updated(t, s)
    <3>1. /\ u.instance = t.instance /\ (t.has_ptr => u.has_ptr)
          /\ (t.has_srv => u.has_srv) /\ (t.has_txt => u.has_txt)
      BY <1>2, <2>1, UpdateWrites
    <3> HIDE DEF t, u
    <3>2. \A x : Marked(t, x) => Marked(u, x)
      BY <3>1 DEF Marked
    <3> QED  BY <2>3, <3>1, <3>2 DEF t, u
  <2> QED  BY <1>1, <2>2, <2>3 DEF ServicesGrow
<1>4. ASSUME NEW x \in heard', x[1] # "AAAA"
      PROVE  /\ Holds(merged, x[2]) \/ Len(merged) = MaxServices
             /\ \A i \in 1 .. Len(merged) : merged[i].instance = x[2] => Marked(merged[i], x)
  <2>1. CASE x \in ToSet(packet)
    <3>1. x \in Records(e)
      BY <2>1 DEF ToSet
    <3>2. x[2] = e.instance
      BY <1>4, <3>1, RecordTypes
    <3> QED  BY <1>4, <2>1, <3>2 DEF After
  <2>2. CASE x \in heard
    <3>1. /\ Holds(services, x[2]) \/ Len(services) = MaxServices
          /\ \A i \in 1 .. Len(services) : services[i].instance = x[2] => Marked(services[i], x)
      BY <1>4, <2>2 DEF ServicesKept
    <3>2. Holds(merged, x[2]) \/ Len(merged) = MaxServices
      <4>1. CASE Holds(services, x[2])
        <5>1. PICK i \in 1 .. Len(services) : services[i].instance = x[2]
          BY <1>2, <4>1 DEF Holds
        <5>2. i \in DOMAIN merged
          BY <1>2
        <5> QED  BY <1>3, <5>1, <5>2 DEF Holds
      <4>2. CASE Len(services) = MaxServices
        BY <1>2, <4>2
      <4> QED  BY <3>1, <4>1, <4>2
    <3>3. ASSUME NEW i \in 1 .. Len(merged), merged[i].instance = x[2]
          PROVE  Marked(merged[i], x)
      <4>1. CASE i <= Len(services)
        <5>1. i \in 1 .. Len(services)
          BY <1>2, <4>1
        <5> QED  BY <1>3, <3>1, <3>3, <5>1
      <4>2. CASE ~(i <= Len(services))
        <5>1. merged[i] = Updated(NewService(e.instance), s) /\ ~Holds(services, e.instance)
          BY <1>1, <4>2 DEF ServicesGrow
        <5>2. e.instance \in Instances
          BY DEF Life
        <5>3. merged[i].instance = e.instance
          BY <1>2, <5>1, <5>2, NewIsService, UpdateWrites
        <5>4. Len(services) = MaxServices
          BY <3>1, <3>3, <5>1, <5>3
        <5> QED  BY <1>2, <4>2, <5>4
      <4> QED  BY <4>1, <4>2
    <3> QED  BY <3>2, <3>3
  <2> QED  BY <1>4, <2>1, <2>2 DEF After
<1>5. /\ services' \in Seq(Service) /\ Len(services') = Len(merged) /\ hosts' \in Seq(Host)
      /\ services' = resolve(merged, hosts')
  BY TablesAfter DEF After
<1>6. \A i \in 1 .. Len(merged) :
        /\ services'[i].instance = merged[i].instance
        /\ \A x : Marked(merged[i], x) => Marked(services'[i], x)
  <2> TAKE i \in 1 .. Len(merged)
  <2> DEFINE t == merged[i]
             u == services'[i]
  <2>1. /\ u.instance = t.instance /\ u.has_ptr = t.has_ptr
        /\ u.has_srv = t.has_srv /\ u.has_txt = t.has_txt
    BY <1>2, <1>5, ServicesResolved
  <2> HIDE DEF t, u
  <2>2. \A x : Marked(t, x) => Marked(u, x)
    BY <2>1 DEF Marked
  <2> QED  BY <2>1, <2>2 DEF t, u
<1>7. ASSUME NEW x \in heard', x[1] # "AAAA"
      PROVE  /\ Holds(services', x[2]) \/ Len(services') = MaxServices
             /\ \A i \in 1 .. Len(services') :
                    services'[i].instance = x[2] => Marked(services'[i], x)
  <2>1. Holds(services', x[2]) \/ Len(services') = MaxServices
    <3>1. CASE Holds(merged, x[2])
      <4>1. PICK i \in 1 .. Len(merged) : merged[i].instance = x[2]
        BY <1>2, <3>1 DEF Holds
      <4>2. i \in DOMAIN services'
        BY <1>5
      <4> QED  BY <1>6, <4>1, <4>2 DEF Holds
    <3> QED  BY <1>4, <1>5, <1>7, <3>1
  <2> QED  BY <1>4, <1>5, <1>6, <1>7, <2>1
<1> QED  BY <1>7 DEF ServicesKept

\* So are hosts, and no service is left without an address that is there.
LEMMA HostsKeptAfter ==
    ASSUME TypeOK, HostsKept, NEW e \in Life, NEW packet \in Seq(Records(e)),
           NEW merged, After(packet, e, merged)
    PROVE  HostsKept'
<1>1. HostsGrow(hosts, hosts', e) /\ MaxHosts \in Nat
  BY MdnsAssumption DEF After
<1>2. /\ hosts \in Seq(Host) /\ hosts' \in Seq(Host)
      /\ Len(hosts) <= Len(hosts') /\ Len(hosts') <= MaxHosts
      /\ \A i \in 1 .. Len(hosts) : hosts'[i][1] = hosts[i][1]
  BY <1>1 DEF HostsGrow, TypeOK, Host
<1>3. ASSUME NEW x \in heard', x[1] = "AAAA"
      PROVE  AddressIn(hosts', x[2]) # None \/ Len(hosts') = MaxHosts
  <2>1. CASE x \in ToSet(packet)
    <3>1. x \in Records(e)
      BY <2>1 DEF ToSet
    <3>2. x[2] = e.target
      BY <1>3, <3>1, RecordTypes
    <3>3. Len(hosts') = MaxHosts \/ \E i \in 1 .. Len(hosts') : hosts'[i][1] = e.target
      BY <1>3, <2>1 DEF After
    <3> QED  BY <1>2, <3>2, <3>3, AddressFound
  <2>2. CASE x \in heard
    <3>1. AddressIn(hosts, x[2]) # None \/ Len(hosts) = MaxHosts
      BY <1>3, <2>2 DEF HostsKept
    <3>2. CASE AddressIn(hosts, x[2]) # None
      <4>1. PICK i \in 1 .. Len(hosts) : hosts[i][1] = x[2]
        BY <1>2, <3>2, AddressFound
      <4>2. i \in 1 .. Len(hosts') /\ hosts'[i][1] = x[2]
        BY <1>2, <4>1
      <4> QED  BY <1>2, <4>2, AddressFound
    <3>3. CASE Len(hosts) = MaxHosts
      BY <1>1, <1>2, <3>3
    <3> QED  BY <3>1, <3>2, <3>3
  <2> QED  BY <1>3, <2>1, <2>2 DEF After
<1>4. ASSUME NEW i \in 1 .. Len(services'), services'[i].has_srv, services'[i].ipv6 = None
      PROVE  AddressIn(hosts', services'[i].target) = None
  <2> DEFINE t == merged[i]
             u == services'[i]
             a == AddressIn(hosts', t.target)
  <2>1. i \in 1 .. Len(merged) /\ merged \in Seq(Service) /\ t \in Service
    BY TablesAfter
  <2>2. /\ \/ ~(t.has_srv /\ t.ipv6 = None) /\ u = t
           \/ t.has_srv /\ t.ipv6 = None /\ u = [t EXCEPT !.ipv6 = a]
        /\ u.target = t.target
    <3>1. services' = resolve(merged, hosts')
      BY DEF After
    <3> HIDE DEF a
    <3>2. \/ ~(t.has_srv /\ t.ipv6 = None) /\ resolve(merged, hosts')[i] = t
          \/ t.has_srv /\ t.ipv6 = None /\ resolve(merged, hosts')[i] = [t EXCEPT !.ipv6 = a]
      BY <1>2, <2>1, ServicesResolved DEF a
    <3>3. resolve(merged, hosts')[i].target = t.target
      BY <1>2, <2>1, ServicesResolved
    <3> QED  BY <3>1, <3>2, <3>3
  <2>3. u.has_srv /\ u.ipv6 = None
    BY <1>4
  <2> HIDE DEF t, u, a
  <2>4. u = [t EXCEPT !.ipv6 = a]
    BY <2>2, <2>3
  <2>5. u.ipv6 = a
    BY <2>1, <2>4 DEF Service
  <2> QED  BY <2>2, <2>3, <2>5 DEF t, u, a
<1> QED  BY <1>3, <1>4 DEF HostsKept

-----------------------------------------------------------------------------
(***************************************************************************)
(* Endpoints are published.                                                *)
(***************************************************************************)

\* Of the services that are complete at an address the last one is published.
LEMMA LastIsPublished ==
    ASSUME NEW table, NEW list \in Seq(Service), NEW a \in Addresses
    PROVE  \/ Complete(list, a) = {} /\ publish(table, list)[a] = table[a]
           \/ \E m \in Complete(list, a) :
                /\ publish(table, list)[a] = <<list[m].instance, list[m].port>>
                /\ \A j \in Complete(list, a) : j <= m
<1>1. CASE Complete(list, a) = {}
  BY <1>1 DEF publish
<1>2. CASE Complete(list, a) # {}
  <2> DEFINE m == Max(Complete(list, a))
  <2>1. Complete(list, a) \in SUBSET (1 .. Len(list))
    BY DEF Complete
  <2>2. m \in Complete(list, a) /\ \A j \in Complete(list, a) : j <= m
    <3> DEFINE S == Complete(list, a)
    <3>1. PICK n \in Nat : S \in SUBSET (1 .. n) /\ S # {}
      BY <1>2, <2>1
    <3> HIDE DEF S
    <3>2. Max(S) \in S /\ \A j \in S : j <= Max(S)
      BY <3>1, GreatestFound
    <3> QED  BY <3>2 DEF S
  <2>3. publish(table, list)[a] = <<list[m].instance, list[m].port>>
    BY <1>2 DEF publish
  <2> QED  BY <2>2, <2>3
<1> QED  BY <1>1, <1>2

\* A complete service of a receiver is an endpoint of it.
LEMMA CompleteIsEndpoint ==
    ASSUME NEW list \in Seq(Service), NEW a \in Addresses, NEW i \in Complete(list, a),
           NEW P \in SUBSET Life, ServiceOf(list[i], P)
    PROVE  /\ EndpointOf(<<list[i].instance, list[i].port>>, a, P)
           /\ list[i].instance \in Instances /\ list[i].port \in Ports
           /\ \E e \in P : a = e.ipv6
           /\ \E e \in P : list[i].instance = e.instance /\ list[i].port = e.port
<1>1. /\ i \in 1 .. Len(list) /\ list[i].has_srv /\ list[i].ipv6 = a /\ a # None
      /\ list[i] \in Service
  BY DEF Complete, service_complete, has_ipv6
<1>2. PICK d \in P : list[i].instance = d.instance /\ list[i].port = d.port
  BY <1>1 DEF ServiceOf
<1>3. PICK e \in P : a = e.ipv6
  BY <1>1 DEF ServiceOf
<1>4. d.instance \in Instances /\ d.port \in Ports
  BY DEF Life
<1> QED  BY <1>2, <1>3, <1>4 DEF EndpointOf

\* Its name, port and address are those of lives this receiver has had.
LEMMA CompleteIsOfPast ==
    ASSUME TypeOK, NEW list \in Seq(Service), NEW a \in Addresses,
           NEW i \in Complete(list, a), NEW r \in Receivers, ServiceOf(list[i], Past(r))
    PROVE  /\ \E e \in Past(r) : a = e.ipv6
           /\ \E e \in Past(r) : list[i].instance = e.instance /\ list[i].port = e.port
<1>1. list[i].has_srv /\ list[i].ipv6 = a /\ a # None
  BY DEF Complete, service_complete, has_ipv6
<1> QED  BY <1>1 DEF ServiceOf

\* Where a receiver is, a complete service that comes after all of its earlier
\* lives, or has the name of the life it is in, is that of the life it is in.
LEMMA CompleteIsCurrent ==
    ASSUME TypeOK, NEW list \in Seq(Service), NEW r \in Receivers,
           \A j \in 1 .. Len(list) : \E q \in Receivers : ServiceOf(list[j], Past(q)),
           NEW i,
           \A k \in 1 .. life[r] - 1 :
                /\ Lives[r][k].instance # Now(r).instance
                /\ \A j \in DOMAIN list : list[j].instance = Lives[r][k].instance => j < i,
           NEW m \in Complete(list, Now(r).ipv6),
           ~(m < i) \/ list[m].instance = Now(r).instance
    PROVE  <<list[m].instance, list[m].port>> = <<Now(r).instance, Now(r).port>>
<1>1. m \in 1 .. Len(list) /\ m \in DOMAIN list
  BY DEF Complete
<1>2. PICK q \in Receivers : ServiceOf(list[m], Past(q))
  BY <1>1
<1>3. Now(r) \in Past(r) /\ Now(r).ipv6 \in Addresses /\ life[r] \in Nat
  BY PastIsOfOne DEF Life, TypeOK
<1>4. /\ \E e \in Past(q) : Now(r).ipv6 = e.ipv6
      /\ \E e \in Past(q) : list[m].instance = e.instance /\ list[m].port = e.port
  BY <1>2, <1>3, CompleteIsOfPast
<1>5. q = r
  BY <1>3, <1>4, PastIsOfOne
<1>6. PICK k \in 1 .. life[r] :
            list[m].instance = Lives[r][k].instance /\ list[m].port = Lives[r][k].port
  BY <1>4, <1>5 DEF Past
<1>7. k = life[r]
  <2> SUFFICES ASSUME k # life[r] PROVE FALSE
    OBVIOUS
  <2>1. k \in 1 .. life[r] - 1
    BY <1>3
  <2>2. Lives[r][k].instance # Now(r).instance /\ m < i
    BY <1>1, <1>6, <2>1
  <2> QED  BY <1>6, <2>2
<1> QED  BY <1>6, <1>7 DEF Now

\* Each endpoint is still of one receiver.
LEMMA EndpointsAfter ==
    ASSUME TypeOK, Sources, NEW r \in Receivers, NEW e \in Past(r),
           NEW packet, NEW merged, After(packet, e, merged)
    PROVE  /\ peers' \in [Addresses -> (Instances \X Ports) \cup {None}]
           /\ \A a \in Addresses : peers'[a] # None =>
                \E q \in Receivers : EndpointOf(peers'[a], a, Past(q))
<1>1. services' \in Seq(Service) /\ peers' = publish(peers, services')
  BY TablesAfter DEF After
<1>2. \A i \in 1 .. Len(services') : \E q \in Receivers : ServiceOf(services'[i], Past(q))
  BY SourcesAfter
<1>3. ASSUME NEW a \in Addresses
      PROVE  /\ peers'[a] \in (Instances \X Ports) \cup {None}
             /\ peers'[a] # None => \E q \in Receivers : EndpointOf(peers'[a], a, Past(q))
  <2>1. CASE peers'[a] = peers[a]
    BY <2>1 DEF TypeOK, Sources
  <2>2. ASSUME NEW m \in Complete(services', a),
               peers'[a] = <<services'[m].instance, services'[m].port>>
        PROVE  /\ peers'[a] \in (Instances \X Ports)
               /\ \E q \in Receivers : EndpointOf(peers'[a], a, Past(q))
    <3>1. m \in 1 .. Len(services')
      BY <1>1 DEF Complete
    <3>2. PICK q \in Receivers : ServiceOf(services'[m], Past(q))
      BY <1>2, <3>1
    <3>3. Past(q) \in SUBSET Life
      BY PastIsOfOne
    <3>4. /\ EndpointOf(<<services'[m].instance, services'[m].port>>, a, Past(q))
          /\ services'[m].instance \in Instances /\ services'[m].port \in Ports
      BY <1>1, <3>2, <3>3, CompleteIsEndpoint
    <3> QED  BY <2>2, <3>4
  <2> QED  BY <1>1, <2>1, <2>2, LastIsPublished
<1>4. peers' = [a \in Addresses |-> peers'[a]]
  BY <1>1 DEF publish
<1> QED  BY <1>3, <1>4

\* A receiver that is known now is published as it is.
LEMMA CurrentAfter ==
    ASSUME TypeOK, Sources, NEW r \in Receivers, NEW e \in Past(r),
           NEW packet, NEW merged, After(packet, e, merged), UNCHANGED life
    PROVE  CurrentPublished'
<1>1. services' \in Seq(Service) /\ peers' = publish(peers, services')
  BY TablesAfter DEF After
<1>2. \A j \in 1 .. Len(services') : \E q \in Receivers : ServiceOf(services'[j], Past(q))
  BY SourcesAfter
<1>3. SUFFICES ASSUME NEW p \in Receivers, Known(p)'
               PROVE  peers'[Now(p).ipv6] = <<Now(p).instance, Now(p).port>>
  BY DEF CurrentPublished, Now
<1> DEFINE a == Now(p).ipv6
<1>4. a \in Addresses
  BY PastIsOfOne DEF Life
<1>5. PICK i \in Complete(services', a) :
        \A k \in 1 .. life[p] - 1 :
            /\ Lives[p][k].instance # Now(p).instance
            /\ \A j \in DOMAIN services' :
                services'[j].instance = Lives[p][k].instance => j < i
  BY <1>3 DEF Known, Now
<1> HIDE DEF a
<1>6. PICK m \in Complete(services', a) :
            /\ peers'[a] = <<services'[m].instance, services'[m].port>>
            /\ \A j \in Complete(services', a) : j <= m
  BY <1>1, <1>4, <1>5, LastIsPublished
<1>7. ~(m < i)
  <2>1. i <= m
    BY <1>5, <1>6
  <2>2. i \in Nat /\ m \in Nat
    BY <1>1, <1>5, <1>6 DEF Complete
  <2> QED  BY <2>1, <2>2
<1>8. <<services'[m].instance, services'[m].port>> = <<Now(p).instance, Now(p).port>>
  BY <1>1, <1>2, <1>5, <1>6, <1>7, CompleteIsCurrent DEF a
<1> QED  BY <1>6, <1>8 DEF a

-----------------------------------------------------------------------------
(***************************************************************************)
(* Packets and questions.                                                  *)
(***************************************************************************)

\* What a receiver sends in one of its lives are records of this life.
LEMMA PacketsAreTold ==
    ASSUME TypeOK, NEW r \in Receivers, NEW l \in 1 .. life[r], NEW packet \in Packets[r][l]
    PROVE  Lives[r][l] \in Past(r) /\ packet \in Seq(Records(Lives[r][l]))
<1>1. Lives[r][l] \in Past(r)
  BY DEF Past
<1>2. l \in DOMAIN Lives[r]
  <2>1. Lives[r] \in Seq(Life) /\ life[r] \in DOMAIN Lives[r]
    BY MdnsAssumption DEF TypeOK
  <2> QED  BY <2>1
<1> DEFINE e == Lives[r][l]
           some(S, x) == IF x[1] \in S THEN <<x>> ELSE <<>>
<1>3. \A S : \A x \in Records(e) : some(S, x) \in Seq(Records(e))
  <2> DEFINE T == Records(e)
  <2> SUFFICES ASSUME NEW S, NEW x \in T PROVE some(S, x) \in Seq(T)
    OBVIOUS
  <2> HIDE DEF T
  <2>1. <<x>> \in Seq(T) /\ <<>> \in Seq(T)
    OBVIOUS
  <2>2. some(S, x) = <<x>> \/ some(S, x) = <<>>
    OBVIOUS
  <2> HIDE DEF some
  <2> QED  BY <2>1, <2>2
<1>4. PTR(e) \in Records(e) /\ SRV(e) \in Records(e) /\ TXT(e) \in Records(e)
      /\ AAAA(e) \in Records(e)
  BY DEF Records
<1>5. \/ \E S \in Splits : packet =
            some(S, PTR(e)) \o some(S, SRV(e)) \o some(S, TXT(e)) \o some(S, AAAA(e))
      \/ \E S \in Splits : packet =
            some(S, AAAA(e)) \o some(S, PTR(e)) \o some(S, TXT(e)) \o some(S, SRV(e))
  BY <1>2 DEF Packets
<1> HIDE DEF some
<1>6. packet \in Seq(Records(e))
  <2> DEFINE T == Records(e)
  <2>1. \A a, b, c, d \in Seq(T) : a \o b \o c \o d \in Seq(T)
    <3>1. \A a, b \in Seq(T) : a \o b \in Seq(T)
      OBVIOUS
    <3> HIDE DEF T
    <3> QED  BY <3>1
  <2>2. CASE \E S \in Splits : packet =
            some(S, PTR(e)) \o some(S, SRV(e)) \o some(S, TXT(e)) \o some(S, AAAA(e))
    <3>1. PICK S \in Splits : packet =
            some(S, PTR(e)) \o some(S, SRV(e)) \o some(S, TXT(e)) \o some(S, AAAA(e))
      BY <2>2
    <3>2. /\ some(S, PTR(e)) \in Seq(T) /\ some(S, SRV(e)) \in Seq(T)
          /\ some(S, TXT(e)) \in Seq(T) /\ some(S, AAAA(e)) \in Seq(T)
      BY <1>3, <1>4
    <3> HIDE DEF T
    <3> QED  BY <2>1, <3>1, <3>2 DEF T
  <2>3. CASE \E S \in Splits : packet =
            some(S, AAAA(e)) \o some(S, PTR(e)) \o some(S, TXT(e)) \o some(S, SRV(e))
    <3>1. PICK S \in Splits : packet =
            some(S, AAAA(e)) \o some(S, PTR(e)) \o some(S, TXT(e)) \o some(S, SRV(e))
      BY <2>3
    <3>2. /\ some(S, PTR(e)) \in Seq(T) /\ some(S, SRV(e)) \in Seq(T)
          /\ some(S, TXT(e)) \in Seq(T) /\ some(S, AAAA(e)) \in Seq(T)
      BY <1>3, <1>4
    <3> HIDE DEF T
    <3> QED  BY <2>1, <3>1, <3>2 DEF T
  <2> QED  BY <1>5, <2>2, <2>3
<1> QED  BY <1>1, <1>6

\* A packet of one record of the life a receiver is in is told.
LEMMA OneRecordIsTold ==
    ASSUME TypeOK, NEW r \in Receivers, NEW x \in Records(Now(r))
    PROVE  <<x>> \in Told
<1>1. Now(r) \in Past(r)
  BY PastIsOfOne
<1>2. <<x>> \in Seq(Records(Now(r)))
  OBVIOUS
<1> QED  BY <1>1, <1>2 DEF Told

\* All receivers in some order.
LEMMA OrderOfReceivers ==
    ASSUME NEW order \in SetToSeqs(Receivers)
    PROVE  order \in Seq(Receivers)
<1>1. Cardinality(Receivers) \in Nat
  BY MdnsAssumption, FS_CardinalityType
<1>2. order \in [1 .. Cardinality(Receivers) -> Receivers]
  BY DEF SetToSeqs
<1> QED  BY <1>1, <1>2

\* The questions are a sequence.
LEMMA QuestionsAsked ==
    ASSUME TypeOK
    PROVE  \E T : send_resolution_questions \in Seq(T)
<1> DEFINE T == {"SRV", "TXT", "AAAA"} \X (Instances \cup Names \cup {None})
           missing == [i \in DOMAIN services |-> Missing(services[i])]
           all == FlattenSeq(missing)
<1>1. \A s \in Service : Missing(s) \in Seq(T)
  <2> TAKE s \in Service
  <2> DEFINE a == IF s.has_srv THEN <<>> ELSE <<<<"SRV", s.instance>>>>
             b == IF s.has_txt THEN <<>> ELSE <<<<"TXT", s.instance>>>>
             c == IF s.has_srv /\ ~has_ipv6(s) THEN <<<<"AAAA", s.target>>>> ELSE <<>>
  <2>1. s.instance \in Instances /\ s.target \in Names \cup {None}
    BY DEF Service
  <2>2. <<"SRV", s.instance>> \in T /\ <<"TXT", s.instance>> \in T /\ <<"AAAA", s.target>> \in T
    BY <2>1
  <2> HIDE DEF T
  <2>3. a \in Seq(T) /\ b \in Seq(T) /\ c \in Seq(T)
    BY <2>2
  <2>4. Missing(s) = a \o b \o c
    BY DEF Missing
  <2> HIDE DEF a, b, c
  <2> QED  BY <2>3, <2>4
<1> HIDE DEF T
<1>2. missing \in Seq(Seq(T))
  <2>1. services \in Seq(Service)
    BY DEF TypeOK
  <2>2. \A i \in 1 .. Len(services) : services[i] \in Service
    BY <2>1
  <2>3. missing \in [1 .. Len(services) -> Seq(T)]
    BY <1>1, <2>1, <2>2
  <2> QED  BY <2>1, <2>3
<1>3. all \in Seq(T)
  BY <1>2, Flattened
<1> DEFINE n == IF Len(all) < Budget THEN Len(all) ELSE Budget
<1>4. send_resolution_questions = SubSeq(all, 1, n)
  BY DEF send_resolution_questions
<1> HIDE DEF all
<1>5. n \in Nat /\ n <= Len(all)
  BY <1>3, MdnsAssumption
<1> HIDE DEF n
<1>6. SubSeq(all, 1, n) \in Seq(T)
  BY <1>3, <1>5
<1> QED  BY <1>4, <1>6

\* All answers are told.
LEMMA AnswersAreTold ==
    ASSUME TypeOK, NEW order \in Seq(Receivers), NEW T, NEW questions \in Seq(T)
    PROVE  AnswersTo(order, questions) \in Seq(Told)
<1>1. ASSUME NEW r \in Receivers, NEW question PROVE AnswerOf(r, question) \in Seq(Told)
  <2> DEFINE known == {x \in Records(Now(r)) : SubSeq(x, 1, 2) = question}
  <2>1. CASE known = {}
    BY <2>1 DEF AnswerOf
  <2>2. CASE known # {}
    <3> DEFINE x == CHOOSE x \in known : TRUE
    <3>1. x \in Records(Now(r))
      BY <2>2
    <3>2. AnswerOf(r, question) = <<<<x>>>>
      BY <2>2 DEF AnswerOf
    <3> HIDE DEF x
    <3>3. <<x>> \in Told
      BY <3>1, OneRecordIsTold
    <3> QED  BY <3>2, <3>3
  <2> QED  BY <2>1, <2>2
<1> DEFINE each(i) == [j \in DOMAIN order |-> AnswerOf(order[j], questions[i])]
           answers == [i \in DOMAIN questions |-> FlattenSeq(each(i))]
<1>2. ASSUME NEW i \in DOMAIN questions PROVE FlattenSeq(each(i)) \in Seq(Told)
  <2>1. \A j \in 1 .. Len(order) : AnswerOf(order[j], questions[i]) \in Seq(Told)
    BY <1>1
  <2>2. each(i) \in [1 .. Len(order) -> Seq(Told)]
    BY <2>1
  <2>3. each(i) \in Seq(Seq(Told))
    BY <2>2
  <2> QED  BY <2>3, Flattened
<1>3. AnswersTo(order, questions) = FlattenSeq(answers)
  BY DEF AnswersTo
<1> HIDE DEF each
<1>4. answers \in [1 .. Len(questions) -> Seq(Told)]
  BY <1>2
<1>5. answers \in Seq(Seq(Told))
  BY <1>4
<1> QED  BY <1>3, <1>5, Flattened

-----------------------------------------------------------------------------
(***************************************************************************)
(* The invariant is inductive.                                             *)
(***************************************************************************)

\* What a packet does to the tables, and what it keeps.
Received ==
    /\ services' \in Seq(Service) /\ Len(services') <= MaxServices
    /\ hosts' \in Seq(Names \X Addresses) /\ Len(hosts') <= MaxHosts
    /\ peers' \in [Addresses -> (Instances \X Ports) \cup {None}]
    /\ \A i \in 1 .. Len(services') : \E r \in Receivers : ServiceOf(services'[i], Past(r))
    /\ \A i \in 1 .. Len(hosts') : \E r \in Receivers : HostOf(hosts'[i], Past(r))
    /\ \A a \in Addresses : peers'[a] # None =>
            \E r \in Receivers : EndpointOf(peers'[a], a, Past(r))
    /\ ServicesKept' /\ HostsKept' /\ CurrentPublished'

\* A packet of one life is received.
LEMMA PacketReceived ==
    ASSUME CacheInv, NEW r \in Receivers, NEW e \in Past(r),
           NEW packet \in Seq(Records(e)), receive_mdns_packet(packet), UNCHANGED life
    PROVE  Received
<1>1. TypeOK /\ Sources /\ ServicesKept /\ HostsKept
  BY DEF CacheInv
<1>2. e \in Life
  BY <1>1, PastIsOfOne
<1>3. PICK merged : After(packet, e, merged)
  BY <1>1, <1>2, CacheAfter
<1>4. /\ services' \in Seq(Service) /\ Len(services') <= MaxServices
      /\ hosts' \in Seq(Names \X Addresses) /\ Len(hosts') <= MaxHosts
  BY <1>3, TablesAfter DEF Host
<1>5. /\ \A i \in 1 .. Len(services') : \E q \in Receivers : ServiceOf(services'[i], Past(q))
      /\ \A i \in 1 .. Len(hosts') : \E q \in Receivers : HostOf(hosts'[i], Past(q))
  BY <1>1, <1>3, SourcesAfter
<1>6. /\ peers' \in [Addresses -> (Instances \X Ports) \cup {None}]
      /\ \A a \in Addresses : peers'[a] # None =>
            \E q \in Receivers : EndpointOf(peers'[a], a, Past(q))
  BY <1>1, <1>3, EndpointsAfter
<1>7. ServicesKept'
  BY <1>1, <1>2, <1>3, ServicesKeptAfter
<1>8. HostsKept'
  BY <1>1, <1>2, <1>3, HostsKeptAfter
<1>9. CurrentPublished'
  BY <1>1, <1>3, CurrentAfter
<1> QED  BY <1>4, <1>5, <1>6, <1>7, <1>8, <1>9 DEF Received

\* It keeps the invariant, if the rest of the state does.
LEMMA ReceivedKeeps ==
    ASSUME CacheInv, Received, UNCHANGED <<life, quiet, round, step>>,
           slots' \in 0 .. Reads, socket' \in Seq(Told)
    PROVE  CacheInv'
<1>1. TypeOK /\ RoundsLeft
  BY DEF CacheInv
<1>2. TypeOK'
  BY <1>1 DEF Received, TypeOK
<1>3. (\A r \in Receivers : Past(r)' = Past(r)) /\ Told' = Told
  BY DEF Past, Told
<1>4. Sources'
  BY <1>3 DEF Received, Sources
<1>5. RoundsLeft'
  BY <1>1 DEF RoundsLeft
<1> QED  BY <1>2, <1>4, <1>5 DEF Received, CacheInv

\* A step that leaves the tables and the lives alone keeps what is said of them.
LEMMA TablesKept ==
    ASSUME CacheInv, UNCHANGED <<life, cacheVars>>, socket' \in Seq(Told)
    PROVE  Sources' /\ ServicesKept' /\ HostsKept' /\ CurrentPublished'
<1>1. (\A r \in Receivers : Past(r)' = Past(r)) /\ Told' = Told
  BY DEF Past, Told
<1>2. Sources /\ ServicesKept /\ HostsKept /\ CurrentPublished
  BY DEF CacheInv
<1>3. Sources'
  BY <1>1, <1>2 DEF Sources, cacheVars
<1>4. ServicesKept' /\ HostsKept'
  BY <1>2 DEF ServicesKept, HostsKept, cacheVars, Holds
<1>5. CurrentPublished'
  BY <1>2 DEF CurrentPublished, Known, Now, cacheVars
<1> QED  BY <1>3, <1>4, <1>5

\* At first nothing is known.
LEMMA InitCacheInv == Init => CacheInv
<1> SUFFICES ASSUME Init PROVE CacheInv
  OBVIOUS
<1>1. TypeOK
  <2>1. \A r \in Receivers : life[r] = 1 /\ 1 \in DOMAIN Lives[r]
    <3> TAKE r \in Receivers
    <3>1. Lives[r] \in Seq(Life) /\ Lives[r] # <<>>
      BY MdnsAssumption
    <3> QED  BY <3>1 DEF Init
  <2>2. life \in [Receivers -> Nat]
    BY DEF Init
  <2>3. services \in Seq(Service) /\ Len(services) <= MaxServices
        /\ hosts \in Seq(Names \X Addresses) /\ Len(hosts) <= MaxHosts
    BY MdnsAssumption DEF Init
  <2>4. peers \in [Addresses -> (Instances \X Ports) \cup {None}]
    BY DEF Init
  <2>5. /\ quiet \in BOOLEAN /\ round \in 1 .. Rounds + 1
        /\ step \in {"browse", "browsed", "asked", "listen"} /\ slots \in 0 .. Reads
    BY MdnsAssumption DEF Init
  <2> QED  BY <2>1, <2>2, <2>3, <2>4, <2>5 DEF TypeOK
<1>2. Sources
  BY DEF Init, Sources
<1>3. ServicesKept /\ HostsKept
  BY DEF Init, ServicesKept, HostsKept
<1>4. CurrentPublished
  BY DEF Init, CurrentPublished, Known, Complete
<1>5. RoundsLeft
  BY MdnsAssumption DEF Init, RoundsLeft
<1> QED  BY <1>1, <1>2, <1>3, <1>4, <1>5 DEF CacheInv

\* A packet that a receiver sends now or sent earlier.
LEMMA ReceiveKeeps ==
    ASSUME CacheInv, NEW r \in Receivers, ReceiveFrom(r)
    PROVE  CacheInv'
<1>1. PICK l \in 1 .. life[r] : \E packet \in Packets[r][l] : Receive(packet)
  BY DEF ReceiveFrom
<1>2. PICK packet \in Packets[r][l] : Receive(packet)
  BY <1>1
<1>3. /\ receive_mdns_packet(packet)
      /\ UNCHANGED <<life, quiet, round, step>> /\ slots' = slots /\ socket' = socket
  BY <1>2 DEF Receive, taskVars
<1>4. TypeOK /\ Sources
  BY DEF CacheInv
<1>5. Lives[r][l] \in Past(r) /\ packet \in Seq(Records(Lives[r][l]))
  BY <1>4, PacketsAreTold
<1>6. Received
  BY <1>3, <1>5, PacketReceived
<1>7. slots' \in 0 .. Reads /\ socket' \in Seq(Told)
  BY <1>3, <1>4 DEF TypeOK, Sources
<1> QED  BY <1>3, <1>6, <1>7, ReceivedKeeps

\* A packet that was waiting.
LEMMA ReadKeeps ==
    ASSUME CacheInv, Read
    PROVE  CacheInv'
<1>1. /\ TypeOK /\ Sources /\ ServicesKept /\ HostsKept /\ CurrentPublished /\ RoundsLeft
      /\ UNCHANGED <<life, quiet, round, step>> /\ slots > 0 /\ socket \in Seq(Told)
      /\ slots \in 0 .. Reads /\ Reads \in Nat
  BY MdnsAssumption DEF CacheInv, Read, TypeOK, Sources
<1>2. CASE socket = <<>>
  <2>1. UNCHANGED <<life, cacheVars>> /\ slots' = 0 /\ socket' \in Seq(Told)
    BY <1>1, <1>2 DEF Read
  <2>2. Sources' /\ ServicesKept' /\ HostsKept' /\ CurrentPublished'
    BY <2>1, TablesKept
  <2>3. TypeOK'
    BY <1>1, <2>1 DEF TypeOK, cacheVars
  <2>4. RoundsLeft'
    BY <1>1 DEF RoundsLeft
  <2> QED  BY <2>2, <2>3, <2>4 DEF CacheInv
<1>3. CASE socket # <<>>
  <2>1. receive_mdns_packet(Head(socket)) /\ socket' = Tail(socket) /\ slots' = slots - 1
    BY <1>3 DEF Read
  <2>2. Head(socket) \in Told /\ socket' \in Seq(Told)
    <3> HIDE DEF Told
    <3> QED  BY <1>1, <1>3, <2>1
  <2>3. PICK r \in Receivers : \E e \in Past(r) : Head(socket) \in Seq(Records(e))
    BY <2>2 DEF Told
  <2>4. PICK e \in Past(r) : Head(socket) \in Seq(Records(e))
    BY <2>3
  <2>5. Received
    BY <1>1, <2>1, <2>4, PacketReceived
  <2>6. slots' \in 0 .. Reads
    BY <1>1, <2>1
  <2> QED  BY <1>1, <2>2, <2>5, <2>6, ReceivedKeeps
<1> QED  BY <1>2, <1>3

\* The questions of the task, and the end of a round.
LEMMA TaskKeeps ==
    ASSUME CacheInv,
           (\E order \in SetToSeqs(Receivers) : Browse(order) \/ Resolve(order)) \/ EndRound
    PROVE  CacheInv'
<1>1. TypeOK /\ socket \in Seq(Told) /\ RoundsLeft
  BY DEF CacheInv, Sources
<1>2. Reads \in Nat \ {0} /\ Rounds \in Nat \ {0}
  BY MdnsAssumption
<1>3. ASSUME UNCHANGED <<life, cacheVars, quiet>>, socket' \in Seq(Told),
             round' \in 1 .. Rounds + 1, slots' \in 0 .. Reads,
             step' \in {"browse", "browsed", "asked", "listen"},
             step' # "listen" => round' <= Rounds
      PROVE  CacheInv'
  <2>1. Sources' /\ ServicesKept' /\ HostsKept' /\ CurrentPublished'
    BY <1>3, TablesKept
  <2>2. TypeOK'
    BY <1>1, <1>3 DEF TypeOK, cacheVars
  <2>3. RoundsLeft'
    BY <1>3 DEF RoundsLeft
  <2> QED  BY <2>1, <2>2, <2>3 DEF CacheInv
<1>4. \A s, t \in Seq(Told) : s \o t \in Seq(Told)
  <2> HIDE DEF Told
  <2> QED  OBVIOUS
<1>5. ASSUME NEW order \in SetToSeqs(Receivers), Browse(order) PROVE CacheInv'
  <2> DEFINE said == [i \in DOMAIN order |-> <<PTR(Now(order[i]))>>]
  <2>1. order \in Seq(Receivers)
    BY OrderOfReceivers
  <2>2. \A i \in 1 .. Len(order) : <<PTR(Now(order[i]))>> \in Told
    <3> TAKE i \in 1 .. Len(order)
    <3>1. order[i] \in Receivers /\ PTR(Now(order[i])) \in Records(Now(order[i]))
      BY <2>1 DEF Records
    <3> QED  BY <1>1, <3>1, OneRecordIsTold
  <2>3. said \in [1 .. Len(order) -> Told]
    BY <2>1, <2>2
  <2>4. said \in Seq(Told)
    BY <2>1, <2>3
  <2>5. socket' = socket \o said /\ UNCHANGED <<life, cacheVars, quiet, round>>
        /\ step = "browse" /\ step' = "browsed" /\ slots' = Reads
    BY <1>5 DEF Browse
  <2> HIDE DEF said
  <2>6. socket' \in Seq(Told)
    BY <1>1, <1>4, <2>4, <2>5
  <2>7. round' \in 1 .. Rounds + 1 /\ round' <= Rounds /\ slots' \in 0 .. Reads
    BY <1>1, <1>2, <2>5 DEF TypeOK, RoundsLeft
  <2> QED  BY <1>3, <2>5, <2>6, <2>7
<1>6. ASSUME NEW order \in SetToSeqs(Receivers), Resolve(order) PROVE CacheInv'
  <2> DEFINE said == AnswersTo(order, send_resolution_questions)
  <2>1. said \in Seq(Told)
    BY <1>1, OrderOfReceivers, QuestionsAsked, AnswersAreTold
  <2>2. socket' = socket \o said /\ UNCHANGED <<life, cacheVars, quiet, round>>
        /\ step = "browsed" /\ step' = "asked" /\ slots' = Reads
    BY <1>6 DEF Resolve
  <2> HIDE DEF said
  <2>3. socket' \in Seq(Told)
    BY <1>1, <1>4, <2>1, <2>2
  <2>4. round' \in 1 .. Rounds + 1 /\ round' <= Rounds /\ slots' \in 0 .. Reads
    BY <1>1, <1>2, <2>2 DEF TypeOK, RoundsLeft
  <2> QED  BY <1>3, <2>2, <2>3, <2>4
<1>7. ASSUME EndRound PROVE CacheInv'
  <2>1. /\ UNCHANGED <<life, cacheVars, quiet, slots, socket>> /\ round' = round + 1
        /\ step = "asked" /\ step' = IF round = Rounds THEN "listen" ELSE "browse"
    BY <1>7 DEF EndRound
  <2>2. /\ round' \in 1 .. Rounds + 1 /\ slots' \in 0 .. Reads
        /\ step' \in {"browse", "browsed", "asked", "listen"}
        /\ step' # "listen" => round' <= Rounds
    BY <1>1, <1>2, <2>1 DEF TypeOK, RoundsLeft
  <2>3. socket' \in Seq(Told)
    BY <1>1, <2>1
  <2> QED  BY <1>3, <2>1, <2>2, <2>3
<1> QED  BY <1>5, <1>6, <1>7

\* A receiver comes back: what is cached is of earlier lives, and it is not
\* known as it is now, for its service is new to all.
LEMMA RestartKeeps ==
    ASSUME CacheInv, NEW r \in Receivers, Restart(r)
    PROVE  CacheInv'
<1>1. TypeOK /\ Sources /\ ServicesKept /\ HostsKept /\ CurrentPublished /\ RoundsLeft
  BY DEF CacheInv
<1>2. /\ life' = [life EXCEPT ![r] = life[r] + 1] /\ life[r] < Len(Lives[r])
      /\ UNCHANGED <<services, hosts, peers, heard, quiet, round, step, slots, socket>>
  BY DEF Restart, cacheVars, taskVars
<1>3. life \in [Receivers -> Nat] /\ \A q \in Receivers : life[q] \in DOMAIN Lives[q]
  BY <1>1 DEF TypeOK
<1>4. Lives[r] \in Seq(Life) /\ life[r] \in Nat /\ life[r] + 1 \in DOMAIN Lives[r]
  <2>1. Lives[r] \in Seq(Life)
    BY MdnsAssumption
  <2> QED  BY <1>2, <1>3, <2>1
<1>5. \A q \in Receivers : life'[q] = IF q = r THEN life[r] + 1 ELSE life[q]
  BY <1>2, <1>3
<1>6. TypeOK'
  <2>1. life' \in [Receivers -> Nat]
    BY <1>2, <1>3
  <2>2. \A q \in Receivers : life'[q] \in DOMAIN Lives[q]
    BY <1>3, <1>4, <1>5
  <2> QED  BY <1>1, <1>2, <2>1, <2>2 DEF TypeOK
<1>7. \A q \in Receivers : Past(q) \subseteq Past(q)'
  <2> TAKE q \in Receivers
  <2>1. 1 .. life[q] \subseteq 1 .. life'[q]
    BY <1>3, <1>5
  <2> QED  BY <2>1 DEF Past
<1>8. Sources'
  <2>1. \A i \in 1 .. Len(services) : \E q \in Receivers : ServiceOf(services[i], Past(q)')
    <3> TAKE i \in 1 .. Len(services)
    <3>1. PICK q \in Receivers : ServiceOf(services[i], Past(q))
      BY <1>1 DEF Sources
    <3>2. Past(q) \subseteq Past(q)'
      BY <1>7
    <3>3. ServiceOf(services[i], Past(q)')
      BY <3>1, <3>2, PastGrows
    <3> QED  BY <3>3
  <2>2. \A i \in 1 .. Len(hosts) : \E q \in Receivers : HostOf(hosts[i], Past(q)')
    BY <1>1, <1>7, PastGrows DEF Sources
  <2>3. \A a \in Addresses : peers[a] # None =>
            \E q \in Receivers : EndpointOf(peers[a], a, Past(q)')
    BY <1>1, <1>7, PastGrows DEF Sources
  <2>4. socket \in Seq(Told')
    <3>1. Told \subseteq Told'
      BY <1>7 DEF Told
    <3>2. socket \in Seq(Told)
      BY <1>1 DEF Sources
    <3> HIDE DEF Told
    <3> QED  BY <3>1, <3>2
  <2> QED  BY <1>2, <2>1, <2>2, <2>3, <2>4 DEF Sources
<1>9. ServicesKept' /\ HostsKept' /\ RoundsLeft'
  BY <1>1, <1>2 DEF ServicesKept, HostsKept, RoundsLeft, Holds
<1>10. CurrentPublished'
  <2> SUFFICES ASSUME NEW p \in Receivers, Known(p)'
               PROVE  peers'[Now(p)'.ipv6] = <<Now(p)'.instance, Now(p)'.port>>
    BY DEF CurrentPublished
  <2>1. CASE p = r
    <3>1. PICK i \in Complete(services, Now(r)'.ipv6) :
            /\ services[i].instance = Now(r)'.instance
            /\ \A k \in 1 .. life'[r] - 1 : Lives[r][k].instance # Now(r)'.instance
      BY <1>2, <2>1 DEF Known, Now
    <3>2. i \in 1 .. Len(services) /\ services \in Seq(Service)
      BY <1>1, <3>1 DEF TypeOK, Complete
    <3>3. PICK q \in Receivers : \E d \in Past(q) : services[i].instance = d.instance
      BY <1>1, <3>2 DEF Sources, ServiceOf
    <3>4. PICK k \in 1 .. life[q] : services[i].instance = Lives[q][k].instance
      BY <3>3 DEF Past
    <3>5. Now(r)' = Lives[r][life[r] + 1]
      BY <1>5 DEF Now
    <3>6. k \in DOMAIN Lives[q]
      <4>1. Lives[q] \in Seq(Life) /\ life[q] \in DOMAIN Lives[q]
        BY <1>3, MdnsAssumption
      <4> QED  BY <4>1
    <3>7. q = r
      <4>1. Lives[q][k].instance = Lives[r][life[r] + 1].instance
        BY <3>1, <3>4, <3>5
      <4> QED  BY <1>4, <3>6, <4>1, ReceiversDiffer
    <3>8. life'[r] - 1 = life[r]
      BY <1>4, <1>5
    <3> QED  BY <3>1, <3>4, <3>7, <3>8
  <2>2. CASE p # r
    <3>1. life'[p] = life[p] /\ Now(p)' = Now(p)
      BY <1>5, <2>2 DEF Now
    <3>2. Known(p)
      BY <1>2, <3>1 DEF Known
    <3> QED  BY <1>1, <1>2, <3>1, <3>2 DEF CurrentPublished
  <2> QED  BY <2>1, <2>2
<1> QED  BY <1>6, <1>8, <1>9, <1>10 DEF CacheInv

\* The endpoint of a MIF is that of the life its sender is in.
LEMMA MifKeeps ==
    ASSUME CacheInv, NEW r \in Receivers, apply_mif_to_peer(r)
    PROVE  CacheInv'
<1> DEFINE d == Now(r)
<1>1. TypeOK /\ Sources /\ ServicesKept /\ HostsKept /\ CurrentPublished /\ RoundsLeft
  BY DEF CacheInv
<1>2. /\ peers' = [peers EXCEPT ![d.ipv6] = <<d.instance, d.port>>]
      /\ UNCHANGED <<life, services, hosts, heard, quiet, round, step, slots, socket>>
  BY DEF apply_mif_to_peer, taskVars
<1>3. /\ d \in Past(r) /\ d.ipv6 \in Addresses /\ d.instance \in Instances /\ d.port \in Ports
  BY <1>1, PastIsOfOne DEF Life
<1>4. peers \in [Addresses -> (Instances \X Ports) \cup {None}]
  BY <1>1 DEF TypeOK
<1>5. \A a \in Addresses : peers'[a] = IF a = d.ipv6 THEN <<d.instance, d.port>> ELSE peers[a]
  BY <1>2, <1>3, <1>4
<1>6. TypeOK'
  <2>1. <<d.instance, d.port>> \in (Instances \X Ports) \cup {None}
    BY <1>3
  <2>2. peers' \in [Addresses -> (Instances \X Ports) \cup {None}]
    <3> HIDE DEF d
    <3> QED  BY <1>2, <1>4, <2>1
  <2> QED  BY <1>1, <1>2, <2>2 DEF TypeOK
<1>7. (\A q \in Receivers : Past(q)' = Past(q)) /\ Told' = Told
  BY <1>2 DEF Past, Told
<1>8. \A a \in Addresses : peers'[a] # None =>
        \E q \in Receivers : EndpointOf(peers'[a], a, Past(q))
  <2>1. EndpointOf(<<d.instance, d.port>>, d.ipv6, Past(r))
    BY <1>3 DEF EndpointOf
  <2> HIDE DEF d
  <2> QED  BY <1>1, <1>5, <2>1 DEF Sources
<1>9. Sources'
  BY <1>1, <1>2, <1>7, <1>8 DEF Sources
<1>10. ServicesKept' /\ HostsKept' /\ RoundsLeft'
  BY <1>1, <1>2 DEF ServicesKept, HostsKept, RoundsLeft, Holds
<1>11. CurrentPublished'
  <2> SUFFICES ASSUME NEW p \in Receivers, Known(p)
               PROVE  peers'[Now(p).ipv6] = <<Now(p).instance, Now(p).port>>
    BY <1>2 DEF CurrentPublished, Known, Now
  <2>1. CASE p = r
    BY <1>3, <1>5, <2>1
  <2>2. CASE p # r
    <3>1. Now(p) \in Past(p) /\ Now(p).ipv6 \in Addresses
      BY <1>1, PastIsOfOne DEF Life
    <3>2. Now(p).ipv6 # d.ipv6
      BY <1>1, <1>3, <2>2, <3>1, PastIsOfOne
    <3>3. peers'[Now(p).ipv6] = peers[Now(p).ipv6]
      BY <1>5, <3>1, <3>2
    <3> QED  BY <1>1, <3>3 DEF CurrentPublished
  <2> QED  BY <2>1, <2>2
<1> QED  BY <1>6, <1>9, <1>10, <1>11 DEF CacheInv

LEMMA NextCacheInv == CacheInv /\ [Next]_vars => CacheInv'
<1> SUFFICES ASSUME CacheInv, [Next]_vars PROVE CacheInv'
  OBVIOUS
<1>1. ASSUME NEW r \in Receivers, ReceiveFrom(r) PROVE CacheInv'
  BY <1>1, ReceiveKeeps
<1>2. ASSUME NEW r \in Receivers, Restart(r) PROVE CacheInv'
  BY <1>2, RestartKeeps
<1>3. ASSUME NEW r \in Receivers, apply_mif_to_peer(r) PROVE CacheInv'
  BY <1>3, MifKeeps
<1>4. ASSUME (\E order \in SetToSeqs(Receivers) : Browse(order) \/ Resolve(order)) \/ EndRound
      PROVE  CacheInv'
  BY <1>4, TaskKeeps
<1>5. ASSUME Read PROVE CacheInv'
  BY <1>5, ReadKeeps
<1>6. ASSUME UNCHANGED vars PROVE CacheInv'
  <2>1. TypeOK /\ RoundsLeft /\ socket \in Seq(Told)
    BY DEF CacheInv, Sources
  <2>2. UNCHANGED <<life, cacheVars>> /\ UNCHANGED taskVars
    BY <1>6 DEF vars
  <2>3. Sources' /\ ServicesKept' /\ HostsKept' /\ CurrentPublished'
    BY <2>1, <2>2, TablesKept DEF taskVars
  <2>4. TypeOK' /\ RoundsLeft'
    BY <2>1, <2>2 DEF TypeOK, RoundsLeft, cacheVars, taskVars
  <2> QED  BY <2>3, <2>4 DEF CacheInv
<1> QED  BY <1>1, <1>2, <1>3, <1>4, <1>5, <1>6 DEF Next, HearNothing

-----------------------------------------------------------------------------
(***************************************************************************)
(* The theorems.                                                           *)
(***************************************************************************)

\* Everything in mdns_cache and in the endpoints of the peer table comes from
\* one receiver, nothing that receive_mdns_packet was told is forgotten unless
\* a table is full, and who is known is published as it is now.
THEOREM CacheInvariant == Spec => []CacheInv
<1>1. Init => CacheInv
  BY InitCacheInv
<1>2. CacheInv /\ [Next]_vars => CacheInv'
  BY NextCacheInv
<1> QED  BY <1>1, <1>2, PTL DEF Spec

\* services and hosts never outgrow ESPDROP_MDNS_MAX_SERVICES and
\* ESPDROP_MDNS_MAX_HOSTS, the merge loops of airdrop_mdns.c and the rounds of
\* mdns_task keep to their ranges.
THEOREM CacheTypes == Spec => []TypeOK
<1>1. CacheInv => TypeOK
  BY DEF CacheInv
<1> QED  BY <1>1, CacheInvariant, PTL

\* Where the task would connect for an address that has an endpoint: the entry
\* itself, or a complete service at this address with the name of the entry.
LEMMA ConnectsTo ==
    ASSUME TypeOK, NEW a \in Addresses
    PROVE  \/ probe_airdrop_tcp(a) = peers[a]
              /\ \A i \in Complete(services, a) : services[i].instance # peers[a][1]
           \/ \E m \in Complete(services, a) :
                /\ services[m].instance = peers[a][1]
                /\ probe_airdrop_tcp(a) = <<services[m].instance, services[m].port>>
<1> DEFINE S == {i \in Complete(services, a) : services[i].instance = peers[a][1]}
<1>1. probe_airdrop_tcp(a) = IF S = {} THEN peers[a]
                             ELSE <<services[Min(S)].instance, services[Min(S)].port>>
  BY DEF probe_airdrop_tcp
<1>2. CASE S = {}
  BY <1>1, <1>2
<1>3. CASE S # {}
  <2>1. PICK n \in Nat : S \in SUBSET (1 .. n)
    <3>1. services \in Seq(Service) /\ Len(services) \in Nat
      BY DEF TypeOK
    <3>2. S \in SUBSET (1 .. Len(services))
      BY <3>1 DEF Complete
    <3> QED  BY <3>1, <3>2
  <2>2. Min(S) \in S
    <3> HIDE DEF S
    <3> QED  BY <1>3, <2>1, LeastFound
  <2> QED  BY <1>1, <1>3, <2>2
<1> QED  BY <1>2, <1>3

\* A service that is of a receiver and complete was there.
LEMMA CompleteHasBeen ==
    ASSUME CacheInv, NEW a \in Addresses, NEW i \in Complete(services, a)
    PROVE  \E r \in Receivers :
                /\ HasBeenAt(r, services[i].instance, services[i].port, a)
                /\ \E e \in Past(r) : a = e.ipv6
<1>1. TypeOK /\ Sources /\ services \in Seq(Service)
  BY DEF CacheInv, TypeOK
<1>2. i \in 1 .. Len(services)
  BY <1>1 DEF Complete
<1>3. PICK r \in Receivers : ServiceOf(services[i], Past(r))
  BY <1>1, <1>2 DEF Sources
<1>4. /\ \E e \in Past(r) : a = e.ipv6
      /\ \E e \in Past(r) : services[i].instance = e.instance /\ services[i].port = e.port
  BY <1>1, <1>3, CompleteIsOfPast
<1> QED  BY <1>4 DEF HasBeenAt, Past

\* receive_mdns_packet and apply_mif_to_peer never publish, and
\* probe_airdrop_tcp never connects to, the service of one receiver at the
\* address of another, for any number of receivers and lives, any split of
\* records over packets and any size of the tables.
THEOREM EndpointsOfOneReceiver == Spec => []EndpointOfOneReceiver
<1>1. ASSUME CacheInv PROVE EndpointOfOneReceiver
  <2>1. TypeOK /\ Sources /\ services \in Seq(Service)
    BY <1>1 DEF CacheInv, TypeOK
  <2>2. ASSUME NEW s \in ToSet(services), service_complete(s)
        PROVE  \E r \in Receivers : HasBeenAt(r, s.instance, s.port, s.ipv6)
    <3>1. PICK i \in 1 .. Len(services) : s = services[i]
      BY <2>1 DEF ToSet
    <3>2. s \in Service /\ s.ipv6 # None /\ s.ipv6 \in Addresses
      <4>1. s \in Service
        BY <2>1, <3>1
      <4>2. s.ipv6 # None
        BY <2>2 DEF service_complete, has_ipv6
      <4> QED  BY <4>1, <4>2 DEF Service
    <3>3. i \in Complete(services, s.ipv6)
      BY <2>1, <2>2, <3>1 DEF Complete
    <3> QED  BY <1>1, <3>1, <3>2, <3>3, CompleteHasBeen
  <2>3. ASSUME NEW a \in Addresses, peers[a] # None
        PROVE  \E r \in Receivers :
                    /\ HasBeenAt(r, peers[a][1], peers[a][2], a)
                    /\ HasBeenAt(r, probe_airdrop_tcp(a)[1], probe_airdrop_tcp(a)[2], a)
    <3>1. PICK r \in Receivers : EndpointOf(peers[a], a, Past(r))
      BY <2>1, <2>3 DEF Sources
    <3>2. PICK d \in Past(r), e \in Past(r) : peers[a] = <<d.instance, d.port>> /\ a = e.ipv6
      BY <3>1 DEF EndpointOf
    <3>3. HasBeenAt(r, peers[a][1], peers[a][2], a)
      BY <3>2 DEF HasBeenAt, Past
    <3>4. CASE probe_airdrop_tcp(a) = peers[a]
      BY <3>3, <3>4
    <3>5. ASSUME NEW m \in Complete(services, a),
                 probe_airdrop_tcp(a) = <<services[m].instance, services[m].port>>
          PROVE  HasBeenAt(r, probe_airdrop_tcp(a)[1], probe_airdrop_tcp(a)[2], a)
      <4>1. PICK q \in Receivers :
                /\ HasBeenAt(q, services[m].instance, services[m].port, a)
                /\ \E f \in Past(q) : a = f.ipv6
        BY <1>1, CompleteHasBeen
      <4>2. q = r
        BY <2>1, <3>2, <4>1, PastIsOfOne
      <4> QED  BY <3>5, <4>1, <4>2
    <3> QED  BY <2>1, <3>3, <3>4, <3>5, ConnectsTo
  <2> QED  BY <2>2, <2>3 DEF EndpointOfOneReceiver
<1> QED  BY <1>1, CacheInvariant, PTL

\* espdrop_airdrop_mdns_merge forgets no record: a service whose PTR, SRV and
\* TXT and whose address have come in, in any packets and any order, is
\* complete, unless one of the tables was full of others.
THEOREM CompletedOnceHeard == Spec => []CompleteOnceHeard
<1>1. ASSUME CacheInv PROVE CompleteOnceHeard
  <2>1. TypeOK /\ Sources /\ ServicesKept /\ HostsKept /\ services \in Seq(Service)
    BY <1>1 DEF CacheInv, TypeOK
  <2> SUFFICES ASSUME NEW i \in Instances,
                      \A type \in {"PTR", "SRV", "TXT"} :
                            \E x \in heard : x[1] = type /\ x[2] = i,
                      Holds(services, i) \/ Len(services) # MaxServices
               PROVE  \E s \in ToSet(services) : s.instance = i /\
                        \/ service_complete(s)
                        \/ \A x \in heard : x[1] = "AAAA" => x[2] # s.target
                        \/ Len(hosts) = MaxHosts /\ AddressIn(hosts, s.target) = None
    BY DEF CompleteOnceHeard
  <2>2. PICK x \in heard : x[1] = "PTR" /\ x[2] = i
    OBVIOUS
  <2>3. PICK y \in heard : y[1] = "SRV" /\ y[2] = i
    OBVIOUS
  <2>4. PICK z \in heard : z[1] = "TXT" /\ z[2] = i
    OBVIOUS
  <2>5. Holds(services, i)
    BY <2>1, <2>2 DEF ServicesKept
  <2>6. PICK j \in 1 .. Len(services) : services[j].instance = i
    BY <2>1, <2>5 DEF Holds
  <2> DEFINE s == services[j]
  <2>7. s \in Service /\ s \in ToSet(services) /\ s.instance = i
    BY <2>1, <2>6 DEF ToSet
  <2>8. Marked(s, x) /\ Marked(s, y) /\ Marked(s, z)
    BY <2>1, <2>2, <2>3, <2>4, <2>6 DEF ServicesKept
  <2>9. s.has_ptr /\ s.has_srv /\ s.has_txt
    BY <2>2, <2>3, <2>4, <2>8 DEF Marked
  <2>10. s.port # 0
    <3>1. PICK r \in Receivers : ServiceOf(s, Past(r))
      BY <2>1, <2>6 DEF Sources
    <3>2. PICK e \in Past(r) : s.port = e.port
      BY <2>9, <3>1 DEF ServiceOf
    <3>3. e \in Life
      BY <2>1, PastIsOfOne
    <3> QED  BY <3>2, <3>3, MdnsAssumption DEF Life
  <2>11. s.ipv6 = None => AddressIn(hosts, s.target) = None
    BY <2>1, <2>6, <2>9 DEF HostsKept
  <2>12. CASE s.ipv6 # None
    <3>1. service_complete(s)
      BY <2>9, <2>10, <2>12 DEF service_complete, has_ipv6
    <3> HIDE DEF s
    <3> QED  BY <2>7, <3>1
  <2>13. CASE s.ipv6 = None
    <3>1. (\A w \in heard : w[1] = "AAAA" => w[2] # s.target)
          \/ (Len(hosts) = MaxHosts /\ AddressIn(hosts, s.target) = None)
      BY <2>1, <2>11, <2>13 DEF HostsKept
    <3> HIDE DEF s
    <3> QED  BY <2>7, <3>1
  <2> QED  BY <2>12, <2>13
<1> QED  BY <1>1, CacheInvariant, PTL

\* A receiver that came back is connected to as it is now once the cache has
\* its service after its earlier ones: publish_complete_service writes the
\* last one, and probe_airdrop_tcp finds it by the name that is published.
THEOREM ConnectedToCurrent == Spec => []ConnectsToCurrent
<1>1. ASSUME CacheInv PROVE ConnectsToCurrent
  <2> SUFFICES ASSUME NEW r \in Receivers, Known(r)
               PROVE  probe_airdrop_tcp(Now(r).ipv6) = <<Now(r).instance, Now(r).port>>
    BY DEF ConnectsToCurrent
  <2> DEFINE a == Now(r).ipv6
  <2>1. TypeOK /\ Sources /\ CurrentPublished /\ services \in Seq(Service)
    BY <1>1 DEF CacheInv, TypeOK
  <2>2. peers[a] = <<Now(r).instance, Now(r).port>>
    BY <2>1 DEF CurrentPublished
  <2>3. PICK i \in Complete(services, a) :
            /\ services[i].instance = Now(r).instance
            /\ \A k \in 1 .. life[r] - 1 :
                /\ Lives[r][k].instance # Now(r).instance
                /\ \A j \in DOMAIN services :
                    services[j].instance = Lives[r][k].instance => j < i
    BY DEF Known
  <2>4. a \in Addresses
    BY <2>1, PastIsOfOne DEF Life
  <2>5. \A j \in 1 .. Len(services) : \E q \in Receivers : ServiceOf(services[j], Past(q))
    BY <2>1 DEF Sources
  <2>6. PICK m \in Complete(services, a) :
            /\ services[m].instance = Now(r).instance
            /\ probe_airdrop_tcp(a) = <<services[m].instance, services[m].port>>
    <3> HIDE DEF a
    <3>1. peers[a][1] = Now(r).instance
      BY <2>2
    <3> QED  BY <2>1, <2>3, <2>4, <3>1, ConnectsTo
  <2>7. <<services[m].instance, services[m].port>> = <<Now(r).instance, Now(r).port>>
    BY <2>1, <2>3, <2>5, <2>6, CompleteIsCurrent DEF a
  <2> QED  BY <2>6, <2>7 DEF a
<1> QED  BY <1>1, CacheInvariant, PTL

=============================================================================
