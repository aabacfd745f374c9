------------------------- MODULE AwdlElectionProofs -------------------------
(***************************************************************************)
(* The election of a relay among any devices, whatever they announce, in   *)
(* whatever order their MIFs come in and expire.                           *)
(***************************************************************************)
EXTENDS AwdlElection, WellFoundedInduction, TLAPS

\* A set that has 0 and with every number below n the next one has all numbers
\* up to n: induction over a loop.
LEMMA UpTo ==
    ASSUME NEW n \in Nat, NEW S, 0 \in S, \A i \in 1 .. n : i - 1 \in S => i \in S
    PROVE  \A i \in 0 .. n : i \in S
<1> DEFINE Missing == {i \in Nat : i <= n /\ i \notin S}
<1> SUFFICES ASSUME Missing # {} PROVE FALSE
  OBVIOUS
<1>1. PICK m \in Missing : \A k \in Missing : ~(<<k, m>> \in OpToRel(<, Nat))
  BY NatLessThanWellFounded, WFMin
<1>2. m \in 1 .. n /\ m - 1 \in Nat /\ m - 1 <= n /\ m - 1 < m
  <2>1. m \in Nat /\ m <= n /\ m \notin S
    BY <1>1
  <2>2. m # 0
    BY <2>1
  <2> QED  BY <2>1, <2>2
<1>3. m - 1 \notin Missing
  BY <1>1, <1>2 DEF OpToRel
<1> QED  BY <1>1, <1>2, <1>3

-----------------------------------------------------------------------------
(***************************************************************************)
(* Compaction of a table.                                                  *)
(***************************************************************************)

\* left is what the loop of Compact has after each of the first n entries.
Compacts(left, table, keep, n) ==
    left = [i \in 0 .. n |->
                IF i = 0 THEN <<>>
                ELSE IF i \in keep THEN Append(left[i - 1], table[i]) ELSE left[i - 1]]

\* The loop has a result after every number of entries.
LEMMA CompactionDefined ==
    ASSUME NEW table, NEW keep, NEW n \in Nat
    PROVE  \E left : Compacts(left, table, keep, n)
<1> DEFINE Defined == {m \in 0 .. n : \E left : Compacts(left, table, keep, m)}
<1>1. 0 \in Defined
  <2>1. Compacts([i \in 0 .. 0 |-> <<>>], table, keep, 0)
    BY DEF Compacts
  <2> QED  BY <2>1
<1>2. ASSUME NEW m \in 1 .. n, m - 1 \in Defined
      PROVE  m \in Defined
  <2>1. PICK left : Compacts(left, table, keep, m - 1)
    BY <1>2
  <2> DEFINE more == [i \in 0 .. m |->
                        IF i < m THEN left[i]
                        ELSE IF m \in keep THEN Append(left[m - 1], table[m]) ELSE left[m - 1]]
  <2>2. Compacts(more, table, keep, m)
    <3> SUFFICES ASSUME NEW i \in 0 .. m
                 PROVE  more[i] = IF i = 0 THEN <<>>
                                  ELSE IF i \in keep THEN Append(more[i - 1], table[i])
                                  ELSE more[i - 1]
      BY DEF Compacts
    <3>1. CASE i = m
      BY <3>1
    <3>2. CASE i # m
      <4>1. i \in 0 .. m - 1 /\ more[i] = left[i] /\ (i # 0 => more[i - 1] = left[i - 1])
        BY <3>2
      <4>2. left[i] = IF i = 0 THEN <<>>
                      ELSE IF i \in keep THEN Append(left[i - 1], table[i]) ELSE left[i - 1]
        BY <2>1, <4>1 DEF Compacts
      <4> HIDE DEF more
      <4> QED  BY <4>1, <4>2
    <3> QED  BY <3>1, <3>2
  <2> QED  BY <2>2
<1> HIDE DEF Defined
<1>3. n \in Defined
  BY <1>1, <1>2, UpTo
<1> QED  BY <1>3 DEF Defined

\* Compaction keeps entries of the table and adds none.
LEMMA CompactionKeeps ==
    ASSUME NEW S, NEW table \in Seq(S), NEW keep
    PROVE  Compact(table, keep) \in Seq(S) /\ Len(Compact(table, keep)) <= Len(table)
<1> DEFINE left == CHOOSE f : Compacts(f, table, keep, Len(table))
<1>1. Compacts(left, table, keep, Len(table))
  BY CompactionDefined
<1>2. Compact(table, keep) = left[Len(table)]
  BY DEF Compact, Compacts
<1> HIDE DEF left
<1>3. PICK n \in Nat : n = Len(table)
  OBVIOUS
<1> DEFINE Kept == {i \in 0 .. n : left[i] \in Seq(S) /\ Len(left[i]) <= i}
<1>4. 0 \in Kept
  <2>1. left[0] = <<>>
    BY <1>1, <1>3 DEF Compacts
  <2>2. <<>> \in Seq(S) /\ Len(<<>>) <= 0
    OBVIOUS
  <2>3. 0 \in 0 .. n
    OBVIOUS
  <2> QED  BY <2>1, <2>2, <2>3
<1>5. ASSUME NEW i \in 1 .. n, i - 1 \in Kept
      PROVE  i \in Kept
  <2>1. i \in 0 .. n /\ i - 1 \in 0 .. n /\ i # 0
    OBVIOUS
  <2>2. left[i] = IF i \in keep THEN Append(left[i - 1], table[i]) ELSE left[i - 1]
    BY <1>1, <1>3, <2>1 DEF Compacts
  <2>3. left[i - 1] \in Seq(S) /\ Len(left[i - 1]) <= i - 1 /\ table[i] \in S
    BY <1>3, <1>5
  <2>4. left[i] \in Seq(S) /\ Len(left[i]) <= i
    BY <2>2, <2>3
  <2> QED  BY <2>1, <2>4
<1> HIDE DEF Kept
<1>6. \A i \in 0 .. n : i \in Kept
  BY <1>4, <1>5, UpTo
<1> QED  BY <1>2, <1>3, <1>6 DEF Kept

-----------------------------------------------------------------------------
(***************************************************************************)
(* One election.                                                           *)
(***************************************************************************)

\* What the comparison reads of an entry.
Comparable(p) ==
    /\ p.address \in Nat
    /\ p.report.master_counter \in Nat /\ p.report.master_metric \in Nat
    /\ p.report.distance_to_master \in Nat

LEMMA PeersComparable ==
    ASSUME NEW p \in Peer
    PROVE  Comparable(p) /\ p.address \in Addresses /\ p.report \in Report
<1>1. p.address \in Addresses /\ p.report \in Report
  BY DEF Peer
<1>2. /\ p.report.master_counter \in Counters /\ p.report.master_metric \in Metrics
      /\ p.report.distance_to_master \in 0 .. TreeMaxHeight
  BY <1>1 DEF Report
<1>3. p.address \in Nat
  BY <1>1, ElectionAssumption DEF Addresses
<1>4. 0 .. TreeMaxHeight \subseteq Nat /\ Counters \subseteq Nat /\ Metrics \subseteq Nat
  BY ElectionAssumption
<1> QED  BY <1>1, <1>2, <1>3, <1>4 DEF Comparable

LEMMA CandidateComparable ==
    ASSUME NEW n \in Relays
    PROVE  /\ Comparable(Candidate(n)) /\ Candidate(n).address = n
           /\ SelfState(n) \in Report
BY ElectionAssumption DEF Candidate, SelfState, Report, Addresses, Comparable

\* Whoever is beaten by q is beaten by all that q does not beat: who has lost
\* against the best so far need not be looked at again.
LEMMA BetterIsAnOrder ==
    ASSUME NEW p, NEW q, NEW r, Comparable(p), Comparable(q), Comparable(r),
           Better(q, r), ~Better(p, r)
    PROVE  ~Better(p, q)
BY DEF Better, Comparable

LEMMA NoneBeatsItself ==
    ASSUME NEW p, Comparable(p)
    PROVE  ~Better(p, p)
BY DEF Better, Comparable

LEMMA BetterIsTransitive ==
    ASSUME NEW p, NEW q, NEW r, Comparable(p), Comparable(q), Comparable(r),
           Better(p, q), Better(q, r)
    PROVE  Better(p, r)
BY DEF Better, Comparable

\* best is whom the loop of run_election has after each of the first k entries.
Elects(best, n, table, k) ==
    best = [i \in 0 .. k |->
                IF i = 0 THEN Candidate(n)
                ELSE IF \E b \in {best[i - 1]} :
                            Eligible(n, table[i]) /\ Better(table[i], b)
                     THEN table[i] ELSE best[i - 1]]

\* The loop has a result after every number of entries.
LEMMA ElectionDefined ==
    ASSUME NEW n, NEW table, NEW k \in Nat
    PROVE  \E best : Elects(best, n, table, k)
<1> DEFINE Defined == {m \in 0 .. k : \E best : Elects(best, n, table, m)}
<1>1. 0 \in Defined
  <2>1. Elects([i \in 0 .. 0 |-> Candidate(n)], n, table, 0)
    BY DEF Elects
  <2> QED  BY <2>1
<1>2. ASSUME NEW m \in 1 .. k, m - 1 \in Defined
      PROVE  m \in Defined
  <2>1. PICK best : Elects(best, n, table, m - 1)
    BY <1>2
  <2> DEFINE Next1(b) == IF Eligible(n, table[m]) /\ Better(table[m], b) THEN table[m] ELSE b
             more == [i \in 0 .. m |-> IF i < m THEN best[i] ELSE Next1(best[m - 1])]
  <2>2. Elects(more, n, table, m)
    <3> SUFFICES ASSUME NEW i \in 0 .. m
                 PROVE  more[i] = IF i = 0 THEN Candidate(n)
                                  ELSE IF \E b \in {more[i - 1]} :
                                            Eligible(n, table[i]) /\ Better(table[i], b)
                                       THEN table[i] ELSE more[i - 1]
      BY DEF Elects
    <3>1. CASE i = m
      BY <3>1
    <3>2. CASE i # m
      <4>1. i \in 0 .. m - 1 /\ more[i] = best[i] /\ (i # 0 => more[i - 1] = best[i - 1])
        BY <3>2
      <4>2. best[i] = IF i = 0 THEN Candidate(n)
                      ELSE IF \E b \in {best[i - 1]} :
                                Eligible(n, table[i]) /\ Better(table[i], b)
                           THEN table[i] ELSE best[i - 1]
        BY <2>1, <4>1 DEF Elects
      <4> HIDE DEF more
      <4> QED  BY <4>1, <4>2
    <3> QED  BY <3>1, <3>2
  <2> QED  BY <2>2
<1> HIDE DEF Defined
<1>3. \A i \in 0 .. k : i \in Defined
  BY <1>1, <1>2, UpTo
<1> QED  BY <1>3 DEF Defined

\* No eligible one of the first k entries beats b.
Unbeaten(b, n, table, k) ==
    \A j \in 1 .. k : Eligible(n, table[j]) => ~Better(table[j], b)

\* b is the relay itself, or an eligible one of the first k entries that beats it.
Electable(b, n, table, k) ==
    \/ b = Candidate(n)
    \/ \E j \in 1 .. k : b = table[j] /\ Eligible(n, b) /\ Better(b, Candidate(n))

\* One round of the loop: the best so far stays the best or makes way for one
\* that beats it, and whoever lost against it loses against that one too.
LEMMA Round ==
    ASSUME NEW n \in Relays, NEW table \in Seq(Peer), NEW k \in 1 .. Len(table),
           NEW b, Electable(b, n, table, k - 1), Unbeaten(b, n, table, k - 1),
           NEW c, c = IF Eligible(n, table[k]) /\ Better(table[k], b)
                      THEN table[k] ELSE b
    PROVE  Electable(c, n, table, k) /\ Unbeaten(c, n, table, k)
<1>1. \A j \in 1 .. k : table[j] \in Peer
  OBVIOUS
<1>2. \A j \in 1 .. k : Comparable(table[j])
  BY <1>1, PeersComparable
<1>3. Comparable(Candidate(n))
  BY CandidateComparable
<1>4. k \in 1 .. k /\ \A j \in 1 .. k : j \in 1 .. k - 1 \/ j = k
  OBVIOUS
<1>5. \A j \in 1 .. k - 1 : j \in 1 .. k
  OBVIOUS
<1>6. Comparable(b) /\ (b = Candidate(n) \/ Better(b, Candidate(n)))
  BY <1>2, <1>3, <1>5 DEF Electable
<1>7. CASE Eligible(n, table[k]) /\ Better(table[k], b)
  <2>1. c = table[k] /\ Comparable(c)
    BY <1>2, <1>4, <1>7
  <2>2. Better(c, Candidate(n))
    BY <1>3, <1>6, <1>7, <2>1, BetterIsTransitive
  <2>3. ASSUME NEW j \in 1 .. k, Eligible(n, table[j])
        PROVE  ~Better(table[j], c)
    <3>1. CASE j = k
      BY <2>1, <3>1, NoneBeatsItself
    <3>2. CASE j \in 1 .. k - 1
      <4>1. ~Better(table[j], b) /\ Comparable(table[j])
        BY <1>2, <2>3, <3>2 DEF Unbeaten
      <4> QED  BY <1>6, <1>7, <2>1, <4>1, BetterIsAnOrder
    <3> QED  BY <1>4, <3>1, <3>2
  <2> QED  BY <1>4, <1>7, <2>1, <2>2, <2>3 DEF Electable, Unbeaten
<1>8. CASE ~(Eligible(n, table[k]) /\ Better(table[k], b))
  <2>1. c = b
    BY <1>8
  <2>2. Electable(c, n, table, k)
    BY <1>5, <2>1 DEF Electable
  <2>3. Unbeaten(c, n, table, k)
    BY <1>4, <1>8, <2>1 DEF Unbeaten
  <2> QED  BY <2>2, <2>3
<1> QED  BY <1>7, <1>8

\* s is the state the table calls for: below an eligible entry that beats the
\* relay and that no eligible one beats, or the relay's own if none beats it.
Elected(n, table, s) ==
    \/ /\ s = SelfState(n)
       /\ Unbeaten(Candidate(n), n, table, Len(table))
    \/ \E i \in 1 .. Len(table) :
          /\ s = Below(table[i])
          /\ Eligible(n, table[i]) /\ Better(table[i], Candidate(n))
          /\ Unbeaten(table[i], n, table, Len(table))

\* run_election elects the state its table calls for.
LEMMA ElectionIsRight ==
    ASSUME NEW n \in Relays, NEW table \in Seq(Peer),
           \A i \in 1 .. Len(table) : table[i].address # n
    PROVE  Elected(n, table, run_election(n, table))
<1> DEFINE best == CHOOSE f : Elects(f, n, table, Len(table))
<1>1. Elects(best, n, table, Len(table))
  BY ElectionDefined
<1>2. run_election(n, table) =
        IF best[Len(table)].address = n THEN SelfState(n) ELSE Below(best[Len(table)])
  BY DEF run_election, Elects
<1> HIDE DEF best
<1>3. PICK k \in Nat : k = Len(table)
  OBVIOUS
<1> DEFINE Right == {i \in 0 .. k : /\ Electable(best[i], n, table, i)
                                    /\ Unbeaten(best[i], n, table, i)}
<1>4. 0 \in Right
  <2>1. best[0] = Candidate(n)
    BY <1>1, <1>3 DEF Elects
  <2>2. 0 \in 0 .. k /\ 1 .. 0 = {}
    OBVIOUS
  <2> QED  BY <2>1, <2>2 DEF Electable, Unbeaten
<1>5. ASSUME NEW i \in 1 .. k, i - 1 \in Right
      PROVE  i \in Right
  <2>1. i \in 0 .. k /\ i # 0 /\ i \in 1 .. Len(table)
    BY <1>3
  <2>2. best[i] = IF Eligible(n, table[i]) /\ Better(table[i], best[i - 1])
                  THEN table[i] ELSE best[i - 1]
    BY <1>1, <1>3, <2>1 DEF Elects
  <2>3. Electable(best[i - 1], n, table, i - 1) /\ Unbeaten(best[i - 1], n, table, i - 1)
    BY <1>5
  <2>4. Electable(best[i], n, table, i) /\ Unbeaten(best[i], n, table, i)
    BY <2>1, <2>2, <2>3, Round
  <2> QED  BY <2>1, <2>4
<1> HIDE DEF Right
<1>6. \A i \in 0 .. k : i \in Right
  BY <1>4, <1>5, UpTo
<1>7. Electable(best[k], n, table, k) /\ Unbeaten(best[k], n, table, k)
  BY <1>6 DEF Right
<1>8. CASE best[k] = Candidate(n)
  BY <1>2, <1>3, <1>7, <1>8, CandidateComparable DEF Elected
<1>9. CASE best[k] # Candidate(n)
  <2>1. PICK j \in 1 .. k : best[k] = table[j] /\ Eligible(n, best[k])
                             /\ Better(best[k], Candidate(n))
    BY <1>7, <1>9 DEF Electable
  <2>2. run_election(n, table) = Below(table[j])
    BY <1>2, <1>3, <2>1
  <2> QED  BY <1>3, <1>7, <2>1, <2>2 DEF Elected
<1> QED  BY <1>8, <1>9

\* It is a report a relay may announce: no deeper than the limit.
LEMMA ElectedIsAReport ==
    ASSUME NEW n \in Relays, NEW table \in Seq(Peer), NEW s, Elected(n, table, s)
    PROVE  s \in Report
<1>1. CASE s = SelfState(n)
  BY <1>1, CandidateComparable
<1>2. CASE s # SelfState(n)
  <2>1. PICK i \in 1 .. Len(table) : s = Below(table[i]) /\ Eligible(n, table[i])
    BY <1>2 DEF Elected
  <2>2. table[i] \in Peer
    OBVIOUS
  <2>3. table[i].address \in Addresses /\ table[i].report \in Report
    BY <2>2, PeersComparable
  <2>4. table[i].report.distance_to_master + 1 \in 0 .. TreeMaxHeight
    BY <2>1, <2>3, ElectionAssumption DEF Eligible, Report
  <2> QED  BY <2>1, <2>3, <2>4 DEF Below, Report
<1> QED  BY <1>1, <1>2

\* The election does not look at ages: touching an entry, or time, leaves the
\* elected state the right one.
LEMMA AgesDoNotMatter ==
    ASSUME NEW n \in Relays, NEW table \in Seq(Peer), NEW aged \in Seq(Peer),
           Len(aged) = Len(table),
           \A i \in 1 .. Len(table) : /\ aged[i].address = table[i].address
                                     /\ aged[i].report = table[i].report,
           NEW s, Elected(n, table, s)
    PROVE  Elected(n, aged, s)
<1>1. \A i \in 1 .. Len(table) : /\ Eligible(n, aged[i]) <=> Eligible(n, table[i])
                                 /\ Below(aged[i]) = Below(table[i])
  BY DEF Eligible, Below
<1>2. \A i \in 1 .. Len(table) : \A q :
        /\ Better(aged[i], q) <=> Better(table[i], q)
        /\ Better(q, aged[i]) <=> Better(q, table[i])
  BY DEF Better
<1>3. ASSUME NEW q, Unbeaten(q, n, table, Len(table))
      PROVE  Unbeaten(q, n, aged, Len(aged))
  BY <1>1, <1>2, <1>3 DEF Unbeaten
<1>4. ASSUME NEW i \in 1 .. Len(table), Unbeaten(table[i], n, table, Len(table))
      PROVE  Unbeaten(aged[i], n, aged, Len(aged))
  BY <1>1, <1>2, <1>4 DEF Unbeaten
<1>5. CASE s = SelfState(n) /\ Unbeaten(Candidate(n), n, table, Len(table))
  BY <1>3, <1>5 DEF Elected
<1>6. CASE \E i \in 1 .. Len(table) :
             /\ s = Below(table[i])
             /\ Eligible(n, table[i]) /\ Better(table[i], Candidate(n))
             /\ Unbeaten(table[i], n, table, Len(table))
  <2>1. PICK i \in 1 .. Len(table) :
             /\ s = Below(table[i])
             /\ Eligible(n, table[i]) /\ Better(table[i], Candidate(n))
             /\ Unbeaten(table[i], n, table, Len(table))
    BY <1>6
  <2>2. /\ s = Below(aged[i])
        /\ Eligible(n, aged[i]) /\ Better(aged[i], Candidate(n))
        /\ Unbeaten(aged[i], n, aged, Len(aged))
    BY <1>1, <1>2, <1>4, <2>1
  <2> QED  BY <2>2 DEF Elected
<1> QED  BY <1>5, <1>6 DEF Elected

-----------------------------------------------------------------------------
(***************************************************************************)
(* The tables a relay keeps.                                               *)
(***************************************************************************)

\* What the table of n may hold: a relay does not hear itself.
Others(n) == {p \in Peer : p.address # n}

LEMMA EntryWritten ==
    ASSUME NEW S, NEW table \in Seq(S), NEW entry \in S, Len(table) <= MaxPeers
    PROVE  Enter(table, entry) \in Seq(S) /\ Len(Enter(table, entry)) <= MaxPeers
<1>1. CASE Knows(table, entry.address)
  <2> DEFINE over == [i \in DOMAIN table |->
                IF table[i].address = entry.address THEN entry ELSE table[i]]
  <2>1. Enter(table, entry) = over
    BY <1>1 DEF Enter
  <2>2. PICK k \in Nat : k = Len(table) /\ DOMAIN table = 1 .. k
    OBVIOUS
  <2>3. over \in [1 .. k -> S]
    BY <2>2
  <2>4. over \in Seq(S) /\ Len(over) = k
    BY <2>3
  <2> QED  BY <2>1, <2>2, <2>4
<1>2. CASE ~Knows(table, entry.address) /\ Len(table) < MaxPeers
  BY <1>2, ElectionAssumption DEF Enter
<1>3. CASE ~Knows(table, entry.address) /\ ~(Len(table) < MaxPeers)
  BY <1>3 DEF Enter
<1> QED  BY <1>1, <1>2, <1>3

\* A stored MIF, as TypeOK has it.
StoredMif == [source : Addresses, schedule : BOOLEAN]

LEMMA MifStored ==
    ASSUME NEW mifs \in Seq(StoredMif), Len(mifs) <= MaxPeers,
           NEW m \in Addresses, NEW schedule \in BOOLEAN
    PROVE  /\ Store(mifs, m, schedule) \in Seq(StoredMif)
           /\ Len(Store(mifs, m, schedule)) <= MaxPeers
<1> DEFINE others == Compact(mifs, {i \in DOMAIN mifs : mifs[i].source # m})
           room == IF Len(others) = MaxPeers THEN Tail(others) ELSE others
           new == [source |-> m, schedule |-> schedule]
<1>1. others \in Seq(StoredMif) /\ Len(others) <= Len(mifs)
  BY CompactionKeeps
<1>2. new \in StoredMif
  BY DEF StoredMif
<1>3. Store(mifs, m, schedule) = Append(room, new)
  BY DEF Store
<1> HIDE DEF others, new
<1>4. MaxPeers \in Nat /\ MaxPeers > 0
  BY ElectionAssumption
<1>5. room \in Seq(StoredMif) /\ Len(room) < MaxPeers
  <2>1. CASE Len(others) = MaxPeers
    <3>1. others # <<>>
      BY <1>4, <2>1
    <3>2. Tail(others) \in Seq(StoredMif) /\ Len(Tail(others)) = Len(others) - 1
      BY <1>1, <3>1
    <3> QED  BY <1>4, <2>1, <3>2
  <2>2. CASE Len(others) # MaxPeers
    BY <1>1, <1>4, <2>2
  <2> QED  BY <2>1, <2>2
<1> HIDE DEF room
<1>6. Append(room, new) \in Seq(StoredMif) /\ Len(Append(room, new)) = Len(room) + 1
  BY <1>2, <1>5
<1> QED  BY <1>3, <1>4, <1>5, <1>6

-----------------------------------------------------------------------------
(***************************************************************************)
(* The inductive invariant: the state of every relay is the one its table  *)
(* calls for, the table has no entry of the relay itself, and only a state *)
(* is announced.                                                           *)
(***************************************************************************)

Consistent(n) ==
    /\ peers[n] \in Seq(Others(n)) /\ Len(peers[n]) <= MaxPeers
    /\ Elected(n, peers[n], state[n])

\* Whoever transmits has a state to announce.
Announced == \A n \in transmitting : tx_state[n] \in Report

ElectionInv == TypeOK /\ Announced /\ \A n \in Relays : Consistent(n)

LEMMA OthersArePeers ==
    ASSUME NEW n, NEW table \in Seq(Others(n))
    PROVE  /\ table \in Seq(Peer)
           /\ \A i \in 1 .. Len(table) : table[i] \in Peer /\ table[i].address # n
<1>1. \A i \in 1 .. Len(table) : table[i] \in Others(n)
  OBVIOUS
<1>2. \A i \in 1 .. Len(table) : table[i] \in Peer /\ table[i].address # n
  BY <1>1 DEF Others
<1> QED  BY <1>2

LEMMA ElectionStarts == Init => ElectionInv
<1> SUFFICES ASSUME Init PROVE ElectionInv
  OBVIOUS
<1>1. ASSUME NEW n \in Relays
      PROVE  /\ peers[n] = <<>> /\ state[n] = SelfState(n)
             /\ peer_mifs[n] = <<>> /\ tx_state[n] = NoState
  BY DEF Init
<1>2. ASSUME NEW n \in Relays PROVE SelfState(n) \in Report
  BY CandidateComparable
<1>3. MaxPeers \in Nat /\ \A S : <<>> \in Seq(S)
  BY ElectionAssumption
<1>4. Len(<<>>) = 0 /\ 1 .. 0 = {}
  OBVIOUS
<1>5. TypeOK
  <2>1. /\ present \subseteq Beacons /\ tx_state \in [Relays -> Report \cup {NoState}]
        /\ transmitting \subseteq Relays
    BY DEF Init
  <2>2. state \in [Relays -> Report]
    BY <1>2 DEF Init
  <2>3. peers \in [Relays -> Seq(Peer)]
    BY <1>3 DEF Init
  <2>4. peer_mifs \in [Relays -> Seq([source : Addresses, schedule : BOOLEAN])]
    BY <1>3 DEF Init
  <2>5. \A n \in Relays : Len(peers[n]) <= MaxPeers /\ Len(peer_mifs[n]) <= MaxPeers
    BY <1>1, <1>3, <1>4
  <2> QED  BY <2>1, <2>2, <2>3, <2>4, <2>5 DEF TypeOK
<1>6. ASSUME NEW n \in Relays PROVE Consistent(n)
  <2>1. Elected(n, <<>>, SelfState(n))
    BY <1>4 DEF Elected, Unbeaten
  <2>2. <<>> \in Seq(Others(n)) /\ Len(<<>>) <= MaxPeers
    BY <1>3, <1>4
  <2> QED  BY <1>1, <2>1, <2>2 DEF Consistent
<1>7. Announced
  BY DEF Init, Announced
<1> QED  BY <1>5, <1>6, <1>7 DEF ElectionInv

\* A MIF of m: whatever expiry leaves of the table, whatever is written over.
LEMMA Observed ==
    ASSUME ElectionInv, NEW n \in Relays, NEW m \in Addresses, <<n, m>> \in Hears,
           NEW mif \in Mif, Observe(n, m, mif)
    PROVE  ElectionInv'
<1> DEFINE entry == [address |-> m, report |-> mif.report, age |-> 0]
           table == Enter(expire(peers[n]), entry)
           elected == run_election(n, table)
           mifs == Store(peer_mifs[n], m, mif.schedule)
<1>1. m # n
  BY ElectionAssumption
<1>2. mif.report \in Report /\ mif.schedule \in BOOLEAN
  BY DEF Mif
<1>3. entry \in Others(n)
  <2>1. 0 \in 0 .. Timeout + 1
    BY ElectionAssumption
  <2> QED  BY <1>1, <1>2, <2>1 DEF Others, Peer
<1>4. peers[n] \in Seq(Others(n)) /\ Len(peers[n]) <= MaxPeers
  BY DEF ElectionInv, Consistent
<1>5. expire(peers[n]) \in Seq(Others(n)) /\ Len(expire(peers[n])) <= Len(peers[n])
  BY <1>4, CompactionKeeps DEF expire
<1>6. Len(expire(peers[n])) <= MaxPeers
  BY <1>4, <1>5, ElectionAssumption
<1> HIDE DEF entry
<1>7. table \in Seq(Others(n)) /\ Len(table) <= MaxPeers
  BY <1>3, <1>5, <1>6, EntryWritten
<1>8. mifs \in Seq(StoredMif) /\ Len(mifs) <= MaxPeers
  <2>1. peer_mifs[n] \in Seq(StoredMif) /\ Len(peer_mifs[n]) <= MaxPeers
    BY DEF ElectionInv, TypeOK, StoredMif
  <2> QED  BY <1>2, <2>1, MifStored
<1>9. /\ peers' = [peers EXCEPT ![n] = table]
      /\ state' = [state EXCEPT ![n] = elected]
      /\ peer_mifs' = [peer_mifs EXCEPT ![n] = mifs]
      /\ tx_state' = [tx_state EXCEPT ![n] =
                IF Knows(table, m) /\ Usable(mifs, elected.sync_master)
                THEN elected ELSE @]
      /\ present' = present /\ transmitting' = transmitting
  BY DEF Observe, entry
<1> HIDE DEF table, mifs
<1>10. table \in Seq(Peer) /\ \A i \in 1 .. Len(table) : table[i].address # n
  BY <1>7, OthersArePeers
<1>11. Elected(n, table, elected)
  BY <1>10, ElectionIsRight
<1> HIDE DEF elected
<1>12. elected \in Report
  BY <1>10, <1>11, ElectedIsAReport
<1>13. TypeOK'
  <2>1. /\ peers \in [Relays -> Seq(Peer)] /\ state \in [Relays -> Report]
        /\ peer_mifs \in [Relays -> Seq(StoredMif)]
        /\ tx_state \in [Relays -> Report \cup {NoState}]
        /\ \A r \in Relays : Len(peers[r]) <= MaxPeers /\ Len(peer_mifs[r]) <= MaxPeers
        /\ present \subseteq Beacons /\ transmitting \subseteq Relays
    BY DEF ElectionInv, TypeOK, StoredMif
  <2>2. /\ peers' \in [Relays -> Seq(Peer)] /\ state' \in [Relays -> Report]
        /\ peer_mifs' \in [Relays -> Seq(StoredMif)]
    BY <1>8, <1>9, <1>10, <1>12, <2>1
  <2>3. tx_state' \in [Relays -> Report \cup {NoState}]
    BY <1>9, <1>12, <2>1
  <2>4. ASSUME NEW r \in Relays
        PROVE  Len(peers'[r]) <= MaxPeers /\ Len(peer_mifs'[r]) <= MaxPeers
    BY <1>7, <1>8, <1>9, <2>1
  <2> QED  BY <1>9, <2>1, <2>2, <2>3, <2>4 DEF TypeOK, StoredMif
<1>14. ASSUME NEW r \in Relays PROVE Consistent(r)'
  <2>1. CASE r = n
    <3>1. peers'[r] = table /\ state'[r] = elected
      BY <1>9, <2>1 DEF ElectionInv, TypeOK
    <3> QED  BY <1>7, <1>11, <2>1, <3>1 DEF Consistent
  <2>2. CASE r # n
    <3>1. peers'[r] = peers[r] /\ state'[r] = state[r]
      BY <1>9, <2>2 DEF ElectionInv, TypeOK
    <3> QED  BY <3>1 DEF ElectionInv, Consistent
  <2> QED  BY <2>1, <2>2
<1>15. Announced'
  <2>1. ASSUME NEW r \in transmitting PROVE tx_state'[r] \in Report
    <3>1. r \in Relays /\ tx_state[r] \in Report /\ tx_state \in [Relays -> Report \cup {NoState}]
      BY DEF ElectionInv, TypeOK, Announced
    <3> QED  BY <1>9, <1>12, <3>1
  <2> QED  BY <1>9, <2>1 DEF Announced
<1> QED  BY <1>13, <1>14, <1>15 DEF ElectionInv

\* A table whose entries only age keeps its relay consistent.
LEMMA Aged ==
    ASSUME NEW n \in Relays, NEW table \in Seq(Others(n)), NEW s, Elected(n, table, s),
           NEW aged \in [DOMAIN table -> Peer],
           \A i \in DOMAIN table : /\ aged[i].report = table[i].report
                                   /\ aged[i].address = table[i].address
    PROVE  /\ aged \in Seq(Others(n)) /\ Len(aged) = Len(table)
           /\ aged \in Seq(Peer)
           /\ Elected(n, aged, s)
<1>1. PICK k \in Nat : k = Len(table) /\ DOMAIN table = 1 .. k
  OBVIOUS
<1>2. \A i \in 1 .. k : table[i].address # n
  BY <1>1, OthersArePeers
<1>3. \A i \in 1 .. k : /\ aged[i] \in Others(n)
                        /\ aged[i].report = table[i].report
                        /\ aged[i].address = table[i].address
  BY <1>1, <1>2 DEF Others
<1>4. aged \in [1 .. k -> Others(n)]
  BY <1>1, <1>3
<1>5. aged \in Seq(Others(n)) /\ Len(aged) = k
  BY <1>4
<1>6. aged \in Seq(Peer) /\ table \in Seq(Peer)
  BY <1>5, OthersArePeers
<1>7. Elected(n, aged, s)
  BY <1>1, <1>3, <1>5, <1>6, AgesDoNotMatter
<1> QED  BY <1>1, <1>5, <1>6, <1>7

\* Touching an entry and time change ages and nothing the election reads.
LEMMA AgedTables ==
    ASSUME ElectionInv, UNCHANGED <<state, peer_mifs, tx_state, transmitting, present>>,
           peers' = [n \in Relays |-> peers'[n]],
           \A n \in Relays :
              /\ peers'[n] \in [DOMAIN peers[n] -> Peer]
              /\ \A i \in DOMAIN peers[n] :
                    /\ peers'[n][i].report = peers[n][i].report
                    /\ peers'[n][i].address = peers[n][i].address
    PROVE  ElectionInv'
<1>1. ASSUME NEW n \in Relays
      PROVE  /\ peers'[n] \in Seq(Others(n)) /\ Len(peers'[n]) = Len(peers[n])
             /\ peers'[n] \in Seq(Peer)
             /\ Elected(n, peers'[n], state[n])
  <2>1. peers[n] \in Seq(Others(n)) /\ Elected(n, peers[n], state[n])
    BY DEF ElectionInv, Consistent
  <2> QED  BY <2>1, Aged
<1>2. ASSUME NEW n \in Relays PROVE Consistent(n)'
  BY <1>1 DEF ElectionInv, Consistent
<1>3. peers' \in [Relays -> Seq(Peer)]
  BY <1>1
<1>4. \A n \in Relays : Len(peers'[n]) <= MaxPeers
  BY <1>1 DEF ElectionInv, TypeOK
<1> QED  BY <1>2, <1>3, <1>4 DEF ElectionInv, TypeOK, Announced

LEMMA Touched ==
    ASSUME ElectionInv, NEW n \in Relays, NEW m \in Addresses, Touch(n, m)
    PROVE  ElectionInv'
<1> DEFINE touched == [i \in DOMAIN peers[n] |->
            IF peers[n][i].address = m THEN [peers[n][i] EXCEPT !.age = 0] ELSE peers[n][i]]
<1>1. peers' = [peers EXCEPT ![n] = touched]
  BY DEF Touch
<1>2. peers \in [Relays -> Seq(Peer)]
  BY DEF ElectionInv, TypeOK
<1>3. 0 \in 0 .. Timeout + 1
  BY ElectionAssumption
<1>4. ASSUME NEW i \in DOMAIN peers[n]
      PROVE  /\ touched[i] \in Peer
             /\ touched[i].report = peers[n][i].report
             /\ touched[i].address = peers[n][i].address
  <2>1. peers[n][i] \in Peer
    BY <1>2
  <2> QED  BY <1>3, <2>1 DEF Peer
<1>5. touched \in [DOMAIN peers[n] -> Peer]
  BY <1>4
<1> HIDE DEF touched
<1>6. ASSUME NEW r \in Relays
      PROVE  /\ peers'[r] \in [DOMAIN peers[r] -> Peer]
             /\ \A i \in DOMAIN peers[r] :
                    /\ peers'[r][i].report = peers[r][i].report
                    /\ peers'[r][i].address = peers[r][i].address
  <2>1. CASE r = n
    BY <1>1, <1>2, <1>4, <1>5, <2>1
  <2>2. CASE r # n
    <3>1. peers'[r] = peers[r] /\ peers[r] \in Seq(Peer)
      BY <1>1, <1>2, <2>2
    <3> QED  BY <3>1
  <2> QED  BY <2>1, <2>2
<1>7. UNCHANGED <<state, peer_mifs, tx_state, transmitting, present>>
  BY DEF Touch
<1>8. peers' = [r \in Relays |-> peers'[r]]
  BY <1>1, <1>2
<1> QED  BY <1>6, <1>7, <1>8, AgedTables

LEMMA TimePassed ==
    ASSUME ElectionInv, Tick
    PROVE  ElectionInv'
<1>1. peers' = [n \in Relays |-> [i \in DOMAIN peers[n] |-> Older(peers[n][i])]]
  BY DEF Tick
<1>2. ASSUME NEW p \in Peer
      PROVE  Older(p) \in Peer /\ Older(p).report = p.report /\ Older(p).address = p.address
  <2>1. Timeout \in Nat /\ p.age \in 0 .. Timeout + 1
    BY ElectionAssumption DEF Peer
  <2>2. ~(p.age > Timeout) => p.age + 1 \in 0 .. Timeout + 1
    BY <2>1
  <2> QED  BY <2>2 DEF Older, Peer
<1>3. ASSUME NEW n \in Relays
      PROVE  /\ peers'[n] \in [DOMAIN peers[n] -> Peer]
             /\ \A i \in DOMAIN peers[n] :
                    /\ peers'[n][i].report = peers[n][i].report
                    /\ peers'[n][i].address = peers[n][i].address
  <2>1. peers'[n] = [i \in DOMAIN peers[n] |-> Older(peers[n][i])]
    BY <1>1
  <2>2. \A i \in DOMAIN peers[n] : peers[n][i] \in Peer
    BY DEF ElectionInv, TypeOK
  <2> QED  BY <1>2, <2>1, <2>2
<1>4. UNCHANGED <<state, peer_mifs, tx_state, transmitting, present>>
  BY DEF Tick
<1>5. peers' = [n \in Relays |-> peers'[n]]
  BY <1>1
<1> QED  BY <1>3, <1>4, <1>5, AgedTables

\* Every step keeps the tables and the elected states together.
LEMMA ElectionStep == ElectionInv /\ [Next]_vars => ElectionInv'
<1> SUFFICES ASSUME ElectionInv, [Next]_vars PROVE ElectionInv'
  OBVIOUS
<1>1. ASSUME NEW n \in Relays, NEW m \in Addresses, Hear(n, m) PROVE ElectionInv'
  <2>1. <<n, m>> \in Hears
    BY <1>1 DEF Hear
  <2>2. CASE HearBeacon(n, m)
    <3>1. PICK mif \in Mifs[m] : Observe(n, m, mif)
      BY <2>2 DEF HearBeacon
    <3>2. m \in Beacons
      BY <2>2 DEF HearBeacon, ElectionInv, TypeOK
    <3>3. mif \in Mif
      BY <3>2, ElectionAssumption
    <3> QED  BY <2>1, <3>1, <3>3, Observed
  <2>3. CASE HearRelay(n, m)
    <3>1. tx_state[m] \in Report
      BY <2>3 DEF HearRelay, ElectionInv, Announced
    <3>2. [report |-> tx_state[m], schedule |-> TRUE] \in Mif
      BY <3>1, Zenon DEF Mif
    <3> QED  BY <2>1, <2>3, <3>2, Observed DEF HearRelay
  <2> QED  BY <1>1, <2>2, <2>3 DEF Hear
<1>2. ASSUME NEW n \in Relays, NEW m \in Addresses, Touch(n, m) PROVE ElectionInv'
  BY <1>2, Touched
<1>3. CASE Tick
  BY <1>3, TimePassed
<1>4. ASSUME NEW b \in Leaving, Leave(b) PROVE ElectionInv'
  BY <1>4 DEF Leave, ElectionInv, TypeOK, Consistent, Announced
<1>5. ASSUME NEW n \in Relays, WorkerStarts(n) \/ WorkerEnds(n) PROVE ElectionInv'
  <2>1. UNCHANGED <<peers, state, peer_mifs, tx_state, present>>
    BY <1>5 DEF WorkerStarts, WorkerEnds
  <2>2. transmitting' \subseteq Relays /\ Announced'
    BY <1>5 DEF WorkerStarts, WorkerEnds, ElectionInv, TypeOK, Announced
  <2> QED  BY <2>1, <2>2 DEF ElectionInv, TypeOK, Consistent
<1>6. CASE UNCHANGED vars
  BY <1>6 DEF vars, ElectionInv, TypeOK, Consistent, Announced
<1> QED  BY <1>1, <1>2, <1>3, <1>4, <1>5, <1>6 DEF Next

\* The table a relay has is always the one its state was elected from.
THEOREM ElectionInvariant == Safety => []ElectionInv
BY ElectionStarts, ElectionStep, PTL DEF Safety

\* Tables and stored MIFs keep to their places, and nobody announces a tree
\* deeper than the limit, whatever the other devices send.
THEOREM ElectionTypes == Safety => []TypeOK
<1>1. ElectionInv => TypeOK
  BY DEF ElectionInv
<1> QED  BY <1>1, ElectionInvariant, PTL

LEMMA ConsistentElectsBest == ElectionInv => ElectsBest
<1> SUFFICES ASSUME ElectionInv, NEW n \in Relays
             PROVE  /\ state[n].distance_to_master <= TreeMaxHeight
                    /\ LET eligible == {p \in ToSet(peers[n]) : Eligible(n, p)}
                           stronger == {p \in eligible : Better(p, Candidate(n))}
                       IN  IF stronger = {} THEN state[n] = SelfState(n)
                           ELSE \E p \in stronger :
                                   /\ \A q \in stronger : ~Better(q, p)
                                   /\ state[n] = Below(p)
  BY DEF ElectsBest
<1> DEFINE stronger == {p \in {q \in ToSet(peers[n]) : Eligible(n, q)} :
                          Better(p, Candidate(n))}
<1>1. state[n].distance_to_master <= TreeMaxHeight
  <2>1. state[n].distance_to_master \in 0 .. TreeMaxHeight
    BY DEF ElectionInv, TypeOK, Report
  <2> QED  BY <2>1, ElectionAssumption
<1>2. PICK k \in Nat : k = Len(peers[n]) /\ DOMAIN peers[n] = 1 .. k
  BY DEF ElectionInv, TypeOK
<1>3. \A p : p \in stronger <=> \E i \in 1 .. k : /\ p = peers[n][i] /\ Eligible(n, p)
                                                  /\ Better(p, Candidate(n))
  BY <1>2 DEF ToSet
<1> HIDE DEF stronger
<1>4. Elected(n, peers[n], state[n])
  BY DEF ElectionInv, Consistent
<1>5. CASE state[n] = SelfState(n) /\ Unbeaten(Candidate(n), n, peers[n], Len(peers[n]))
  <2>1. stronger = {}
    BY <1>2, <1>3, <1>5 DEF Unbeaten
  <2> QED  BY <1>1, <1>5, <2>1 DEF stronger
<1>6. ASSUME NEW i \in 1 .. k, state[n] = Below(peers[n][i]),
             Eligible(n, peers[n][i]), Better(peers[n][i], Candidate(n)),
             Unbeaten(peers[n][i], n, peers[n], k)
      PROVE  peers[n][i] \in stronger /\ \A q \in stronger : ~Better(q, peers[n][i])
  BY <1>3, <1>6 DEF Unbeaten
<1>7. CASE \E p \in stronger : state[n] = Below(p) /\ \A q \in stronger : ~Better(q, p)
  <2>1. stronger # {}
    BY <1>7
  <2> QED  BY <1>1, <1>7, <2>1 DEF stronger
<1> QED  BY <1>2, <1>4, <1>5, <1>6, <1>7 DEF Elected

\* At every moment the state of a relay is the one its table calls for, also
\* after expiry has moved the table under the parent it selected.
THEOREM RelaysElectTheBest == Safety => []ElectsBest
BY ConsistentElectsBest, ElectionInvariant, PTL

=============================================================================
