-------------------------- MODULE PeerTableProofs --------------------------
(***************************************************************************)
(* The peer table and the decisions made from it, for any peers, any       *)
(* strengths and any policy, in whatever order frames are processed.       *)
(***************************************************************************)
EXTENDS PeerTable, WellFoundedInduction, TLAPS

\* A set that has 0 and with every number below n the next one has all numbers
\* up to n: induction over a loop.
LEMMA UpTo ==
    ASSUME NEW n \in Nat, NEW S, 0 \in S, \A i \in 1 .. n : i - 1 \in S => i \in S
    PROVE  \A i \in 0 .. n : i \in S
<1> DEFINE Missing == {i \in Nat : i <= n /\ i \notin S}
<1> SUFFICES ASSUME Missing # {} PROVE FALSE
  OBVIOUS
<1>1. PICK m \in Missing : \A k \in Missing : ~(<<k, m>> \in OpToRel(<, Nat))
  BY NatLessThanWellFounded, WFMin
<1>2. m \in 1 .. n /\ m - 1 \in Nat /\ m - 1 <= n /\ m - 1 < m
  <2>1. m \in Nat /\ m <= n /\ m \notin S
    BY <1>1
  <2>2. m # 0
    BY <2>1
  <2> QED  BY <2>1, <2>2
<1>3. m - 1 \notin Missing
  BY <1>1, <1>2 DEF OpToRel
<1> QED  BY <1>1, <1>2, <1>3

-----------------------------------------------------------------------------
(***************************************************************************)
(* Compaction of a table.                                                  *)
(***************************************************************************)

\* left is what the loop of Compact has after each of the first n entries.
Compacts(left, table, keep, n) ==
    left = [i \in 0 .. n |->
                IF i = 0 THEN <<>>
                ELSE IF i \in keep THEN Append(left[i - 1], table[i]) ELSE left[i - 1]]

\* The loop has a result after every number of entries.
LEMMA CompactionDefined ==
    ASSUME NEW table, NEW keep, NEW n \in Nat
    PROVE  \E left : Compacts(left, table, keep, n)
<1> DEFINE Defined == {m \in 0 .. n : \E left : Compacts(left, table, keep, m)}
<1>1. 0 \in Defined
  <2>1. Compacts([i \in 0 .. 0 |-> <<>>], table, keep, 0)
    BY DEF Compacts
  <2> QED  BY <2>1
<1>2. ASSUME NEW m \in 1 .. n, m - 1 \in Defined
      PROVE  m \in Defined
  <2>1. PICK left : Compacts(left, table, keep, m - 1)
    BY <1>2
  <2> DEFINE more == [i \in 0 .. m |->
                        IF i < m THEN left[i]
                        ELSE IF m \in keep THEN Append(left[m - 1], table[m]) ELSE left[m - 1]]
  <2>2. Compacts(more, table, keep, m)
    <3> SUFFICES ASSUME NEW i \in 0 .. m
                 PROVE  more[i] = IF i = 0 THEN <<>>
                                  ELSE IF i \in keep THEN Append(more[i - 1], table[i])
                                  ELSE more[i - 1]
      BY DEF Compacts
    <3>1. CASE i = m
      BY <3>1
    <3>2. CASE i # m
      <4>1. i \in 0 .. m - 1 /\ more[i] = left[i] /\ (i # 0 => more[i - 1] = left[i - 1])
        BY <3>2
      <4>2. left[i] = IF i = 0 THEN <<>>
                      ELSE IF i \in keep THEN Append(left[i - 1], table[i]) ELSE left[i - 1]
        BY <2>1, <4>1 DEF Compacts
      <4> HIDE DEF more
      <4> QED  BY <4>1, <4>2
    <3> QED  BY <3>1, <3>2
  <2> QED  BY <2>2
<1> HIDE DEF Defined
<1>3. n \in Defined
  BY <1>1, <1>2, UpTo
<1> QED  BY <1>3 DEF Defined

\* The ids of a table are distinct.
Distinct(table) ==
    \A a, b \in 1 .. Len(table) : table[a].id = table[b].id => a = b

\* Compaction adds no entry and leaves one entry for each peer.
LEMMA CompactionKeeps ==
    ASSUME NEW S, NEW table \in Seq(S), NEW keep, Distinct(table)
    PROVE  /\ Compact(table, keep) \in Seq(S)
           /\ Len(Compact(table, keep)) <= Len(table)
           /\ Distinct(Compact(table, keep))
<1> DEFINE left == CHOOSE f : Compacts(f, table, keep, Len(table))
<1>1. Compacts(left, table, keep, Len(table))
  BY CompactionDefined
<1>2. Compact(table, keep) = left[Len(table)]
  BY DEF Compact, Compacts
<1> HIDE DEF left
<1>3. PICK n \in Nat : n = Len(table)
  OBVIOUS
<1> DEFINE Of(t, i) == \A a \in 1 .. Len(t) : \E j \in 1 .. i : t[a] = table[j]
           Kept == {i \in 0 .. n : /\ left[i] \in Seq(S) /\ Len(left[i]) <= i
                                   /\ Of(left[i], i) /\ Distinct(left[i])}
<1>4. 0 \in Kept
  <2>1. left[0] = <<>>
    BY <1>1, <1>3 DEF Compacts
  <2>2. <<>> \in Seq(S) /\ Len(<<>>) <= 0 /\ 1 .. Len(<<>>) = {}
    OBVIOUS
  <2>3. 0 \in 0 .. n
    OBVIOUS
  <2>4. Of(<<>>, 0) /\ Distinct(<<>>)
    BY <2>2 DEF Distinct
  <2> QED  BY <2>1, <2>2, <2>3, <2>4
<1>5. ASSUME NEW i \in 1 .. n, i - 1 \in Kept
      PROVE  i \in Kept
  <2>1. i \in 0 .. n /\ i - 1 \in 0 .. n /\ i # 0 /\ i \in 1 .. i
    OBVIOUS
  <2>2. left[i] = IF i \in keep THEN Append(left[i - 1], table[i]) ELSE left[i - 1]
    BY <1>1, <1>3, <2>1 DEF Compacts
  <2> DEFINE t == left[i - 1]
  <2>3. t \in Seq(S) /\ Len(t) <= i - 1 /\ Of(t, i - 1) /\ Distinct(t) /\ table[i] \in S
    BY <1>3, <1>5
  <2>4. \A j \in 1 .. i - 1 : j \in 1 .. i /\ j # i /\ j \in 1 .. Len(table) /\ i \in 1 .. Len(table)
    BY <1>3
  <2> HIDE DEF t
  <2>5. CASE i \in keep
    <3> DEFINE u == Append(t, table[i])
    <3>1. left[i] = u
      BY <2>2, <2>5 DEF t
    <3>2. u \in Seq(S) /\ Len(u) = Len(t) + 1 /\ Len(u) <= i
      BY <2>3
    <3>3. \A a \in 1 .. Len(u) : \/ a \in 1 .. Len(t) /\ u[a] = t[a]
                                 \/ a = Len(u) /\ u[a] = table[i]
      BY <2>3
    <3> HIDE DEF u
    <3>4. Of(u, i)
      BY <2>1, <2>3, <2>4, <3>3
    <3>5. \A a \in 1 .. Len(t) : t[a].id # table[i].id
      BY <2>3, <2>4 DEF Distinct
    <3>6. Distinct(u)
      <4> SUFFICES ASSUME NEW a \in 1 .. Len(u), NEW b \in 1 .. Len(u), u[a].id = u[b].id
                   PROVE  a = b
        BY DEF Distinct
      <4> QED  BY <2>3, <3>3, <3>5 DEF Distinct
    <3> QED  BY <2>1, <3>1, <3>2, <3>4, <3>6
  <2>6. CASE i \notin keep
    <3>1. left[i] = t
      BY <2>2, <2>6 DEF t
    <3>2. Len(t) <= i
      BY <2>3
    <3>3. Of(t, i)
      BY <2>3, <2>4
    <3> QED  BY <2>1, <2>3, <3>1, <3>2, <3>3
  <2> QED  BY <2>5, <2>6
<1> HIDE DEF Kept
<1>6. \A i \in 0 .. n : i \in Kept
  BY <1>4, <1>5, UpTo
<1> QED  BY <1>2, <1>3, <1>6 DEF Kept

-----------------------------------------------------------------------------
(***************************************************************************)
(* The loop that finds the best candidate and the runner-up.               *)
(***************************************************************************)

\* rank is what the loop of Ranked has after each of the first n entries.
Ranks(rank, candidates, strength, n) ==
    rank = [i \in 0 .. n |->
                IF i = 0 THEN [best |-> 0, runner_up |-> 0]
                ELSE IF i \in candidates THEN Rank(rank[i - 1], i, strength)
                     ELSE rank[i - 1]]

\* The loop has a result after every number of entries.
LEMMA RankingDefined ==
    ASSUME NEW candidates, NEW strength, NEW n \in Nat
    PROVE  \E rank : Ranks(rank, candidates, strength, n)
<1> DEFINE Defined == {m \in 0 .. n : \E rank : Ranks(rank, candidates, strength, m)}
<1>1. 0 \in Defined
  <2>1. Ranks([i \in 0 .. 0 |-> [best |-> 0, runner_up |-> 0]], candidates, strength, 0)
    BY DEF Ranks
  <2> QED  BY <2>1
<1>2. ASSUME NEW m \in 1 .. n, m - 1 \in Defined
      PROVE  m \in Defined
  <2>1. PICK rank : Ranks(rank, candidates, strength, m - 1)
    BY <1>2
  <2> DEFINE more == [i \in 0 .. m |->
                        IF i < m THEN rank[i]
                        ELSE IF m \in candidates THEN Rank(rank[m - 1], m, strength)
                        ELSE rank[m - 1]]
  <2>2. Ranks(more, candidates, strength, m)
    <3> SUFFICES ASSUME NEW i \in 0 .. m
                 PROVE  more[i] = IF i = 0 THEN [best |-> 0, runner_up |-> 0]
                                  ELSE IF i \in candidates THEN Rank(more[i - 1], i, strength)
                                  ELSE more[i - 1]
      BY DEF Ranks
    <3>1. CASE i = m
      BY <3>1
    <3>2. CASE i # m
      <4>1. i \in 0 .. m - 1 /\ more[i] = rank[i] /\ (i # 0 => more[i - 1] = rank[i - 1])
        BY <3>2
      <4>2. rank[i] = IF i = 0 THEN [best |-> 0, runner_up |-> 0]
                      ELSE IF i \in candidates THEN Rank(rank[i - 1], i, strength)
                      ELSE rank[i - 1]
        BY <2>1, <4>1 DEF Ranks
      <4> HIDE DEF more
      <4> QED  BY <4>1, <4>2
    <3> QED  BY <3>1, <3>2
  <2> QED  BY <2>2
<1> HIDE DEF Defined
<1>3. n \in Defined
  BY <1>1, <1>2, UpTo
<1> QED  BY <1>3 DEF Defined

\* Nobody among the first n entries is stronger than the best, and nobody but
\* the best is stronger than the runner-up.
Podium(r, candidates, strength, n) ==
    LET seen == candidates \cap (1 .. n)
    IN  /\ r = [best |-> r.best, runner_up |-> r.runner_up]
        /\ IF r.best = 0 THEN seen = {} /\ r.runner_up = 0
           ELSE /\ r.best \in seen
                /\ \A j \in seen : strength[j] <= strength[r.best]
                /\ IF r.runner_up = 0 THEN seen \subseteq {r.best}
                   ELSE /\ r.runner_up \in seen \ {r.best}
                        /\ \A j \in seen \ {r.best} :
                                strength[j] <= strength[r.runner_up]

\* One round of the loop.
LEMMA Round ==
    ASSUME NEW n \in Nat, NEW candidates, NEW strength \in [1 .. n -> Int],
           NEW i \in 1 .. n, NEW r, Podium(r, candidates, strength, i - 1)
    PROVE  Podium(IF i \in candidates THEN Rank(r, i, strength) ELSE r,
                  candidates, strength, i)
<1> DEFINE before == candidates \cap (1 .. i - 1)
           seen == candidates \cap (1 .. i)
<1>1. r = [best |-> r.best, runner_up |-> r.runner_up]
  BY DEF Podium
<1>2. \A j : j \in seen <=> j \in before \/ (j = i /\ i \in candidates)
  OBVIOUS
<1>3. 0 \notin before /\ i \notin before /\ i # 0
  OBVIOUS
<1>4. \A j \in before : strength[j] \in Int
  OBVIOUS
<1>5. strength[i] \in Int
  OBVIOUS
<1>6. IF r.best = 0 THEN before = {} /\ r.runner_up = 0
      ELSE /\ r.best \in before
           /\ \A j \in before : strength[j] <= strength[r.best]
           /\ IF r.runner_up = 0 THEN before \subseteq {r.best}
              ELSE /\ r.runner_up \in before \ {r.best}
                   /\ \A j \in before \ {r.best} :
                        strength[j] <= strength[r.runner_up]
  BY DEF Podium
<1> HIDE DEF before, seen
<1>7. CASE i \notin candidates
  <2>1. seen = before
    BY <1>2, <1>7
  <2> QED  BY <1>1, <1>6, <1>7, <2>1 DEF Podium, seen
<1>8. CASE i \in candidates /\ (r.best = 0 \/ strength[i] > strength[r.best])
  <2>1. Rank(r, i, strength) = [best |-> i, runner_up |-> r.best]
    BY <1>8 DEF Rank
  <2>2. i \in seen /\ \A j \in seen : strength[j] <= strength[i]
    BY <1>2, <1>4, <1>5, <1>6, <1>8
  <2>3. r.best = 0 => seen \subseteq {i}
    BY <1>2, <1>6
  <2>4. r.best # 0 => /\ r.best \in seen \ {i}
                     /\ \A j \in seen \ {i} : strength[j] <= strength[r.best]
    BY <1>2, <1>3, <1>6
  <2> QED  BY <1>3, <1>8, <2>1, <2>2, <2>3, <2>4 DEF Podium, seen
<1>9. CASE i \in candidates /\ ~(r.best = 0 \/ strength[i] > strength[r.best])
  <2>1. r.best # 0 /\ r.best \in seen /\ \A j \in seen : strength[j] <= strength[r.best]
    BY <1>2, <1>4, <1>5, <1>6, <1>9
  <2>2. CASE r.runner_up = 0 \/ strength[i] > strength[r.runner_up]
    <3>1. Rank(r, i, strength) = [best |-> r.best, runner_up |-> i]
      BY <1>1, <1>9, <2>2 DEF Rank
    <3>2. i \in seen \ {r.best}
      BY <1>2, <1>3, <1>6, <1>9
    <3>3. \A j \in seen \ {r.best} : strength[j] <= strength[i]
      BY <1>2, <1>4, <1>5, <1>6, <1>9, <2>2
    <3> QED  BY <1>3, <1>9, <2>1, <3>1, <3>2, <3>3 DEF Podium, seen
  <2>3. CASE ~(r.runner_up = 0 \/ strength[i] > strength[r.runner_up])
    <3>1. Rank(r, i, strength) = r
      BY <1>9, <2>3 DEF Rank
    <3>2. r.runner_up # 0 /\ r.runner_up \in seen \ {r.best}
      BY <1>2, <1>6, <2>1, <2>3
    <3>3. \A j \in seen \ {r.best} : strength[j] <= strength[r.runner_up]
      BY <1>2, <1>4, <1>5, <1>6, <2>1, <2>3
    <3> QED  BY <1>1, <1>9, <2>1, <3>1, <3>2, <3>3 DEF Podium, seen
  <2> QED  BY <2>2, <2>3
<1> QED  BY <1>7, <1>8, <1>9

\* The result of the loop.
LEMMA RankingIsRight ==
    ASSUME NEW n \in Nat, n = Len(peers), NEW candidates,
           NEW strength \in [1 .. n -> Int]
    PROVE  Podium(Ranked(candidates, strength), candidates, strength, n)
<1> DEFINE rank == CHOOSE f : Ranks(f, candidates, strength, Len(peers))
<1>1. Ranks(rank, candidates, strength, Len(peers))
  BY RankingDefined
<1>2. Ranked(candidates, strength) = rank[n]
  BY DEF Ranked, Ranks
<1> HIDE DEF rank
<1> DEFINE Right == {i \in 0 .. n : Podium(rank[i], candidates, strength, i)}
<1>3. 0 \in Right
  <2>1. rank[0] = [best |-> 0, runner_up |-> 0]
    BY <1>1 DEF Ranks
  <2>2. 0 \in 0 .. n /\ candidates \cap (1 .. 0) = {}
    OBVIOUS
  <2> QED  BY <2>1, <2>2 DEF Podium
<1>4. ASSUME NEW i \in 1 .. n, i - 1 \in Right
      PROVE  i \in Right
  <2>1. i \in 0 .. n /\ i # 0
    OBVIOUS
  <2>2. rank[i] = IF i \in candidates THEN Rank(rank[i - 1], i, strength) ELSE rank[i - 1]
    BY <1>1, <2>1 DEF Ranks
  <2>3. Podium(rank[i - 1], candidates, strength, i - 1)
    BY <1>4
  <2>4. Podium(rank[i], candidates, strength, i)
    BY <2>2, <2>3, Round
  <2> QED  BY <2>1, <2>4
<1> HIDE DEF Right
<1>5. \A i \in 0 .. n : i \in Right
  BY <1>3, <1>4, UpTo
<1> QED  BY <1>2, <1>5 DEF Right

\* The leader is the one candidate that leads all others by the margin, if there
\* is one.
LEMMA LeaderIsDecisive ==
    ASSUME NEW n \in Nat, NEW candidates \in SUBSET (1 .. n),
           NEW strength \in [1 .. n -> Int], NEW margin \in Nat,
           NEW r, Podium(r, candidates, strength, n)
    PROVE  LET selected == Leader(r, strength, margin)
           IN  IF selected = 0
               THEN \A i \in candidates : ~Decisive(i, candidates, strength, margin)
               ELSE /\ selected \in candidates /\ selected = r.best
                    /\ Decisive(selected, candidates, strength, margin)
<1>1. candidates \cap (1 .. n) = candidates
  OBVIOUS
<1>2. \A i \in candidates : strength[i] \in Int /\ i # 0
  OBVIOUS
<1>3. IF r.best = 0 THEN candidates = {} /\ r.runner_up = 0
      ELSE /\ r.best \in candidates
           /\ \A j \in candidates : strength[j] <= strength[r.best]
           /\ IF r.runner_up = 0 THEN candidates \subseteq {r.best}
              ELSE /\ r.runner_up \in candidates \ {r.best}
                   /\ \A j \in candidates \ {r.best} :
                        strength[j] <= strength[r.runner_up]
  BY <1>1 DEF Podium
<1>4. CASE r.best = 0
  BY <1>3, <1>4 DEF Leader
<1>5. CASE r.best # 0 /\ r.runner_up = 0
  BY <1>3, <1>5 DEF Leader, Decisive
<1>6. CASE r.best # 0 /\ r.runner_up # 0
  <2> DEFINE b == strength[r.best]  u == strength[r.runner_up]
  <2>1. b \in Int /\ u \in Int /\ u <= b
    BY <1>2, <1>3, <1>6
  <2>2. CASE b - u < margin
    <3>1. Leader(r, strength, margin) = 0
      BY <1>6, <2>2 DEF Leader
    <3>2. ASSUME NEW i \in candidates
          PROVE  ~Decisive(i, candidates, strength, margin)
      <4>1. CASE i = r.best
        <5>1. r.runner_up \in candidates \ {i} /\ strength[i] = b
          BY <1>3, <1>6, <4>1
        <5>2. ~(strength[i] - u >= margin)
          BY <2>1, <2>2, <5>1
        <5> QED  BY <5>1, <5>2 DEF Decisive
      <4>2. CASE i # r.best
        <5>1. r.best \in candidates \ {i} /\ strength[i] <= b /\ strength[i] \in Int
          BY <1>2, <1>3, <1>6, <4>2
        <5>2. ~(strength[i] - b >= margin)
          BY <2>1, <2>2, <5>1
        <5> QED  BY <5>1, <5>2 DEF Decisive
      <4> QED  BY <4>1, <4>2
    <3> QED  BY <3>1, <3>2
  <2>3. CASE ~(b - u < margin)
    <3>1. Leader(r, strength, margin) = r.best
      BY <1>6, <2>3 DEF Leader
    <3>2. ASSUME NEW j \in candidates \ {r.best}
          PROVE  b - strength[j] >= margin
      BY <1>2, <1>3, <1>6, <2>1, <2>3
    <3> QED  BY <1>3, <1>6, <3>1, <3>2 DEF Decisive
  <2> QED  BY <2>2, <2>3
<1> QED  BY <1>4, <1>5, <1>6

-----------------------------------------------------------------------------
(***************************************************************************)
(* Decisions by lead.                                                      *)
(***************************************************************************)

LEMMA TypesOfEntries ==
    ASSUME TypeOK
    PROVE  /\ Len(peers) \in Nat /\ DOMAIN peers = 1 .. Len(peers)
           /\ \A i \in 1 .. Len(peers) : peers[i] \in Peer
BY DEF TypeOK

LEMMA ClockIsNat == Clock \subseteq Nat
<1> SUFFICES ASSUME NEW k \in 0 .. MaxSteps PROVE k * Step \in Nat
  BY DEF Clock
<1> QED  BY TableAssumption

\* Strengths are integers: those received, or -127.
LEMMA EntryIsNumeric ==
    ASSUME NEW p \in Peer
    PROVE  /\ p.awdl_rssi \in Int /\ p.ble_rssi \in Int
           /\ p.first_seen \in Nat /\ p.last_seen \in Nat
           /\ p.awdl_seen \in Nat /\ p.ble_seen \in Nat /\ p.airdrop_seen \in Nat
<1>1. /\ p.awdl_rssi \in Rssi["awdl"] \cup {-127}
      /\ p.ble_rssi \in Rssi["ble"] \cup {-127}
  BY DEF Peer
<1>2. /\ p.first_seen \in Clock /\ p.last_seen \in Clock
      /\ p.awdl_seen \in Clock /\ p.ble_seen \in Clock /\ p.airdrop_seen \in Clock
  BY DEF Peer
<1>3. Rssi["awdl"] \in SUBSET (-126 .. 0) /\ Rssi["ble"] \in SUBSET (-126 .. 0)
  BY TableAssumption
<1>4. -126 .. 0 \subseteq Int /\ -127 \in Int
  OBVIOUS
<1>5. p.awdl_rssi \in Int /\ p.ble_rssi \in Int
  BY <1>1, <1>3, <1>4
<1> QED  BY <1>2, <1>5, ClockIsNat

\* Proximity selects the live candidate that leads all others, and only that.
LEMMA ProximityIsByLead == TypeOK => ProximityByLead
<1> SUFFICES ASSUME TypeOK, NEW endpoint \in BOOLEAN
             PROVE  LET near == {i \in DOMAIN peers : Near(peers[i], endpoint)}
                        rssi == [i \in DOMAIN peers |-> peers[i].awdl_rssi]
                        selected == Proximity(endpoint)
                    IN  IF selected = 0
                        THEN \A i \in near : ~Decisive(i, near, rssi, MinMargin)
                        ELSE selected \in near /\ Decisive(selected, near, rssi, MinMargin)
  BY DEF ProximityByLead
<1> DEFINE near == {i \in DOMAIN peers : Near(peers[i], endpoint)}
           rssi == [i \in DOMAIN peers |-> peers[i].awdl_rssi]
<1>1. PICK n \in Nat : n = Len(peers) /\ DOMAIN peers = 1 .. n
  BY TypesOfEntries
<1>2. near \in SUBSET (1 .. n)
  BY <1>1
<1>3. rssi \in [1 .. n -> Int]
  BY <1>1, TypesOfEntries, EntryIsNumeric
<1>4. Proximity(endpoint) = Leader(Ranked(near, rssi), rssi, MinMargin)
  BY DEF Proximity
<1> HIDE DEF near, rssi
<1>5. Podium(Ranked(near, rssi), near, rssi, n)
  BY <1>1, <1>3, RankingIsRight
<1>6. MinMargin \in Nat
  BY TableAssumption
<1>7. IF Leader(Ranked(near, rssi), rssi, MinMargin) = 0
      THEN \A i \in near : ~Decisive(i, near, rssi, MinMargin)
      ELSE /\ Leader(Ranked(near, rssi), rssi, MinMargin) \in near
           /\ Decisive(Leader(Ranked(near, rssi), rssi, MinMargin), near, rssi, MinMargin)
  BY <1>2, <1>3, <1>5, <1>6, LeaderIsDecisive
<1> QED  BY <1>4, <1>7 DEF near, rssi

\* A score is an integer.
LEMMA ScoreIsInt ==
    ASSUME TypeOK, NEW p \in Peer, NEW at \in Nat
    PROVE  Score(p, at) \in Int
<1>1. tap_ms \in Nat
  BY ClockIsNat DEF TypeOK
<1>2. \A c, n : n \in Int => Points(c, n) \in Int
  BY DEF Points
<1>3. RecencyScore(p.last_seen, at) \in Int
  <2>1. Later(p.last_seen, tap_ms) \in Int
    BY <1>1, EntryIsNumeric DEF Later
  <2>2. \A age \in Int : 200 - (age * 200) \div 5000 \in Int
    OBVIOUS
  <2> QED  BY <1>2, <2>1, <2>2 DEF RecencyScore
<1>4. \A rssi \in Int : RssiScore(rssi, 120) \in Int /\ RssiScore(rssi, 80) \in Int
  <2>1. \A rssi \in Int : Later(rssi, -100) \in Int
    BY DEF Later
  <2>2. \A x \in Int : ((x + 100) * 120) \div 80 \in Int /\ ((x + 100) * 80) \div 80 \in Int
    OBVIOUS
  <2> QED  BY <1>2, <2>1, <2>2 DEF RssiScore
<1>5. p.awdl_rssi \in Int /\ p.ble_rssi \in Int
  BY EntryIsNumeric
<1> QED  BY <1>2, <1>3, <1>4, <1>5 DEF Score

\* A tap selects nobody but a candidate that leads, during its session.
LEMMA TapIsByLead == TypeOK => TapByLead
<1> SUFFICES ASSUME TypeOK, NEW at \in Clock
             PROVE  LET scored == {i \in DOMAIN peers : Scored(peers[i])}
                        score == [i \in DOMAIN peers |-> Score(peers[i], at)]
                        selected == SelectPeer(at)
                    IN  selected # 0 =>
                            /\ now - tap_ms <= SessionWindow
                            /\ selected \in scored
                            /\ Decisive(selected, scored, score, AmbiguityMargin)
  BY DEF TapByLead
<1> DEFINE scored == {i \in DOMAIN peers : Scored(peers[i])}
           score == [i \in DOMAIN peers |-> Score(peers[i], at)]
           r == Ranked(scored, score)
           leader == Leader(r, score, AmbiguityMargin)
<1>1. PICK n \in Nat : n = Len(peers) /\ DOMAIN peers = 1 .. n
  BY TypesOfEntries
<1>2. scored \in SUBSET (1 .. n)
  BY <1>1
<1>3. score \in [1 .. n -> Int]
  <2>1. at \in Nat
    BY ClockIsNat
  <2>2. \A i \in 1 .. n : Score(peers[i], at) \in Int
    BY <1>1, <2>1, TypesOfEntries, ScoreIsInt
  <2> QED  BY <1>1, <2>2
<1>4. SelectPeer(at) # 0 => SelectPeer(at) = leader /\ SessionActive
  BY DEF SelectPeer
<1> HIDE DEF scored, score
<1>5. Podium(r, scored, score, n)
  BY <1>1, <1>3, RankingIsRight
<1>6. AmbiguityMargin \in Nat
  BY TableAssumption
<1> HIDE DEF r
<1>7. leader # 0 => leader \in scored /\ Decisive(leader, scored, score, AmbiguityMargin)
  BY <1>2, <1>3, <1>5, <1>6, LeaderIsDecisive
<1> HIDE DEF leader
<1>8. SessionActive => now - tap_ms <= SessionWindow
  <2>1. now \in Nat /\ tap_ms \in Nat /\ SessionWindow \in Nat
    BY ClockIsNat, TableAssumption DEF TypeOK
  <2> QED  BY <2>1 DEF SessionActive
<1> QED  BY <1>4, <1>7, <1>8 DEF scored, score

-----------------------------------------------------------------------------
(***************************************************************************)
(* The inductive invariant: types, and the chronology of every entry.      *)
(***************************************************************************)

Timely(p) ==
    /\ p.first_seen <= p.last_seen
    /\ p.awdl_seen <= p.last_seen /\ p.ble_seen <= p.last_seen

TableInv ==
    /\ TypeOK
    /\ \A i \in 1 .. Len(peers) : Timely(peers[i])
    /\ Distinct(peers)

LEMMA TimeMoves ==
    ASSUME NEW t \in Clock, t < MaxSteps * Step
    PROVE  t + Step \in Clock \ {0}
<1>1. PICK k \in 0 .. MaxSteps : t = k * Step
  BY DEF Clock
<1>2. Step \in Nat /\ Step > 0 /\ MaxSteps \in Nat
  BY TableAssumption
<1>3. k # MaxSteps
  BY <1>1
<1>4. k + 1 \in 0 .. MaxSteps
  BY <1>1, <1>2, <1>3
<1>5. (k + 1) * Step = t + Step
  BY <1>1, <1>2
<1>6. t + Step # 0
  BY <1>2, ClockIsNat
<1> QED  BY <1>4, <1>5, <1>6 DEF Clock

\* A frame that is processed was received at a time of the clock.
LEMMA ReceivedInTime ==
    ASSUME TypeOK, NEW seen \in Received
    PROVE  seen \in Clock
<1>1. now \in Clock /\ now # 0
  BY DEF TypeOK
<1>2. PICK k \in 0 .. MaxSteps : now = k * Step
  BY <1>1 DEF Clock
<1>3. Step \in Nat /\ MaxSteps \in Nat
  BY TableAssumption
<1>4. k # 0
  BY <1>1, <1>2, <1>3
<1>5. k - 1 \in 0 .. MaxSteps
  BY <1>3, <1>4
<1>6. (k - 1) * Step = now - Step
  BY <1>2, <1>3
<1>7. now - Step \in Clock
  BY <1>5, <1>6 DEF Clock
<1> QED  BY <1>1, <1>7 DEF Received

\* The table keeps its entries and writes some of them.
LEMMA EntriesWritten ==
    ASSUME TableInv, UNCHANGED <<now, tap_ms>>,
           peers' \in [1 .. Len(peers) -> Peer],
           \A i \in 1 .. Len(peers) : Timely(peers'[i]) /\ peers'[i].id = peers[i].id
    PROVE  TableInv'
<1>1. PICK n \in Nat : n = Len(peers)
  BY TypesOfEntries DEF TableInv
<1>2. peers' \in Seq(Peer) /\ Len(peers') = n
  BY <1>1
<1>3. TypeOK'
  BY <1>1, <1>2 DEF TableInv, TypeOK
<1>4. \A i \in 1 .. Len(peers') : Timely(peers'[i])
  BY <1>1, <1>2
<1>5. Distinct(peers')
  BY <1>1, <1>2 DEF TableInv, Distinct
<1> QED  BY <1>3, <1>4, <1>5 DEF TableInv

\* The time of the last observation does not go back, and the layer's is no later.
LEMMA ObservedIsTimely ==
    ASSUME NEW p \in Peer, NEW layer \in {"awdl", "ble"}, NEW rssi \in Rssi[layer],
           NEW seen \in Clock, p.first_seen <= Later(p.last_seen, seen),
           p.awdl_seen <= p.last_seen, p.ble_seen <= p.last_seen
    PROVE  /\ Observed(p, layer, rssi, seen) \in Peer
           /\ Timely(Observed(p, layer, rssi, seen))
           /\ Observed(p, layer, rssi, seen).id = p.id
<1> DEFINE q == [p EXCEPT !.signals = @ \cup {layer}, !.last_seen = Later(@, seen)]
<1>1. seen \in Nat /\ p.last_seen \in Nat /\ p.awdl_seen \in Nat /\ p.ble_seen \in Nat
      /\ p.first_seen \in Nat
  BY EntryIsNumeric, ClockIsNat
<1>2. Later(p.last_seen, seen) \in Clock /\ Later(p.last_seen, seen) \in Nat
  <2>1. p.last_seen \in Clock
    BY DEF Peer
  <2> QED  BY <2>1, ClockIsNat DEF Later
<1>3. seen <= Later(p.last_seen, seen) /\ p.last_seen <= Later(p.last_seen, seen)
  BY <1>1 DEF Later
<1>4. p.signals \cup {layer} \in SUBSET {"awdl", "ble", "airdrop"}
  BY DEF Peer
<1>5. /\ q \in Peer /\ q.id = p.id /\ q.last_seen = Later(p.last_seen, seen)
      /\ q.first_seen = p.first_seen /\ q.awdl_seen = p.awdl_seen /\ q.ble_seen = p.ble_seen
  BY <1>2, <1>4 DEF Peer
<1>6. Observed(p, layer, rssi, seen) =
        IF layer = "ble" THEN [q EXCEPT !.ble_seen = seen, !.ble_rssi = rssi]
                         ELSE [q EXCEPT !.awdl_seen = seen, !.awdl_rssi = rssi]
  BY DEF Observed
<1> HIDE DEF q
<1>7. CASE layer = "ble"
  <2>1. [q EXCEPT !.ble_seen = seen, !.ble_rssi = rssi] \in Peer
    BY <1>5, <1>7 DEF Peer
  <2>2. Timely([q EXCEPT !.ble_seen = seen, !.ble_rssi = rssi])
    BY <1>1, <1>2, <1>3, <1>5 DEF Timely, Peer
  <2> QED  BY <1>5, <1>6, <1>7, <2>1, <2>2 DEF Peer
<1>8. CASE layer = "awdl"
  <2>1. [q EXCEPT !.awdl_seen = seen, !.awdl_rssi = rssi] \in Peer
    BY <1>5, <1>8 DEF Peer
  <2>2. Timely([q EXCEPT !.awdl_seen = seen, !.awdl_rssi = rssi])
    BY <1>1, <1>2, <1>3, <1>5 DEF Timely, Peer
  <2> QED  BY <1>5, <1>6, <1>8, <2>1, <2>2 DEF Peer
<1> QED  BY <1>7, <1>8

LEMMA TableStarts == Init => TableInv
<1> SUFFICES ASSUME Init PROVE TableInv
  OBVIOUS
<1>1. <<>> \in Seq(Peer) /\ Len(<<>>) = 0 /\ 1 .. 0 = {}
  OBVIOUS
<1>2. 0 \in Clock
  <2>1. 0 \in 0 .. MaxSteps /\ 0 * Step = 0
    BY TableAssumption
  <2> QED  BY <2>1 DEF Clock
<1>3. Step \in Clock \ {0}
  <2>1. 1 \in 0 .. MaxSteps /\ 1 * Step = Step /\ Step # 0
    BY TableAssumption
  <2> QED  BY <2>1 DEF Clock
<1>4. 0 <= MaxPeers
  BY TableAssumption
<1> QED  BY <1>1, <1>2, <1>3, <1>4 DEF Init, TableInv, TypeOK, Distinct

\* A known peer is written, a new one appended while there is room.
LEMMA ObserveKeeps ==
    ASSUME TableInv, NEW id \in Ids, NEW layer \in {"awdl", "ble"},
           NEW rssi \in Rssi[layer], NEW seen \in Clock, Observe(id, layer, rssi, seen)
    PROVE  TableInv'
<1>1. PICK n \in Nat : /\ n = Len(peers) /\ DOMAIN peers = 1 .. n
                       /\ \A i \in 1 .. n : peers[i] \in Peer
  BY TypesOfEntries DEF TableInv
<1>2. \A i \in 1 .. n : Timely(peers[i])
  BY <1>1 DEF TableInv
<1>3. CASE Knows(id)
  <2>1. peers' = [i \in 1 .. n |-> IF peers[i].id = id
                                   THEN Observed(peers[i], layer, rssi, seen)
                                   ELSE peers[i]]
    BY <1>1, <1>3 DEF Observe, Written
  <2>2. ASSUME NEW i \in 1 .. n
        PROVE  /\ Observed(peers[i], layer, rssi, seen) \in Peer
               /\ Timely(Observed(peers[i], layer, rssi, seen))
               /\ Observed(peers[i], layer, rssi, seen).id = peers[i].id
    <3>1. peers[i].first_seen <= Later(peers[i].last_seen, seen)
      <4>1. /\ peers[i].first_seen \in Nat /\ peers[i].last_seen \in Nat /\ seen \in Nat
            /\ peers[i].first_seen <= peers[i].last_seen
        BY <1>1, <1>2, EntryIsNumeric, ClockIsNat DEF Timely
      <4> QED  BY <4>1 DEF Later
    <3> QED  BY <1>1, <1>2, <3>1, ObservedIsTimely DEF Timely
  <2>3. peers' \in [1 .. n -> Peer]
    BY <1>1, <2>1, <2>2
  <2>4. \A i \in 1 .. n : Timely(peers'[i]) /\ peers'[i].id = peers[i].id
    BY <1>2, <2>1, <2>2
  <2>5. UNCHANGED <<now, tap_ms>>
    BY DEF Observe
  <2> QED  BY <1>1, <2>3, <2>4, <2>5, EntriesWritten
<1>4. CASE ~Knows(id)
  <2> DEFINE fresh == Fresh(id, seen)
             new == Observed(fresh, layer, rssi, seen)
  <2>1. peers' = Append(peers, new) /\ Len(peers) < MaxPeers
    BY <1>4 DEF Observe
  <2>2. fresh \in Peer
    <3>1. 0 \in Clock
      <4>1. 0 \in 0 .. MaxSteps /\ 0 * Step = 0
        BY TableAssumption
      <4> QED  BY <4>1 DEF Clock
    <3>2. FALSE \in BOOLEAN
      OBVIOUS
    <3> QED  BY <3>1, <3>2 DEF Fresh, Peer
  <2>3. /\ fresh.id = id /\ fresh.first_seen = seen /\ fresh.last_seen = 0
        /\ fresh.awdl_seen = 0 /\ fresh.ble_seen = 0
    BY DEF Fresh
  <2> HIDE DEF fresh
  <2>4. new \in Peer /\ Timely(new) /\ new.id = id
    <3>1. seen <= Later(0, seen) /\ 0 <= 0
      BY ClockIsNat DEF Later
    <3> QED  BY <2>2, <2>3, <3>1, ObservedIsTimely
  <2> HIDE DEF new
  <2>5. /\ peers' \in Seq(Peer) /\ Len(peers') = n + 1
        /\ \A i \in 1 .. n + 1 : \/ i \in 1 .. n /\ peers'[i] = peers[i]
                                 \/ i = n + 1 /\ peers'[i] = new
    BY <1>1, <2>1, <2>4 DEF TableInv, TypeOK
  <2>6. TypeOK'
    <3>1. n + 1 <= MaxPeers
      BY <1>1, <2>1, TableAssumption
    <3> QED  BY <2>5, <3>1 DEF Observe, TableInv, TypeOK
  <2>7. \A i \in 1 .. Len(peers') : Timely(peers'[i])
    BY <1>2, <2>4, <2>5
  <2>8. \A i \in 1 .. n : peers[i].id # id
    BY <1>1, <1>4 DEF Knows
  <2>9. \A a, b \in 1 .. n : peers[a].id = peers[b].id => a = b
    BY <1>1 DEF TableInv, Distinct
  <2>10. Distinct(peers')
    <3> SUFFICES ASSUME NEW a \in 1 .. n + 1, NEW b \in 1 .. n + 1,
                        peers'[a].id = peers'[b].id
                 PROVE  a = b
      BY <2>5 DEF Distinct
    <3> QED  BY <2>4, <2>5, <2>8, <2>9
  <2> QED  BY <2>6, <2>7, <2>10 DEF TableInv
<1> QED  BY <1>3, <1>4

\* A MIF tells about the service, and leaves the times of the entry alone.
LEMMA ApplyMifKeeps ==
    ASSUME TableInv, NEW id \in Ids, NEW mif \in Mifs, NEW seen \in Clock,
           ApplyMif(id, mif, seen)
    PROVE  TableInv'
<1> DEFINE set(p) ==
             LET q == [p EXCEPT !.peer_valid = mif.valid]
             IN  IF ~mif.airdrop THEN q
                 ELSE [q EXCEPT !.signals = @ \cup {"airdrop"},
                                !.airdrop_seen = seen,
                                !.endpoint_complete = @ \/ mif.endpoint]
<1>1. PICK n \in Nat : /\ n = Len(peers) /\ DOMAIN peers = 1 .. n
                       /\ \A i \in 1 .. n : peers[i] \in Peer
  BY TypesOfEntries DEF TableInv
<1>2. \A i \in 1 .. n : Timely(peers[i])
  BY <1>1 DEF TableInv
<1>3. peers' = [i \in 1 .. n |-> IF peers[i].id = id THEN set(peers[i]) ELSE peers[i]]
  BY <1>1 DEF ApplyMif, Written
<1>4. ASSUME NEW p \in Peer
      PROVE  /\ set(p) \in Peer /\ set(p).id = p.id
             /\ set(p).first_seen = p.first_seen /\ set(p).last_seen = p.last_seen
             /\ set(p).awdl_seen = p.awdl_seen /\ set(p).ble_seen = p.ble_seen
  <2> DEFINE q == [p EXCEPT !.peer_valid = mif.valid]
             o == q.endpoint_complete \/ mif.endpoint
  <2>1. mif.valid \in BOOLEAN /\ mif.endpoint \in BOOLEAN
    BY TableAssumption
  <2>2. /\ q \in Peer /\ q.id = p.id
        /\ q.first_seen = p.first_seen /\ q.last_seen = p.last_seen
        /\ q.awdl_seen = p.awdl_seen /\ q.ble_seen = p.ble_seen
    BY <2>1 DEF Peer
  <2>3. o \in BOOLEAN
    OBVIOUS
  <2>4. set(p) = IF ~mif.airdrop THEN q
                 ELSE [q EXCEPT !.signals = @ \cup {"airdrop"}, !.airdrop_seen = seen,
                                !.endpoint_complete = o]
    OBVIOUS
  <2> HIDE DEF q, o, set
  <2>5. q.signals \cup {"airdrop"} \in SUBSET {"awdl", "ble", "airdrop"}
    BY <2>2 DEF Peer
  <2>6. CASE ~mif.airdrop
    BY <2>2, <2>4, <2>6
  <2>7. CASE mif.airdrop
    <3> DEFINE x == [q EXCEPT !.signals = @ \cup {"airdrop"}, !.airdrop_seen = seen,
                              !.endpoint_complete = o]
    <3>1. x \in Peer
      BY <2>2, <2>3, <2>5, Zenon DEF Peer
    <3>2. /\ x.id = q.id /\ x.first_seen = q.first_seen /\ x.last_seen = q.last_seen
          /\ x.awdl_seen = q.awdl_seen /\ x.ble_seen = q.ble_seen
      BY <2>2 DEF Peer
    <3>3. set(p) = x
      BY <2>4, <2>7
    <3> HIDE DEF x
    <3> QED  BY <2>2, <3>1, <3>2, <3>3
  <2> QED  BY <2>6, <2>7
<1> HIDE DEF set
<1>5. peers' \in [1 .. n -> Peer]
  BY <1>1, <1>3, <1>4
<1>6. \A i \in 1 .. n : Timely(peers'[i]) /\ peers'[i].id = peers[i].id
  BY <1>1, <1>2, <1>3, <1>4 DEF Timely
<1>7. UNCHANGED <<now, tap_ms>>
  BY DEF ApplyMif
<1> QED  BY <1>1, <1>5, <1>6, <1>7, EntriesWritten

\* A complete endpoint is an observation of its peer, made now.
LEMMA ApplyEndpointKeeps ==
    ASSUME TableInv, NEW ipv6, ApplyEndpoint(ipv6)
    PROVE  TableInv'
<1> DEFINE set(p) == [p EXCEPT !.signals = @ \cup {"airdrop"}, !.airdrop_seen = now,
                               !.last_seen = Later(@, now), !.endpoint_complete = TRUE]
<1>1. PICK n \in Nat : /\ n = Len(peers) /\ DOMAIN peers = 1 .. n
                       /\ \A i \in 1 .. n : peers[i] \in Peer
  BY TypesOfEntries DEF TableInv
<1>2. \A i \in 1 .. n : Timely(peers[i])
  BY <1>1 DEF TableInv
<1>3. PICK id : peers' = [i \in 1 .. n |-> IF peers[i].id = id THEN set(peers[i]) ELSE peers[i]]
  <2>1. PICK j : peers' = Written(peers[j].id, set)
    BY DEF ApplyEndpoint
  <2>2. peers' = [i \in 1 .. n |-> IF peers[i].id = peers[j].id THEN set(peers[i]) ELSE peers[i]]
    BY <1>1, <2>1 DEF Written
  <2> QED  BY <2>2
<1>4. ASSUME NEW p \in Peer, Timely(p)
      PROVE  set(p) \in Peer /\ set(p).id = p.id /\ Timely(set(p))
  <2>1. now \in Clock /\ p.last_seen \in Clock
    BY DEF TableInv, TypeOK, Peer
  <2>2. /\ now \in Nat /\ p.last_seen \in Nat /\ p.first_seen \in Nat
        /\ p.awdl_seen \in Nat /\ p.ble_seen \in Nat
    BY <2>1, ClockIsNat, EntryIsNumeric
  <2>3. Later(p.last_seen, now) \in Clock /\ p.last_seen <= Later(p.last_seen, now)
    BY <2>1, <2>2 DEF Later
  <2>4. p.signals \cup {"airdrop"} \in SUBSET {"awdl", "ble", "airdrop"}
    BY DEF Peer
  <2>5. set(p) \in Peer
    BY <2>1, <2>3, <2>4, Zenon DEF Peer
  <2>6. /\ set(p).id = p.id /\ set(p).last_seen = Later(p.last_seen, now)
        /\ set(p).first_seen = p.first_seen
        /\ set(p).awdl_seen = p.awdl_seen /\ set(p).ble_seen = p.ble_seen
    BY DEF Peer
  <2>7. Later(p.last_seen, now) \in Nat
    BY <2>3, ClockIsNat
  <2> HIDE DEF set
  <2> QED  BY <1>4, <2>2, <2>3, <2>5, <2>6, <2>7 DEF Timely
<1> HIDE DEF set
<1>5. peers' \in [1 .. n -> Peer]
  BY <1>1, <1>2, <1>3, <1>4
<1>6. \A i \in 1 .. n : Timely(peers'[i]) /\ peers'[i].id = peers[i].id
  BY <1>1, <1>2, <1>3, <1>4
<1>7. UNCHANGED <<now, tap_ms>>
  BY DEF ApplyEndpoint
<1> QED  BY <1>1, <1>5, <1>6, <1>7, EntriesWritten

\* Expiry moves the entries that stay together.
LEMMA ExpireKeeps ==
    ASSUME TableInv, NEW age, Expire(age)
    PROVE  TableInv'
<1> DEFINE S == {p \in Peer : Timely(p)}
           keep == {i \in DOMAIN peers :
                        peers[i].last_seen > now \/ now - peers[i].last_seen <= age}
<1>1. peers' = Compact(peers, keep) /\ UNCHANGED <<now, tap_ms>>
  BY DEF Expire
<1>2. peers \in Seq(S)
  <2>1. \A i \in 1 .. Len(peers) : peers[i] \in S
    BY TypesOfEntries DEF TableInv
  <2> QED  BY <2>1 DEF TableInv, TypeOK
<1> HIDE DEF S, keep
<1>3. peers' \in Seq(S) /\ Len(peers') <= Len(peers) /\ Distinct(peers')
  BY <1>1, <1>2, CompactionKeeps DEF TableInv
<1>4. \A i \in 1 .. Len(peers') : peers'[i] \in S
  BY <1>3
<1>5. \A i \in 1 .. Len(peers') : peers'[i] \in Peer /\ Timely(peers'[i])
  BY <1>4 DEF S
<1>6. peers' \in Seq(Peer)
  BY <1>3, <1>5
<1>7. Len(peers') <= MaxPeers
  BY <1>2, <1>3, TableAssumption DEF TableInv, TypeOK
<1> QED  BY <1>1, <1>3, <1>5, <1>6, <1>7 DEF TableInv, TypeOK

\* Every step keeps the invariant.
LEMMA TableStep == TableInv /\ [Next]_vars => TableInv'
<1> SUFFICES ASSUME TableInv, [Next]_vars PROVE TableInv'
  OBVIOUS
<1>1. \A seen \in Received : seen \in Clock
  BY ReceivedInTime DEF TableInv
<1>2. CASE Tick
  <2>1. now + Step \in Clock \ {0}
    BY <1>2, TimeMoves DEF Tick, TableInv, TypeOK
  <2> QED  BY <1>2, <2>1 DEF Tick, TableInv, TypeOK
<1>3. ASSUME NEW id \in Ids, NEW seen \in Received, NEW layer \in DOMAIN Rssi,
             NEW rssi \in Rssi[layer], Observe(id, layer, rssi, seen)
      PROVE  TableInv'
  <2>1. layer \in {"awdl", "ble"}
    BY TableAssumption
  <2> QED  BY <1>1, <1>3, <2>1, ObserveKeeps
<1>4. ASSUME NEW id \in Ids, NEW seen \in Received, NEW mif \in Mifs, ApplyMif(id, mif, seen)
      PROVE  TableInv'
  BY <1>1, <1>4, ApplyMifKeeps
<1>5. ASSUME NEW id \in Ids, ApplyEndpoint(Ipv6[id]) PROVE TableInv'
  BY <1>5, ApplyEndpointKeeps
<1>6. CASE Expire(MaxAge)
  BY <1>6, ExpireKeeps
<1>7. ASSUME NEW at \in Received, Tap(at) PROVE TableInv'
  BY <1>1, <1>7 DEF Tap, TableInv, TypeOK
<1>8. CASE UNCHANGED vars
  BY <1>8 DEF vars, TableInv, TypeOK
<1> QED  BY <1>2, <1>3, <1>4, <1>5, <1>6, <1>7, <1>8 DEF Next

\* Types, times and ids of the table fit together after every step.
THEOREM TableInvariant == Spec => []TableInv
BY TableStarts, TableStep, PTL DEF Spec

\* The table never has more entries than places.
THEOREM TableTypes == Spec => []TypeOK
<1>1. TableInv => TypeOK
  BY DEF TableInv
<1> QED  BY <1>1, TableInvariant, PTL

\* An entry's last observation is never behind its others, and a peer has one
\* entry, in whatever order frames are processed and however often the array
\* was compacted.
THEOREM TableIsChronological == Spec => []Chronology
<1>1. TableInv => Chronology
  <2> SUFFICES ASSUME TableInv, NEW i \in DOMAIN peers
               PROVE  /\ Timely(peers[i])
                      /\ \A j \in DOMAIN peers : peers[i].id = peers[j].id => i = j
    BY DEF Chronology, Timely
  <2> QED  BY TypesOfEntries DEF TableInv, Distinct
<1> QED  BY <1>1, TableInvariant, PTL

\* Both decisions are by lead, whatever the order of the array: proximity takes
\* the one candidate that leads by the margin if there is one, a tap none but
\* such a candidate, and only while its session lasts.
THEOREM DecisionsAreByLead == Spec => []ChosenByLead
<1>1. TypeOK => ChosenByLead
  BY ProximityIsByLead, TapIsByLead DEF ChosenByLead
<1> QED  BY <1>1, TableTypes, PTL

=============================================================================
