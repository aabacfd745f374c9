---------------------------- MODULE AwdlElection ----------------------------
(***************************************************************************)
(* The AWDL election of core/src/awdl_election.c, as awdl_tx_lab.c drives  *)
(* it, in a network: relays run this code, beacons are other AWDL devices. *)
(* A relay hears the MIF of a beacon, or the tx_state of another relay     *)
(* while the worker of that relay sends it, in any order and as often as   *)
(* the radio lets it.                                                      *)
(*                                                                         *)
(* Addresses are numbers, ordered as memcmp orders them.  A timestamp is   *)
(* the age of the observation, which is all expire looks at.               *)
(***************************************************************************)
EXTENDS TableOps, Integers, SequencesExt

CONSTANTS
    Relays, Beacons,        \* addresses
    Hears,                  \* <<n, m>>: n is in radio range of m
    Mifs,                   \* beacon -> the MIFs it may send
    Leaving,                \* beacons that may leave
    Pausing,                \* relays whose worker may end
    Metric, Counter,        \* ..._METRIC_INITIAL, ..._COUNTER_INITIAL
    Metrics, Counters,      \* bounds of what MIFs carry
    MaxPeers,               \* ESPDROP_AWDL_ELECTION_MAX_PEERS
    TreeMaxHeight,          \* ESPDROP_AWDL_ELECTION_TREE_MAX_HEIGHT
    Timeout,                \* peer_timeout_us, in ticks
    Punctual,               \* whoever is present is heard within the timeout
    NoState                 \* has_state is false

Addresses == Relays \cup Beacons

\* espdrop_awdl_election_v2_t, and the elected part of the election state.
Report == [master : Addresses, sync_master : Addresses,
           distance_to_master : 0 .. TreeMaxHeight,
           master_metric : Metrics, master_counter : Counters]

\* What the election and the transmitter take from a MIF: its report, and
\* whether espdrop_awdl_tx_state_from_mif can use its schedule.
Mif == [report : Report, schedule : BOOLEAN]

ASSUME ElectionAssumption ==
    /\ Relays \subseteq Nat /\ Beacons \subseteq Nat
    /\ Relays \cap Beacons = {}
    /\ Hears \subseteq Relays \X Addresses
    /\ \A p \in Hears : p[1] # p[2]
    /\ Mifs \in [Beacons -> SUBSET Mif]
    /\ Leaving \subseteq Beacons /\ Pausing \subseteq Relays
    /\ Metrics \subseteq Nat /\ Metric \in Metrics
    /\ Counters \subseteq Nat /\ Counter \in Counters
    /\ MaxPeers \in Nat \ {0} /\ TreeMaxHeight \in Nat \ {0}
    /\ Timeout \in Nat \ {0}
    /\ Punctual \in BOOLEAN

VARIABLES
    peers,      \* relay -> peer table of its election, in array order
    state,      \* relay -> elected state
    peer_mifs,  \* relay -> stored MIFs, least recently received first
    tx_state,   \* relay -> the state its own MIFs announce
    transmitting,   \* relays whose worker runs (task_started)
    present     \* beacons on the air

vars == <<peers, state, peer_mifs, tx_state, transmitting, present>>

Peer == [address : Addresses, report : Report, age : 0 .. Timeout + 1]

TypeOK ==
    /\ peers \in [Relays -> Seq(Peer)]
    /\ state \in [Relays -> Report]
    /\ peer_mifs \in [Relays -> Seq([source : Addresses, schedule : BOOLEAN])]
    /\ tx_state \in [Relays -> Report \cup {NoState}]
    /\ \A n \in Relays : Len(peers[n]) <= MaxPeers /\ Len(peer_mifs[n]) <= MaxPeers
    /\ transmitting \subseteq Relays
    /\ present \subseteq Beacons

\* reset_to_self
SelfState(n) ==
    [master |-> n, sync_master |-> n, distance_to_master |-> 0,
     master_metric |-> Metric, master_counter |-> Counter]

\* compare_peer_to_candidate > 0
Better(p, q) ==
    LET r == p.report  s == q.report
    IN  \/ r.master_counter > s.master_counter
        \/ /\ r.master_counter = s.master_counter
           /\ \/ r.master_metric > s.master_metric
              \/ /\ r.master_metric = s.master_metric
                 /\ \/ r.distance_to_master < s.distance_to_master
                    \/ /\ r.distance_to_master = s.distance_to_master
                       /\ p.address > q.address

\* The state of a relay below the peer it selected.
Below(p) == [p.report EXCEPT !.sync_master = p.address,
                             !.distance_to_master = @ + 1]

Candidate(n) == [address |-> n, report |-> SelfState(n), age |-> 0]

\* Mutant: a neighbour below this relay may be selected.
Eligible_cyclic(n, p) == p.report.distance_to_master < TreeMaxHeight

\* The peers run_election does not skip.
Eligible(n, p) ==
    /\ p.report.distance_to_master < TreeMaxHeight
    /\ p.report.sync_master # n

\* Mutant: every peer is compared with the relay itself only.
run_election_last(n, table) ==
    LET best[i \in 0 .. Len(table)] ==
            IF i = 0 THEN Candidate(n)
            ELSE IF Eligible(n, table[i]) /\ Better(table[i], Candidate(n))
                 THEN table[i] ELSE best[i - 1]
        selected == best[Len(table)]
    IN  IF selected.address = n THEN SelfState(n) ELSE Below(selected)

\* The best of the first i entries, as the loop goes along.
run_election(n, table) ==
    LET best[i \in 0 .. Len(table)] ==
            IF i = 0 THEN Candidate(n)
            ELSE IF \E b \in {best[i - 1]} :
                        Eligible(n, table[i]) /\ Better(table[i], b)
                 THEN table[i] ELSE best[i - 1]
        selected == best[Len(table)]
    IN  IF selected.address = n THEN SelfState(n) ELSE Below(selected)

\* espdrop_awdl_election_expire, the table part.
expire(table) ==
    Compact(table, {i \in DOMAIN table : table[i].age <= Timeout})

\* find_peer over a table of entries or of stored MIFs.
Knows(table, m) == \E i \in DOMAIN table : table[i].address = m

\* The entry of m is written over, or appended if there is room.
Enter(table, entry) ==
    IF Knows(table, entry.address)
    THEN [i \in DOMAIN table |->
            IF table[i].address = entry.address THEN entry ELSE table[i]]
    ELSE IF Len(table) < MaxPeers THEN Append(table, entry) ELSE table

\* store_peer_mif: the oldest MIF makes room.
Store(mifs, m, schedule) ==
    LET others == Compact(mifs, {i \in DOMAIN mifs : mifs[i].source # m})
        room == IF Len(others) = MaxPeers THEN Tail(others) ELSE others
    IN  Append(room, [source |-> m, schedule |-> schedule])

Usable(mifs, m) ==
    \E i \in DOMAIN mifs : mifs[i].source = m /\ mifs[i].schedule

Init ==
    /\ peers = [n \in Relays |-> <<>>]
    /\ state = [n \in Relays |-> SelfState(n)]
    /\ peer_mifs = [n \in Relays |-> <<>>]
    /\ tx_state = [n \in Relays |-> NoState]
    /\ transmitting = {}
    /\ present = Beacons

-----------------------------------------------------------------------------

\* dynamic_election_candidate for a MIF of m: the MIF is stored, the election
\* observes it (which first expires old peers), and the state to transmit is
\* made anew if the MIF of the elected parent can be used.
Observe(n, m, mif) ==
    \E table \in {Enter(expire(peers[n]),
                        [address |-> m, report |-> mif.report, age |-> 0])} :
    \E elected \in {run_election(n, table)} :
    \E mifs \in {Store(peer_mifs[n], m, mif.schedule)} :
        /\ peers' = [peers EXCEPT ![n] = table]
        /\ state' = [state EXCEPT ![n] = elected]
        /\ peer_mifs' = [peer_mifs EXCEPT ![n] = mifs]
        /\ tx_state' = [tx_state EXCEPT ![n] =
                IF Knows(table, m) /\ Usable(mifs, elected.sync_master)
                THEN elected ELSE @]
        /\ UNCHANGED <<transmitting, present>>

\* The MIF of a beacon is heard, or of a relay whose worker runs.
HearBeacon(n, b) ==
    /\ b \in present
    /\ \E mif \in Mifs[b] : Observe(n, b, mif)

HearRelay(n, m) ==
    /\ m \in transmitting
    /\ Observe(n, m, [report |-> tx_state[m], schedule |-> TRUE])

Hear(n, m) == <<n, m>> \in Hears /\ (HearBeacon(n, m) \/ HearRelay(n, m))

\* Any other frame of m: espdrop_awdl_election_touch.
Touch(n, m) ==
    /\ <<n, m>> \in Hears
    /\ m \in transmitting \cup present
    /\ Knows(peers[n], m)
    /\ peers' = [peers EXCEPT ![n] = [i \in DOMAIN @ |->
            IF @[i].address = m THEN [@[i] EXCEPT !.age = 0] ELSE @[i]]]
    /\ UNCHANGED <<state, peer_mifs, tx_state, transmitting, present>>

Older(p) == IF p.age > Timeout THEN p ELSE [p EXCEPT !.age = @ + 1]

\* Time passes.
Tick ==
    /\ Punctual => \A n \in Relays : \A i \in DOMAIN peers[n] :
            peers[n][i].address \in transmitting \cup present
                => peers[n][i].age < Timeout
    /\ peers' = [n \in Relays |-> [i \in DOMAIN peers[n] |-> Older(peers[n][i])]]
    /\ UNCHANGED <<state, peer_mifs, tx_state, transmitting, present>>

Leave(b) ==
    /\ b \in present \cap Leaving
    /\ present' = present \ {b}
    /\ UNCHANGED <<peers, state, peer_mifs, tx_state, transmitting>>

\* A run was requested and there is a state to announce: lab_tx_task sends the
\* relay's MIFs ...
WorkerStarts(n) ==
    /\ n \notin transmitting /\ tx_state[n] # NoState
    /\ transmitting' = transmitting \cup {n}
    /\ UNCHANGED <<peers, state, peer_mifs, tx_state, present>>

\* ... until its deadline or its frame limit.  tx_state stays for the next run.
WorkerEnds(n) ==
    /\ n \in transmitting \cap Pausing
    /\ transmitting' = transmitting \ {n}
    /\ UNCHANGED <<peers, state, peer_mifs, tx_state, present>>

Next ==
    \/ \E n \in Relays, m \in Addresses : Hear(n, m) \/ Touch(n, m)
    \/ Tick
    \/ \E b \in Leaving : Leave(b)
    \/ \E n \in Relays : WorkerStarts(n) \/ WorkerEnds(n)

Safety == Init /\ [][Next]_vars

\* Whoever transmits is heard again and again, and time goes on.
Spec == Safety /\ (\A h \in Hears : WF_vars(Hear(h[1], h[2]))) /\ WF_vars(Tick)

-----------------------------------------------------------------------------
(***************************************************************************)
(* Properties.                                                             *)
(***************************************************************************)

\* The elected state is at every moment the one the current table calls for,
\* also after expiry has moved the array under the selected parent: the
\* parent is in the table, no eligible entry beats it or, without a parent,
\* the relay itself (run_election, espdrop_awdl_election_sync_peer).  No
\* relay is further down a tree than the limit.
ElectsBest ==
    \A n \in Relays :
        /\ state[n].distance_to_master <= TreeMaxHeight
        /\ LET eligible == {p \in ToSet(peers[n]) : Eligible(n, p)}
               stronger == {p \in eligible : Better(p, Candidate(n))}
           IN  IF stronger = {} THEN state[n] = SelfState(n)
               ELSE \E p \in stronger :
                       /\ \A q \in stronger : ~Better(q, p)
                       /\ state[n] = Below(p)

Entry(b, mif) == [address |-> b, report |-> mif.report, age |-> 0]

\* The beacons every relay prefers to itself, and the best of them.
Masters == {b \in present : \A m \in Mifs[b], n \in Relays :
                Eligible(n, Entry(b, m)) /\ Better(Entry(b, m), Candidate(n))}
TopMasters == {b \in Masters : \A c \in Masters, m \in Mifs[b] :
                    \A k \in Mifs[c] : ~Better(Entry(c, k), Entry(b, m))}

Leads(b) == \A n \in Relays :
    /\ state[n].master = b
    /\ state[n].distance_to_master = (IF <<n, b>> \in Hears THEN 1 ELSE 2)

\* A relay whose neighbours hear of the network only from it.
Root(n) ==
    \A m \in Relays : \A h \in Hears : <<n, m>> \in Hears /\ h[1] = m => h[2] = n

Settled ==
    IF TopMasters # {} THEN \A b \in TopMasters : Leads(b)
    ELSE \A n \in Relays : Root(n) => state[n] = SelfState(n)

\* While the relays go on transmitting, they end up below the strongest beacon
\* that is left, each by the shortest way; where none is left that beats them,
\* the relay the others hear the network from is its own master, although its
\* neighbours still announce the old one through it: a master that left does
\* not come back from below ("compares top-master counter and metric,
\* distance, and MAC tie-breaks; rejects cycles", docs/awdl.md:292).  Workers
\* may end and start before.
\*
\* This is a claim about a chain of relays under one root, and about nothing
\* more, although the same document goes on "expires peers ... The transmitted
\* MIF state is regenerated from that election".  A relay that elects itself
\* finds no MIF of its own to make a state from (dynamic_election_candidate)
\* and goes on announcing the master that left: where two relays heard that
\* master, the one that falls back first may keep the other below it for good.
Converges == <>[](transmitting = Relays) => <>[]Settled

=============================================================================
