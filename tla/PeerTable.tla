----------------------------- MODULE PeerTable -----------------------------
(***************************************************************************)
(* The peer table of core/src/peer_table.c, as the probe task and the mDNS *)
(* task write it (awdl_probe.c, awdl_netif.c), and the two decisions that  *)
(* read it: proximity selection and TapDrop correlation (tapdrop/src).     *)
(* Every operation on the table holds the peer lock.                       *)
(*                                                                         *)
(* Time is in milliseconds and moves in steps of Step.  A frame may be     *)
(* processed one step after it was received.                               *)
(*                                                                         *)
(* The tasks of this firmware observe the layer "awdl" only and call       *)
(* neither espdrop_peer_table_expire nor tapdrop_select_peer: those are    *)
(* operations of the two libraries, modelled for their own sake.           *)
(***************************************************************************)
EXTENDS TableOps, Integers

CONSTANTS
    Ids, Ipv6,              \* peers, and the link-local address of each
    Rssi,                   \* layer ("awdl", "ble") -> strengths in dBm
    Mifs,                   \* what MIFs tell of their sender
    Expires,                \* someone calls espdrop_peer_table_expire
    MaxPeers,               \* ESPDROP_MAX_PEERS
    Step, MaxSteps,         \* bound: the clock stops after so many steps
    MaxAge,                 \* ..._AUTO_TARGET_MAX_AGE_MS
    MinRssi, MinMargin,     \* ..._MIN_RSSI, ..._MARGIN_DB
    SessionWindow,          \* TAPDROP_SESSION_WINDOW_MS
    PreTapGrace,            \* pre_tap_grace_ms
    MinimumScore, AmbiguityMargin

Clock == {k * Step : k \in 0 .. MaxSteps}

ASSUME TableAssumption ==
    /\ DOMAIN Ipv6 = Ids
    /\ Rssi \in [{"awdl", "ble"} -> SUBSET (-126 .. 0)]
    /\ Mifs \subseteq [valid : BOOLEAN, airdrop : BOOLEAN, endpoint : BOOLEAN]
    /\ Expires \in BOOLEAN
    /\ MaxPeers \in Nat \ {0} /\ Step \in Nat \ {0} /\ MaxSteps \in Nat \ {0}
    /\ MaxAge \in Nat /\ MinRssi \in -127 .. 0 /\ MinMargin \in Nat
    /\ SessionWindow \in Nat \ {0} /\ PreTapGrace \in Nat
    /\ MinimumScore \in Nat /\ AmbiguityMargin \in Nat

VARIABLES
    peers,      \* espdrop_peer_table_t, in array order
    now,        \* esp_timer
    tap_ms      \* of the TapDrop session, 0 before the first tap

vars == <<peers, now, tap_ms>>

Peer == [id : Ids, signals : SUBSET {"awdl", "ble", "airdrop"},
         ble_rssi : Rssi["ble"] \cup {-127},
         awdl_rssi : Rssi["awdl"] \cup {-127},
         first_seen : Clock, last_seen : Clock, ble_seen : Clock,
         awdl_seen : Clock, airdrop_seen : Clock,
         peer_valid : BOOLEAN, endpoint_complete : BOOLEAN]

TypeOK ==
    /\ peers \in Seq(Peer) /\ Len(peers) <= MaxPeers
    /\ now \in Clock \ {0} /\ tap_ms \in Clock

Init == peers = <<>> /\ now = Step /\ tap_ms = 0

Tick ==
    /\ now < MaxSteps * Step
    /\ now' = now + Step
    /\ UNCHANGED <<peers, tap_ms>>

\* When a frame that is processed now may have been received.
Received == {now, now - Step} \ {0}

-----------------------------------------------------------------------------
(***************************************************************************)
(* Table.                                                                  *)
(***************************************************************************)

Knows(id) == \E i \in DOMAIN peers : peers[i].id = id

Fresh(id, seen) ==
    [id |-> id, signals |-> {}, ble_rssi |-> -127, awdl_rssi |-> -127,
     first_seen |-> seen, last_seen |-> 0, ble_seen |-> 0, awdl_seen |-> 0,
     airdrop_seen |-> 0, peer_valid |-> FALSE, endpoint_complete |-> FALSE]

Later(a, b) == IF a > b THEN a ELSE b

\* Mutant: the time of the last observation is that of the last call.
Observed_as_processed(p, layer, rssi, seen) ==
    LET q == [p EXCEPT !.signals = @ \cup {layer}, !.last_seen = seen]
    IN  IF layer = "ble" THEN [q EXCEPT !.ble_seen = seen, !.ble_rssi = rssi]
                         ELSE [q EXCEPT !.awdl_seen = seen, !.awdl_rssi = rssi]

\* What espdrop_peer_table_observe writes into an entry.
Observed(p, layer, rssi, seen) ==
    LET q == [p EXCEPT !.signals = @ \cup {layer},
                       !.last_seen = Later(@, seen)]
    IN  IF layer = "ble" THEN [q EXCEPT !.ble_seen = seen, !.ble_rssi = rssi]
                         ELSE [q EXCEPT !.awdl_seen = seen, !.awdl_rssi = rssi]

Written(p, Update(_)) ==
    [i \in DOMAIN peers |-> IF peers[i].id = p THEN Update(peers[i]) ELSE peers[i]]

\* espdrop_peer_table_observe; a full table refuses a new peer.
Observe(id, layer, rssi, seen) ==
    /\ Knows(id) \/ Len(peers) < MaxPeers
    /\ LET set(p) == Observed(p, layer, rssi, seen)
       IN  peers' = IF Knows(id) THEN Written(id, set)
                    ELSE Append(peers, set(Fresh(id, seen)))
    /\ UNCHANGED <<now, tap_ms>>

\* apply_mif_to_peer: validity, and the AirDrop service if it is advertised.
ApplyMif(id, mif, seen) ==
    /\ Knows(id)
    /\ LET set(p) ==
             LET q == [p EXCEPT !.peer_valid = mif.valid]
             IN  IF ~mif.airdrop THEN q
                 ELSE [q EXCEPT !.signals = @ \cup {"airdrop"},
                                !.airdrop_seen = seen,
                                !.endpoint_complete = @ \/ mif.endpoint]
       IN  peers' = Written(id, set)
    /\ UNCHANGED <<now, tap_ms>>

\* espdrop_peer_table_apply_airdrop_endpoint, from publish_complete_service:
\* the one AWDL peer with that address.
ApplyEndpoint(ipv6) ==
    LET matches == {i \in DOMAIN peers :
                        "awdl" \in peers[i].signals /\ Ipv6[peers[i].id] = ipv6}
        set(p) == [p EXCEPT !.signals = @ \cup {"airdrop"},
                            !.airdrop_seen = now,
                            !.last_seen = Later(@, now),
                            !.endpoint_complete = TRUE]
    IN  /\ \E i \in matches : matches = {i} /\ peers' = Written(peers[i].id, set)
        /\ UNCHANGED <<now, tap_ms>>

\* espdrop_peer_table_expire
Expire(age) ==
    /\ Expires
    /\ peers' = Compact(peers, {i \in DOMAIN peers :
            peers[i].last_seen > now \/ now - peers[i].last_seen <= age})
    /\ UNCHANGED <<now, tap_ms>>

-----------------------------------------------------------------------------
(***************************************************************************)
(* The loop of both decisions: the places of the best candidate and of the *)
(* runner-up in the array, 0 for none.  (TapDrop keeps their scores.)      *)
(***************************************************************************)

\* Mutant: a new best candidate does not make the former one the runner-up.
Rank_forgets(r, i, strength) ==
    IF r.best = 0 \/ strength[i] > strength[r.best]
    THEN [r EXCEPT !.best = i]
    ELSE IF r.runner_up = 0 \/ strength[i] > strength[r.runner_up]
         THEN [r EXCEPT !.runner_up = i] ELSE r

\* The candidate at place i.
Rank(r, i, strength) ==
    IF r.best = 0 \/ strength[i] > strength[r.best]
    THEN [best |-> i, runner_up |-> r.best]
    ELSE IF r.runner_up = 0 \/ strength[i] > strength[r.runner_up]
         THEN [r EXCEPT !.runner_up = i] ELSE r

\* All candidates, in array order.
Ranked(candidates, strength) ==
    LET rank[i \in 0 .. Len(peers)] ==
            IF i = 0 THEN [best |-> 0, runner_up |-> 0]
            ELSE IF i \in candidates THEN Rank(rank[i - 1], i, strength)
                 ELSE rank[i - 1]
    IN  rank[Len(peers)]

\* Both decide for the best unless the runner-up is within the margin.
Leader(r, strength, margin) ==
    IF r.best # 0 /\ r.runner_up # 0 /\ strength[r.best] - strength[r.runner_up] < margin
    THEN 0 ELSE r.best

-----------------------------------------------------------------------------
(***************************************************************************)
(* Proximity selection.                                                    *)
(***************************************************************************)

Recent(seen) == seen <= now /\ now - seen <= MaxAge

\* A live AirDrop receiver, with or without a complete endpoint.
Live(p, endpoint) ==
    /\ {"awdl", "airdrop"} \subseteq p.signals
    /\ p.peer_valid
    /\ endpoint => p.endpoint_complete
    /\ Recent(p.awdl_seen) /\ Recent(p.airdrop_seen)

Near(p, endpoint) == Live(p, endpoint) /\ p.awdl_rssi >= MinRssi

\* espdrop_peer_table_select_airdrop_proximity: the place of a peer, or 0 when
\* there is no candidate or the lead is too small.
Proximity(endpoint) ==
    LET near == {i \in DOMAIN peers : Near(peers[i], endpoint)}
        rssi == [i \in DOMAIN peers |-> peers[i].awdl_rssi]
    IN  Leader(Ranked(near, rssi), rssi, MinMargin)

-----------------------------------------------------------------------------
(***************************************************************************)
(* TapDrop.                                                                *)
(***************************************************************************)

\* field_isr, or tapdrop_signal_tap with a time of its own.
Tap(at) ==
    /\ tap_ms' = at
    /\ UNCHANGED <<peers, now>>

WithinWindow(t, before, after) ==
    IF t >= tap_ms THEN t - tap_ms <= after ELSE tap_ms - t <= before

Points(condition, n) == IF condition THEN n ELSE 0

RecencyScore(seen, at) ==
    LET reference == Later(seen, tap_ms)
        age == at - reference
    IN  Points(reference <= at /\ age < 5000, 200 - (age * 200) \div 5000)

RssiScore(rssi, most) ==
    Points(rssi > -100, ((Later(rssi, -100) + 100) * most) \div 80)

\* Candidates of score_peer, and their score for a call at time at.
Scored(p) ==
    /\ "airdrop" \in p.signals
    /\ WithinWindow(p.last_seen, PreTapGrace, SessionWindow)

Score(p, at) ==
    LET ble == "ble" \in p.signals
        awdl == "awdl" \in p.signals
        appeared == p.first_seen >= tap_ms /\ p.first_seen - tap_ms <= SessionWindow
    IN  Points(appeared, 320)
        + Points(~appeared /\ WithinWindow(p.first_seen, PreTapGrace, 0), 80)
        + RecencyScore(p.last_seen, at)
        + Points(ble /\ awdl, 180) + Points(awdl /\ ~ble, 100)
        + Points(ble /\ ~awdl, 80)
        + Points(ble /\ WithinWindow(p.ble_seen, PreTapGrace, SessionWindow),
                 RssiScore(p.ble_rssi, 120))
        + Points(awdl /\ WithinWindow(p.awdl_seen, PreTapGrace, SessionWindow),
                 RssiScore(p.awdl_rssi, 80))

\* tapdrop_current_session
SessionActive == tap_ms # 0 /\ now <= tap_ms + SessionWindow

\* tapdrop_select_peer for a caller that read the clock at time at: the place
\* of the matched peer or 0.
SelectPeer(at) ==
    LET scored == {i \in DOMAIN peers : Scored(peers[i])}
        score == [i \in DOMAIN peers |-> Score(peers[i], at)]
        r == Ranked(scored, score)
    IN  IF \/ ~SessionActive
           \/ at >= tap_ms /\ at - tap_ms > SessionWindow
           \/ r.best = 0
        THEN 0
        ELSE IF score[r.best] < MinimumScore THEN 0
        ELSE Leader(r, score, AmbiguityMargin)

-----------------------------------------------------------------------------

Next ==
    \/ Tick
    \/ \E id \in Ids, seen \in Received :
        \/ \E layer \in DOMAIN Rssi : \E rssi \in Rssi[layer] :
                Observe(id, layer, rssi, seen)
        \/ \E mif \in Mifs : ApplyMif(id, mif, seen)
    \/ \E id \in Ids : ApplyEndpoint(Ipv6[id])
    \/ Expire(MaxAge)
    \/ \E at \in Received : Tap(at)

Spec == Init /\ [][Next]_vars

-----------------------------------------------------------------------------
(***************************************************************************)
(* Properties.                                                             *)
(***************************************************************************)

\* last_seen_ms, by which expiry and TapDrop judge a peer, is never behind
\* its first or its layer observations, in whatever order frames are
\* processed, and a peer has one entry, whoever observes it and however the
\* array was compacted (espdrop_peer_table_observe, espdrop_peer_table_expire).
Chronology ==
    \A i \in DOMAIN peers :
        LET p == peers[i]
        IN  /\ p.first_seen <= p.last_seen
            /\ p.awdl_seen <= p.last_seen /\ p.ble_seen <= p.last_seen
            /\ \A j \in DOMAIN peers : p.id = peers[j].id => i = j

\* The candidate at place i leads all others by the margin.
Decisive(i, candidates, strength, margin) ==
    \A j \in candidates \ {i} : strength[i] - strength[j] >= margin

\* Proximity selects exactly the live candidate that leads all others, whatever
\* the order of the array: "remain ambiguous instead of selecting by arrival
\* order" (README.md:65; espdrop_peer_table_select_airdrop_proximity).
ProximityByLead ==
    \A endpoint \in BOOLEAN :
        LET near == {i \in DOMAIN peers : Near(peers[i], endpoint)}
            rssi == [i \in DOMAIN peers |-> peers[i].awdl_rssi]
            selected == Proximity(endpoint)
        IN  IF selected = 0
            THEN \A i \in near : ~Decisive(i, near, rssi, MinMargin)
            ELSE selected \in near /\ Decisive(selected, near, rssi, MinMargin)

\* A tap selects a peer only while its session lasts, whenever the caller
\* read the clock, and only a candidate that leads every other one by the
\* margin: "A score never bypasses ambiguity handling" (tapdrop/README.md:7).
TapByLead ==
    \A at \in {t \in Clock : t <= now} :
        LET scored == {i \in DOMAIN peers : Scored(peers[i])}
            score == [i \in DOMAIN peers |-> Score(peers[i], at)]
            selected == SelectPeer(at)
        IN  selected # 0 =>
                /\ now - tap_ms <= SessionWindow
                /\ selected \in scored
                /\ Decisive(selected, scored, score, AmbiguityMargin)

\* Both decisions over the table, proximity and tap, are by lead and never by
\* arrival order.
ChosenByLead == ProximityByLead /\ TapByLead

=============================================================================
