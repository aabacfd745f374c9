---------------------------- MODULE AwdlReception ----------------------------
(***************************************************************************)
(* What the relay learns from the frames it overhears.  The Wi-Fi task runs *)
(* promiscuous_rx and hands frames over through bounded queues, dropping    *)
(* what does not fit; the probe task takes records and captured MIFs from   *)
(* them (awdl_probe.c), the receive task takes IPv6 frames (awdl_netif.c).  *)
(* MIFs and Neighbor Advertisements both write lwIP's neighbor cache, which *)
(* lwIP also changes by itself; all three do so in the tcpip task.          *)
(*                                                                         *)
(* Dynamic election, as every build that transmits configures it.  Frames   *)
(* of the station itself are ignored by the code and not modelled.          *)
(***************************************************************************)
EXTENDS Naturals, Sequences, FiniteSets

CONSTANTS
    Devices,        \* source addresses of AWDL frames
    Contents,       \* device -> what its MIFs may contain
    Contacts,       \* devices that the relay exchanges IPv6 traffic with
    CapturePeers,   \* AWDL_CAPTURE_PEERS
    CaptureDepth, RecordDepth,  \* queue lengths of espdrop_awdl_probe_start
    RxDepth,        \* AWDL_NETIF_RX_QUEUE_DEPTH
    SampledActions, \* action frames recorded whatever they are
    MaxPeers,       \* ESPDROP_MAX_PEERS
    Neighbors,      \* LWIP_ND6_NUM_NEIGHBORS
    NoOne           \* no device: the source of a frame that is not AWDL

\* A MIF that does not parse, one without version and device class, and one
\* for which espdrop_awdl_mif_peer_valid holds.
MifContent == {"malformed", "plain", "valid"}

ASSUME ReceptionAssumption ==
    /\ IsFiniteSet(Devices) /\ NoOne \notin Devices
    /\ Contents \in [Devices -> SUBSET MifContent]
    /\ Contacts \subseteq Devices
    /\ \A n \in {CapturePeers, CaptureDepth, RecordDepth, RxDepth, MaxPeers,
                 Neighbors} : n \in Nat \ {0}
    /\ SampledActions \in Nat

VARIABLES
    sampled,        \* sampled_mif_sources
    actions,        \* action_candidates, up to SampledActions
    callback,       \* records promiscuous_rx has yet to send: at most one
    capture_queue, record_queue,
    probe,          \* where probe_log_task is
    table,          \* peer table: device -> "absent", "seen" or "mif_seen"
    observed,       \* devices whose MIF espdrop_awdl_tx_lab_observe_mif has had
    rx_queue,       \* senders of the Neighbor Advertisements in it
    cache           \* lwIP's neighbor_cache

radioVars == <<sampled, actions, callback>>
probeVars == <<capture_queue, record_queue, probe, table, observed>>
netVars == <<rx_queue, cache>>
vars == <<radioVars, probeVars, netVars>>

Slots == 1 .. Neighbors

\* An entry and whether lwIP holds a packet on it until it is resolved.
Unused == [next_hop |-> NoOne, state |-> "none", q |-> FALSE]
Entry == {Unused} \cup
    [next_hop : Devices, state : {"incomplete", "reachable"}, q : BOOLEAN]

Record == [source : Devices \cup {NoOne}, decoded_awdl : BOOLEAN]
Capture == [source : Devices, content : MifContent]

\* Each queue within its length, the tables within theirs, and packets held
\* only on entries that are being resolved.
TypeOK ==
    /\ sampled \subseteq Devices /\ Cardinality(sampled) <= CapturePeers
    /\ actions \in 0 .. SampledActions
    /\ callback \in {<<>>} \cup {<<r>> : r \in Record}
    /\ capture_queue \in Seq(Capture) /\ Len(capture_queue) <= CaptureDepth
    /\ record_queue \in Seq(Record) /\ Len(record_queue) <= RecordDepth
    /\ probe \in {"records", "captures"}
    /\ table \in [Devices -> {"absent", "seen", "mif_seen"}]
    /\ Cardinality({d \in Devices : table[d] # "absent"}) <= MaxPeers
    /\ observed \subseteq Devices
    /\ rx_queue \in Seq(Contacts)
    /\ Len(rx_queue) <= RxDepth
    /\ cache \in [Slots -> Entry]
    /\ \A i \in Slots : cache[i].q => cache[i].state = "incomplete"

\* xQueueSend without waiting: what does not fit is dropped.
Send(queue, item, depth) ==
    IF Len(queue) < depth THEN Append(queue, item) ELSE queue

\* espdrop_awdl_netif_init
NetifInit == rx_queue = <<>> /\ cache = [i \in Slots |-> Unused]

\* espdrop_awdl_probe_start
Init ==
    /\ sampled = {} /\ actions = 0 /\ callback = <<>>
    /\ capture_queue = <<>> /\ record_queue = <<>>
    /\ probe = "records"
    /\ table = [d \in Devices |-> "absent"] /\ observed = {}
    /\ NetifInit

-----------------------------------------------------------------------------
(***************************************************************************)
(* The Wi-Fi task.                                                         *)
(***************************************************************************)

CountAction == actions' = IF actions < SampledActions THEN actions + 1 ELSE actions

\* espdrop_awdl_tx_lab_wants_mif
wants_mif(d) == d \in Devices

\* Mutant: one MIF of each source is enough.
should_capture_once(d) ==
    d \notin sampled /\ Cardinality(sampled) < CapturePeers

should_capture_mif(d) ==
    IF d \in sampled THEN wants_mif(d)
    ELSE Cardinality(sampled) < CapturePeers

\* A MIF: the frame is captured first, its record follows in a second step.
HearMif(d, content) ==
    /\ callback = <<>>
    /\ content \in Contents[d]
    /\ IF should_capture_mif(d)
       THEN /\ sampled' = sampled \cup {d}
            /\ capture_queue' = Send(capture_queue,
                    [source |-> d, content |-> content], CaptureDepth)
       ELSE UNCHANGED <<sampled, capture_queue>>
    /\ callback' = <<[source |-> d, decoded_awdl |-> TRUE]>>
    /\ CountAction
    /\ UNCHANGED <<record_queue, probe, table, observed, netVars>>

\* A periodic synchronization frame.
HearPsf(d) ==
    /\ callback = <<>>
    /\ callback' = <<[source |-> d, decoded_awdl |-> TRUE]>>
    /\ CountAction
    /\ UNCHANGED <<sampled, probeVars, netVars>>

\* An action frame that is not AWDL: the first few are recorded.
HearOther ==
    /\ callback = <<>> /\ actions < SampledActions
    /\ callback' = <<[source |-> NoOne, decoded_awdl |-> FALSE]>>
    /\ CountAction
    /\ UNCHANGED <<sampled, probeVars, netVars>>

RecordSent ==
    /\ callback # <<>>
    /\ record_queue' = Send(record_queue, callback[1], RecordDepth)
    /\ callback' = <<>>
    /\ UNCHANGED <<sampled, actions, capture_queue, probe, table, observed,
                   netVars>>

\* espdrop_awdl_netif_receive: unicast frames between others are filtered, and
\* what does not fit is dropped.
accepts(to) == to \in {"self", "group"}
netif_receive(d, to) ==
    /\ accepts(to)
    /\ Len(rx_queue) < RxDepth
    /\ rx_queue' = Append(rx_queue, d)

\* promiscuous_data_rx: a data frame that decodes and is not the relay's own.
\* Only Neighbor Advertisements are told apart; other packets leave the cache
\* alone.
HearData(d, to) ==
    /\ callback = <<>>
    /\ netif_receive(d, to)
    /\ UNCHANGED <<radioVars, probeVars, cache>>

-----------------------------------------------------------------------------
(***************************************************************************)
(* The neighbor cache.                                                     *)
(***************************************************************************)

EntriesOf(d) == {i \in Slots : cache[i].next_hop = d}
UnusedSlots == {i \in Slots : cache[i] = Unused}
First(slots) == CHOOSE i \in slots : \A j \in slots : i <= j

\* Mutant: the first slot that matches or is unused.
selected_slot_first(d) == EntriesOf(d) \cup UnusedSlots

\* Where add_awdl_neighbor looks: the entry of d, or else an unused one.
selected_slot(d) == IF EntriesOf(d) # {} THEN EntriesOf(d) ELSE UnusedSlots

\* Mutant: the entry is written over whatever lwIP holds on it.
add_awdl_neighbor_unchecked(d) ==
    IF selected_slot(d) = {} THEN UNCHANGED cache
    ELSE cache' = [cache EXCEPT
            ![First(selected_slot(d))].next_hop = d,
            ![First(selected_slot(d))].state = "reachable"]

\* add_awdl_neighbor, in the tcpip task: refused if the cache is full or a
\* packet is held on the entry.
add_awdl_neighbor(d) ==
    IF selected_slot(d) = {} \/ cache[First(selected_slot(d))].q
    THEN UNCHANGED cache
    ELSE cache' = [cache EXCEPT ![First(selected_slot(d))] =
            [next_hop |-> d, state |-> "reachable", q |-> FALSE]]

\* espdrop_awdl_netif_add_peer: tcpip_callback_wait may fail.
add_peer(d) == add_awdl_neighbor(d) \/ UNCHANGED cache

-----------------------------------------------------------------------------
(***************************************************************************)
(* The probe task: one record, or a second without one, then every capture *)
(* there is.                                                               *)
(***************************************************************************)

\* observe_awdl_peer: a new peer is entered while there is room.
ObservePeer(d) ==
    table' = IF /\ table[d] = "absent"
                /\ Cardinality({e \in Devices : table[e] # "absent"}) < MaxPeers
             THEN [table EXCEPT ![d] = "seen"] ELSE table

TakeRecord ==
    /\ probe = "records" /\ record_queue # <<>>
    /\ LET r == Head(record_queue)
       IN  IF r.decoded_awdl THEN ObservePeer(r.source) ELSE UNCHANGED table
    /\ record_queue' = Tail(record_queue)
    /\ probe' = "captures"
    /\ UNCHANGED <<radioVars, capture_queue, observed, netVars>>

RecordTimeout ==
    /\ probe = "records" /\ record_queue = <<>>
    /\ probe' = "captures"
    /\ UNCHANGED <<radioVars, capture_queue, record_queue, table, observed,
                   netVars>>

\* process_mif_capture: a valid peer becomes a neighbor; the peer table, if it
\* has the peer, and the transmitter get the MIF.
TakeCapture ==
    /\ probe = "captures" /\ capture_queue # <<>>
    /\ LET c == Head(capture_queue)
       IN  /\ IF c.content = "valid" THEN add_peer(c.source)
              ELSE UNCHANGED cache
           /\ IF c.content = "malformed" THEN UNCHANGED <<table, observed>>
              ELSE /\ observed' = observed \cup {c.source}
                   /\ table' = IF table[c.source] = "absent" THEN table
                               ELSE [table EXCEPT ![c.source] = "mif_seen"]
    /\ capture_queue' = Tail(capture_queue)
    /\ UNCHANGED <<radioVars, record_queue, probe, rx_queue>>

CapturesDrained ==
    /\ probe = "captures" /\ capture_queue = <<>>
    /\ probe' = "records"
    /\ UNCHANGED <<radioVars, capture_queue, record_queue, table, observed,
                   netVars>>

-----------------------------------------------------------------------------
(***************************************************************************)
(* The receive task and lwIP.                                              *)
(***************************************************************************)

\* esp_netif_receive: a Neighbor Advertisement resolves the entry of its
\* sender, and the packet held on it goes out.
Injected(d) ==
    cache' = [i \in Slots |->
        IF cache[i].next_hop = d
        THEN [next_hop |-> d, state |-> "reachable", q |-> FALSE]
        ELSE cache[i]]

\* rx_task
RxTask ==
    /\ rx_queue # <<>>
    /\ Injected(Head(rx_queue))
    /\ rx_queue' = Tail(rx_queue)
    /\ UNCHANGED <<radioVars, probeVars>>

\* rx_task without memory for the frame.
RxDropped ==
    /\ rx_queue # <<>>
    /\ rx_queue' = Tail(rx_queue)
    /\ UNCHANGED <<radioVars, probeVars, cache>>

\* lwIP sends to an address that is not resolved: it holds the packet on the
\* entry, or makes one, at the cost of a resolved one if none is unused.
LwipSend(d) ==
    LET resolvable ==
            IF EntriesOf(d) # {} THEN {i \in EntriesOf(d) : cache[i].state = "incomplete"}
            ELSE IF UnusedSlots # {} THEN {First(UnusedSlots)}
            ELSE {i \in Slots : ~cache[i].q}
    IN  /\ \E i \in resolvable : cache' = [cache EXCEPT ![i] =
                [next_hop |-> d, state |-> "incomplete", q |-> TRUE]]
        /\ UNCHANGED <<radioVars, probeVars, rx_queue>>

\* nd6_tmr gives an entry up, with the packet it holds.
NdTimeout(i) ==
    /\ cache[i] # Unused
    /\ cache' = [cache EXCEPT ![i] = Unused]
    /\ UNCHANGED <<radioVars, probeVars, rx_queue>>

Hear(d) == HearPsf(d) \/ \E c \in MifContent : HearMif(d, c)

Next ==
    \/ \E d \in Devices : Hear(d)
    \/ HearOther \/ RecordSent
    \/ TakeRecord \/ RecordTimeout \/ TakeCapture \/ CapturesDrained
    \/ \E d \in Contacts :
        \/ LwipSend(d)
        \/ \E to \in {"self", "group", "other"} : HearData(d, to)
    \/ RxTask \/ RxDropped
    \/ \E i \in Slots : NdTimeout(i)

\* The Wi-Fi task and the probe task are scheduled.
Fairness ==
    /\ WF_vars(RecordSent)
    /\ WF_vars(TakeRecord \/ RecordTimeout \/ TakeCapture \/ CapturesDrained)

Safety == Init /\ [][Next]_vars
Spec == Safety /\ Fairness

-----------------------------------------------------------------------------
(***************************************************************************)
(* Properties.                                                             *)
(***************************************************************************)

\* The neighbor cache has one entry for an address at most, although MIFs,
\* lwIP and its timers fill and empty slots in any order: add_awdl_neighbor
\* looks for the entry in all slots before it takes an unused one.
OneEntry ==
    \A i, j \in Slots :
        cache[i].next_hop = cache[j].next_hop /\ cache[i] # Unused => i = j

\* "Refuse to replace a queued NDP entry rather than leak or reorder
\* lwIP-owned pbufs" (awdl_netif.c:112): no MIF touches an entry on which
\* lwIP holds a packet, whichever device it is for.
HeldPacketKept ==
    [][Len(capture_queue') < Len(capture_queue)
        => \A i \in Slots : cache[i].q => cache'[i] = cache[i]]_vars

\* Captures do not come in for ever as fast as they are processed, which would
\* keep the probe task in its inner loop and away from the records.
ProbeKeepsUp == []<>(probe = "records")

\* A usable MIF arrives while there is room to capture it.
MifGetsThrough(d) ==
    /\ Len(capture_queue) < CaptureDepth
    /\ \E c \in MifContent \ {"malformed"} : HearMif(d, c)

\* There is room for the record of a frame.
RecordGetsThrough(d) ==
    /\ Len(record_queue) < RecordDepth
    /\ RecordSent /\ callback[1].source = d

\* The radio and the queues lose frames of d, but not all of them.
KeepsSending(d) ==
    []<><<MifGetsThrough(d)>>_vars /\ []<><<RecordGetsThrough(d)>>_vars

\* A captured MIF overtakes the record of its own frame, and is lost on the
\* peer table if it is the first frame of its device; records and captures
\* are dropped when their queue is full.  Nevertheless a device that was
\* sampled once and keeps sending is at last in the peer table with its MIF
\* (what automatic targeting needs, peer_table.c:172), and the transmitter
\* has had one too, as long as the probe task keeps up.
SampledIsTracked ==
    \A d \in Devices :
        ProbeKeepsUp /\ KeepsSending(d)
            => (d \in sampled ~> table[d] = "mif_seen" /\ d \in observed)

=============================================================================
