------------------------ MODULE AwdlReceptionProofs ------------------------
(***************************************************************************)
(* The neighbor cache under MIFs, advertisements, lwIP and its timers, and   *)
(* the queues and tables that lead to it.                                   *)
(***************************************************************************)
EXTENDS AwdlReception, FiniteSetTheorems, WellFoundedInduction, TLAPS

\* What a step finds in the cache and in the queues that lead to it.
CacheTyped ==
    /\ cache \in [Slots -> Entry]
    /\ capture_queue \in Seq(Capture)
    /\ rx_queue \in Seq(Contacts)

CacheInv == CacheTyped /\ OneEntry

\* What xQueueReceive takes from a queue has its type, and shortens it.
LEMMA TakenFromQueue ==
    ASSUME NEW S, NEW s \in Seq(S), s # <<>>
    PROVE  Head(s) \in S /\ Tail(s) \in Seq(S) /\ Len(Tail(s)) < Len(s)
OBVIOUS

\* What xQueueSend leaves, dropped or not, has the queue's type and is no
\* shorter.
LEMMA SentToQueue ==
    ASSUME NEW S, NEW s \in Seq(S), NEW x \in S, NEW n
    PROVE  Send(s, x, n) \in Seq(S) /\ Len(s) <= Len(Send(s, x, n))
BY DEF Send

\* First is the lowest slot of any that there are.
LEMMA FirstIsMember ==
    ASSUME NEW S \in SUBSET Slots, S # {}
    PROVE  First(S) \in S
<1>1. S \subseteq Nat
  BY ReceptionAssumption DEF Slots
<1>2. PICK i \in S : \A j \in S : ~(<<j, i>> \in OpToRel(<, Nat))
  BY <1>1, NatLessThanWellFounded, WFMin
<1>3. ASSUME NEW j \in S
      PROVE  i <= j
  <2>1. i \in Nat /\ j \in Nat
    BY <1>1
  <2>2. ~(j < i)
    BY <2>1, <1>2 DEF OpToRel
  <2> QED  BY <2>1, <2>2
<1>4. \E k \in S : \A j \in S : k <= j
  BY <1>3
<1> QED  BY <1>4 DEF First

\* A step that leaves all of them alone.
LEMMA CacheUntouched ==
    ASSUME CacheInv, UNCHANGED <<cache, capture_queue, rx_queue>>
    PROVE  CacheInv'
BY DEF CacheInv, CacheTyped, OneEntry, Unused, Slots, Entry

\* Slot i is given to d, which has no other.
LEMMA SlotGiven ==
    ASSUME CacheInv, NEW d \in Devices, NEW i \in Slots,
           EntriesOf(d) \subseteq {i},
           NEW e \in Entry, e.next_hop = d, cache' = [cache EXCEPT ![i] = e]
    PROVE  cache' \in [Slots -> Entry] /\ OneEntry'
<1>1. cache' \in [Slots -> Entry]
  BY DEF CacheInv, CacheTyped
<1>2. ASSUME NEW j \in Slots, NEW k \in Slots,
             cache'[j].next_hop = cache'[k].next_hop, cache'[j] # Unused
      PROVE  j = k
  <2>1. CASE j = i \/ k = i
    BY <1>2, <2>1 DEF CacheInv, CacheTyped, EntriesOf
  <2>2. CASE j # i /\ k # i
    BY <1>2, <2>2 DEF CacheInv, CacheTyped, OneEntry
  <2> QED  BY <2>1, <2>2
<1> QED  BY <1>1, <1>2 DEF OneEntry

\* A MIF adds a neighbor without making a second entry for it, and leaves an
\* entry with a held packet alone.
LEMMA NeighborAdded ==
    ASSUME CacheInv, NEW d \in Devices, add_awdl_neighbor(d)
    PROVE  /\ cache' \in [Slots -> Entry] /\ OneEntry'
           /\ \A i \in Slots : cache[i].q => cache'[i] = cache[i]
<1> DEFINE s == First(selected_slot(d))
<1>1. CASE UNCHANGED cache
  BY <1>1 DEF CacheInv, CacheTyped, OneEntry
<1>2. CASE selected_slot(d) # {} /\ ~cache[s].q
  <2>1. s \in selected_slot(d)
    <3>1. selected_slot(d) \in SUBSET Slots
      BY DEF selected_slot, EntriesOf, UnusedSlots
    <3> QED  BY <1>2, <3>1, FirstIsMember
  <2>2. s \in Slots
    BY <2>1 DEF selected_slot, EntriesOf, UnusedSlots
  <2>3. EntriesOf(d) \subseteq {s}
    <3>1. CASE EntriesOf(d) = {}
      BY <3>1
    <3>2. CASE EntriesOf(d) # {}
      <4>1. s \in EntriesOf(d)
        BY <2>1, <3>2 DEF selected_slot
      <4>2. cache[s] # Unused
        BY <4>1, ReceptionAssumption DEF EntriesOf, Unused
      <4> QED  BY <4>1, <4>2 DEF EntriesOf, CacheInv, OneEntry
    <3> QED  BY <3>1, <3>2
  <2>4. cache' = [cache EXCEPT ![s] =
            [next_hop |-> d, state |-> "reachable", q |-> FALSE]]
    BY <1>2 DEF add_awdl_neighbor
  <2>5. [next_hop |-> d, state |-> "reachable", q |-> FALSE] \in Entry
    BY DEF Entry
  <2>6. cache' \in [Slots -> Entry] /\ OneEntry'
    BY <2>2, <2>3, <2>4, <2>5, SlotGiven
  <2> QED  BY <1>2, <2>2, <2>4, <2>6 DEF CacheInv, CacheTyped
<1> QED  BY <1>1, <1>2 DEF add_awdl_neighbor

\* Advertisements change what is known of an address, not who has an entry.
LEMMA AdvertisementInjected ==
    ASSUME CacheInv, NEW d \in Devices, Injected(d)
    PROVE  cache' \in [Slots -> Entry] /\ OneEntry'
<1>1. \A i \in Slots : cache'[i].next_hop = cache[i].next_hop
  BY DEF Injected
<1>2. cache' \in [Slots -> Entry]
  BY DEF Injected, CacheInv, CacheTyped, Entry
<1>3. \A i \in Slots : cache[i] = Unused => cache'[i] = Unused
  BY ReceptionAssumption DEF Injected, Unused
<1> QED  BY <1>1, <1>2, <1>3 DEF CacheInv, OneEntry

\* Sending makes an entry only for an address that has none.
LEMMA SendingResolves ==
    ASSUME CacheInv, NEW d \in Contacts, LwipSend(d)
    PROVE  cache' \in [Slots -> Entry] /\ OneEntry'
<1> DEFINE e == [next_hop |-> d, state |-> "incomplete", q |-> TRUE]
<1>1. d \in Devices /\ e \in Entry
  BY ReceptionAssumption DEF Entry
<1>2. CASE EntriesOf(d) # {}
  <2>1. PICK i \in EntriesOf(d) : cache' = [cache EXCEPT ![i] = e]
    BY <1>2 DEF LwipSend
  <2>2. i \in Slots /\ cache[i] # Unused
    BY <1>1, <2>1, ReceptionAssumption DEF EntriesOf, Unused
  <2>3. EntriesOf(d) \subseteq {i}
    BY <2>1, <2>2 DEF EntriesOf, CacheInv, OneEntry
  <2> QED  BY <1>1, <2>1, <2>2, <2>3, SlotGiven
<1>3. CASE EntriesOf(d) = {}
  <2>1. UnusedSlots \in SUBSET Slots
    BY DEF UnusedSlots
  <2>2. \E i \in Slots : cache' = [cache EXCEPT ![i] = e]
    BY <1>3, <2>1, FirstIsMember DEF LwipSend
  <2> QED  BY <1>1, <1>3, <2>2, SlotGiven
<1> QED  BY <1>2, <1>3

\* The steps that write the cache.
LEMMA CaptureTaken ==
    ASSUME CacheInv, TakeCapture
    PROVE  /\ CacheInv'
           /\ \A i \in Slots : cache[i].q => cache'[i] = cache[i]
<1> DEFINE c == Head(capture_queue)
<1>1. c \in Capture /\ c.source \in Devices
      /\ capture_queue' \in Seq(Capture)
  <2>1. capture_queue \in Seq(Capture) /\ capture_queue # <<>>
        /\ capture_queue' = Tail(capture_queue)
    BY DEF TakeCapture, CacheInv, CacheTyped
  <2>2. c \in Capture /\ capture_queue' \in Seq(Capture)
    BY <2>1, TakenFromQueue
  <2> QED  BY <2>2 DEF Capture
<1>2. CASE add_awdl_neighbor(c.source)
  <2>1. /\ cache' \in [Slots -> Entry] /\ OneEntry'
        /\ \A i \in Slots : cache[i].q => cache'[i] = cache[i]
    BY <1>1, <1>2, NeighborAdded
  <2> QED  BY <1>1, <2>1 DEF TakeCapture, CacheInv, CacheTyped
<1>3. CASE UNCHANGED cache
  BY <1>1, <1>3 DEF TakeCapture, CacheInv, CacheTyped, OneEntry
<1> QED  BY <1>2, <1>3 DEF TakeCapture, add_peer

\* Initially and after every step, the cache is well-formed and no address
\* has two entries.
THEOREM CacheInvariant == Safety => []CacheInv
<1>1. Init => CacheInv
  BY DEF Init, NetifInit, CacheInv, CacheTyped, OneEntry, Entry
<1>2. CacheInv /\ [Next]_vars => CacheInv'
  <2> SUFFICES ASSUME CacheInv, [Next]_vars
               PROVE  CacheInv'
    OBVIOUS
  <2>1. ASSUME NEW d \in Devices, NEW c \in MifContent, HearMif(d, c)
        PROVE  CacheInv'
    <3>1. capture_queue' \in Seq(Capture)
      <4>1. [source |-> d, content |-> c] \in Capture
        BY DEF Capture
      <4>2. capture_queue \in Seq(Capture)
        BY DEF CacheInv, CacheTyped
      <4> QED  BY <2>1, <4>1, <4>2, SentToQueue DEF HearMif
    <3>2. UNCHANGED <<cache, rx_queue>>
      BY <2>1 DEF HearMif, netVars
    <3> QED  BY <3>1, <3>2 DEF CacheInv, CacheTyped, OneEntry
  <2>2. ASSUME NEW d \in Devices, HearPsf(d)
        PROVE  CacheInv'
    BY <2>2, CacheUntouched DEF HearPsf, probeVars, netVars
  <2>3. CASE HearOther
    BY <2>3, CacheUntouched DEF HearOther, probeVars, netVars
  <2>4. CASE RecordSent
    BY <2>4, CacheUntouched DEF RecordSent, netVars
  <2>5. CASE TakeRecord
    BY <2>5, CacheUntouched DEF TakeRecord, netVars
  <2>6. CASE RecordTimeout
    BY <2>6, CacheUntouched DEF RecordTimeout, netVars
  <2>7. CASE TakeCapture
    BY <2>7, CaptureTaken
  <2>8. CASE CapturesDrained
    BY <2>8, CacheUntouched DEF CapturesDrained, netVars
  <2>9. ASSUME NEW d \in Contacts, LwipSend(d)
        PROVE  CacheInv'
    <3>1. UNCHANGED <<capture_queue, rx_queue>>
      BY <2>9 DEF LwipSend, probeVars
    <3> QED  BY <2>9, <3>1, SendingResolves DEF CacheInv, CacheTyped
  <2>10. ASSUME NEW d \in Contacts, NEW to, HearData(d, to)
         PROVE  CacheInv'
    <3>1. UNCHANGED <<cache, capture_queue>>
      BY <2>10 DEF HearData, probeVars
    <3>2. rx_queue' = Append(rx_queue, d)
      BY <2>10 DEF HearData, netif_receive
    <3> QED  BY <3>1, <3>2 DEF CacheInv, CacheTyped, OneEntry
  <2>11. CASE RxTask
    <3>1. rx_queue \in Seq(Contacts) /\ rx_queue # <<>> /\ rx_queue' = Tail(rx_queue)
      BY <2>11 DEF RxTask, CacheInv, CacheTyped
    <3>2. Head(rx_queue) \in Contacts /\ rx_queue' \in Seq(Contacts)
      BY <3>1, TakenFromQueue
    <3>3. Head(rx_queue) \in Devices
      BY <3>2, ReceptionAssumption
    <3>4. cache' \in [Slots -> Entry] /\ OneEntry'
      BY <2>11, <3>3, AdvertisementInjected DEF RxTask
    <3> QED  BY <2>11, <3>2, <3>4 DEF RxTask, probeVars, CacheInv, CacheTyped
  <2>12. CASE RxDropped
    <3>1. rx_queue' \in Seq(Contacts)
      <4>1. rx_queue \in Seq(Contacts) /\ rx_queue # <<>> /\ rx_queue' = Tail(rx_queue)
        BY <2>12 DEF RxDropped, CacheInv, CacheTyped
      <4> QED  BY <4>1, TakenFromQueue
    <3>2. UNCHANGED <<cache, capture_queue>>
      BY <2>12 DEF RxDropped, probeVars
    <3> QED  BY <3>1, <3>2 DEF CacheInv, CacheTyped, OneEntry
  <2>13. ASSUME NEW i \in Slots, NdTimeout(i)
         PROVE  CacheInv'
    <3>1. cache' = [cache EXCEPT ![i] = Unused]
      BY <2>13 DEF NdTimeout
    <3>2. cache' \in [Slots -> Entry]
      BY <3>1 DEF CacheInv, CacheTyped, Entry
    <3>3. \A j \in Slots : cache'[j] # Unused => cache'[j] = cache[j]
      BY <3>1 DEF CacheInv, CacheTyped
    <3>4. ASSUME NEW j \in Slots, NEW k \in Slots, cache'[j] # Unused,
                 cache'[j].next_hop = cache'[k].next_hop
          PROVE  j = k
      <4>1. cache'[j].next_hop \in Devices
        BY <3>2, <3>4 DEF Entry
      <4>2. cache'[k] # Unused
        BY <3>4, <4>1, ReceptionAssumption DEF Unused
      <4> QED  BY <3>3, <3>4, <4>2 DEF CacheInv, OneEntry
    <3>5. UNCHANGED <<capture_queue, rx_queue>>
      BY <2>13 DEF NdTimeout, probeVars
    <3> QED  BY <3>2, <3>4, <3>5 DEF CacheInv, CacheTyped, OneEntry
  <2>14. CASE UNCHANGED vars
    BY <2>14, CacheUntouched DEF vars, probeVars, netVars
  <2> QED  BY <2>1, <2>2, <2>3, <2>4, <2>5, <2>6, <2>7, <2>8, <2>9, <2>10,
              <2>11, <2>12, <2>13, <2>14 DEF Next, Hear
<1> QED  BY <1>1, <1>2, PTL DEF Safety

\* For any number of devices, slots and queue lengths: lwIP's neighbor cache
\* never has two entries for one address.
THEOREM OneEntryPerAddress == Safety => []OneEntry
<1>1. CacheInv => OneEntry
  BY DEF CacheInv
<1> QED  BY <1>1, CacheInvariant, PTL

\* For any number of devices, slots and queue lengths: a MIF never takes an
\* entry away from the packet lwIP holds on it.
THEOREM HeldPacketSurvives == Safety => HeldPacketKept
<1>1. CacheInv /\ [Next]_vars
        => [Len(capture_queue') < Len(capture_queue)
             => \A i \in Slots : cache[i].q => cache'[i] = cache[i]]_vars
  <2> SUFFICES ASSUME CacheInv, [Next]_vars,
                      Len(capture_queue') < Len(capture_queue)
               PROVE  \A i \in Slots : cache[i].q => cache'[i] = cache[i]
    OBVIOUS
  <2>1. capture_queue' # capture_queue
    BY DEF CacheInv, CacheTyped
  <2>2. ASSUME NEW d \in Devices, NEW c \in MifContent, HearMif(d, c)
        PROVE  FALSE
    <3>1. [source |-> d, content |-> c] \in Capture
      BY DEF Capture
    <3>2. capture_queue \in Seq(Capture)
      BY DEF CacheInv, CacheTyped
    <3>3. capture_queue' = capture_queue
            \/ capture_queue' = Send(capture_queue,
                    [source |-> d, content |-> c], CaptureDepth)
      BY <2>2 DEF HearMif
    <3>4. Len(capture_queue) <= Len(capture_queue')
      BY <3>1, <3>2, <3>3, SentToQueue
    <3> QED  BY <3>2, <3>3, <3>4, SentToQueue
  <2>3. TakeCapture
    BY <2>1, <2>2 DEF Next, Hear, HearPsf, HearOther, RecordSent, TakeRecord,
       RecordTimeout, CapturesDrained, LwipSend, HearData, RxTask, RxDropped,
       NdTimeout, vars, probeVars, netVars
  <2> QED  BY <2>3, CaptureTaken
<1> QED  BY <1>1, CacheInvariant, PTL DEF Safety, HeldPacketKept

-----------------------------------------------------------------------------
(***************************************************************************)
(* Limits: the queues, the list of sampled sources and the peer table.     *)
(***************************************************************************)

\* TypeOK, without what the cache invariant says already.
RadioTyped ==
    /\ sampled \subseteq Devices /\ Cardinality(sampled) <= CapturePeers
    /\ actions \in 0 .. SampledActions
    /\ callback \in {<<>>} \cup {<<r>> : r \in Record}

QueuesTyped ==
    /\ Len(capture_queue) <= CaptureDepth
    /\ record_queue \in Seq(Record) /\ Len(record_queue) <= RecordDepth
    /\ Len(rx_queue) <= RxDepth

PeersTyped ==
    /\ probe \in {"records", "captures"}
    /\ table \in [Devices -> {"absent", "seen", "mif_seen"}]
    /\ Cardinality({d \in Devices : table[d] # "absent"}) <= MaxPeers
    /\ observed \subseteq Devices

HeldTyped == \A i \in Slots : cache[i].q => cache[i].state = "incomplete"

LEMMA TypeParts ==
    CacheInv => (TypeOK <=> RadioTyped /\ QueuesTyped /\ PeersTyped /\ HeldTyped)
BY DEF CacheInv, CacheTyped, TypeOK, RadioTyped, QueuesTyped, PeersTyped, HeldTyped

\* xQueueSend keeps a queue within its length.
LEMMA QueueBounded ==
    ASSUME NEW S, NEW s \in Seq(S), NEW x \in S, NEW n \in Nat, Len(s) <= n
    PROVE  Len(Send(s, x, n)) <= n
BY DEF Send

\* A capture is of a device.
LEMMA CaptureSource ==
    ASSUME capture_queue \in Seq(Capture), capture_queue # <<>>
    PROVE  Head(capture_queue).source \in Devices
<1>1. Head(capture_queue) \in Capture
  BY TakenFromQueue
<1> QED  BY <1>1 DEF Capture

\* One more than a set of fewer than n devices is a set of n at most.
LEMMA RoomForOne ==
    ASSUME NEW S \in SUBSET Devices, NEW d, NEW T \in SUBSET (S \cup {d}), NEW n \in Nat,
           Cardinality(S) < n
    PROVE  Cardinality(T) <= n
<1>1. IsFiniteSet(S)
  BY ReceptionAssumption, FS_Subset
<1>2. IsFiniteSet(S \cup {d}) /\ Cardinality(S \cup {d}) <= Cardinality(S) + 1
  <2>1. /\ IsFiniteSet(S \cup {d})
        /\ Cardinality(S \cup {d}) = IF d \in S THEN Cardinality(S) ELSE Cardinality(S) + 1
    BY <1>1, FS_AddElement
  <2>2. Cardinality(S) \in Nat
    BY <1>1, FS_CardinalityType
  <2> QED  BY <2>1, <2>2
<1>3. Cardinality(T) <= Cardinality(S \cup {d}) /\ IsFiniteSet(T)
  BY <1>2, FS_Subset
<1> QED  BY <1>1, <1>2, <1>3, FS_CardinalityType

\* A source is listed only while the list has room (should_capture_mif).
LEMMA RadioStep ==
    ASSUME RadioTyped, [Next]_vars
    PROVE  RadioTyped'
<1>1. SampledActions \in Nat /\ CapturePeers \in Nat
  BY ReceptionAssumption
<1>2. CountAction => actions' \in 0 .. SampledActions
  BY <1>1 DEF RadioTyped, CountAction
<1>3. ASSUME NEW d \in Devices, NEW c \in MifContent, HearMif(d, c)
      PROVE  RadioTyped'
  <2>1. [source |-> d, decoded_awdl |-> TRUE] \in Record
    BY DEF Record
  <2>2. sampled' \subseteq Devices /\ Cardinality(sampled') <= CapturePeers
    <3>1. CASE sampled' = sampled
      BY <3>1 DEF RadioTyped
    <3>2. CASE sampled' = sampled \cup {d} /\ d \notin sampled
      <4>1. Cardinality(sampled) < CapturePeers
        BY <1>3, <3>2 DEF HearMif, should_capture_mif
      <4>2. sampled \in SUBSET Devices /\ sampled' \in SUBSET (sampled \cup {d})
        BY <3>2 DEF RadioTyped
      <4>3. Cardinality(sampled') <= CapturePeers
        BY <1>1, <4>1, <4>2, RoomForOne
      <4> QED  BY <4>2, <4>3
    <3> QED  BY <1>3, <3>1, <3>2 DEF HearMif
  <2> QED  BY <1>2, <1>3, <2>1, <2>2 DEF HearMif, RadioTyped
<1>4. ASSUME NEW d \in Devices, HearPsf(d)
      PROVE  RadioTyped'
  BY <1>2, <1>4 DEF HearPsf, RadioTyped, Record
<1>5. CASE HearOther
  BY <1>2, <1>5 DEF HearOther, RadioTyped, Record
<1>6. CASE RecordSent
  BY <1>6 DEF RecordSent, RadioTyped
<1>7. CASE UNCHANGED radioVars
  BY <1>7 DEF radioVars, RadioTyped
<1> QED  BY <1>3, <1>4, <1>5, <1>6, <1>7
         DEF Next, Hear, TakeRecord, RecordTimeout, TakeCapture, CapturesDrained, LwipSend,
             HearData, RxTask, RxDropped, NdTimeout, vars

\* Each of the three queues stays within its length.
LEMMA QueuesStep ==
    ASSUME CacheInv, RadioTyped, QueuesTyped, [Next]_vars
    PROVE  QueuesTyped'
<1> USE DEF CacheInv, CacheTyped, QueuesTyped
<1>1. CaptureDepth \in Nat /\ RecordDepth \in Nat /\ RxDepth \in Nat
  BY ReceptionAssumption
<1>2. ASSUME NEW d \in Devices, NEW c \in MifContent, HearMif(d, c)
      PROVE  QueuesTyped'
  <2>1. [source |-> d, content |-> c] \in Capture
    BY DEF Capture
  <2>2. Len(capture_queue') <= CaptureDepth
    BY <1>1, <1>2, <2>1, QueueBounded DEF HearMif
  <2> QED  BY <1>2, <2>2 DEF HearMif, netVars
<1>3. CASE RecordSent
  <2>1. callback[1] \in Record
    BY <1>3 DEF RecordSent, RadioTyped
  <2>2. record_queue' \in Seq(Record) /\ Len(record_queue') <= RecordDepth
    BY <1>1, <1>3, <2>1, SentToQueue, QueueBounded DEF RecordSent
  <2> QED  BY <1>3, <2>2 DEF RecordSent, netVars
<1>4. CASE TakeRecord
  <2>1. record_queue' \in Seq(Record) /\ Len(record_queue') < Len(record_queue)
    BY <1>4, TakenFromQueue DEF TakeRecord
  <2> QED  BY <1>1, <1>4, <2>1 DEF TakeRecord, netVars
<1>5. CASE TakeCapture
  <2>1. capture_queue' \in Seq(Capture) /\ Len(capture_queue') < Len(capture_queue)
    BY <1>5, TakenFromQueue DEF TakeCapture
  <2> QED  BY <1>1, <1>5, <2>1 DEF TakeCapture
<1>6. CASE RxTask \/ RxDropped
  <2>1. rx_queue' \in Seq(Contacts) /\ Len(rx_queue') < Len(rx_queue)
    BY <1>6, TakenFromQueue DEF RxTask, RxDropped
  <2> QED  BY <1>1, <1>6, <2>1 DEF RxTask, RxDropped, probeVars
<1>7. ASSUME NEW d \in Contacts, NEW to, HearData(d, to)
      PROVE  QueuesTyped'
  <2>1. Len(rx_queue) < RxDepth /\ rx_queue' = Append(rx_queue, d)
    BY <1>7 DEF HearData, netif_receive
  <2> QED  BY <1>1, <1>7, <2>1 DEF HearData, probeVars
<1>8. CASE UNCHANGED <<capture_queue, record_queue, rx_queue>>
  BY <1>8
<1> QED  BY <1>2, <1>3, <1>4, <1>5, <1>6, <1>7, <1>8
         DEF Next, Hear, HearPsf, HearOther, RecordTimeout, CapturesDrained, LwipSend,
             NdTimeout, vars, probeVars, netVars

\* A peer is entered only while the table has room (observe_awdl_peer).
LEMMA PeersStep ==
    ASSUME CacheInv, PeersTyped, [Next]_vars
    PROVE  PeersTyped'
<1> DEFINE Known == {e \in Devices : table[e] # "absent"}
<1>1. MaxPeers \in Nat
  BY ReceptionAssumption
<1>2. CASE TakeRecord
  <2> DEFINE d == Head(record_queue).source
  <2>1. CASE table' = table
    BY <1>2, <2>1 DEF TakeRecord, PeersTyped
  <2>2. CASE table' = [table EXCEPT ![d] = "seen"] /\ Cardinality(Known) < MaxPeers
    <3>1. Known \in SUBSET Devices
          /\ {e \in Devices : table'[e] # "absent"} \in SUBSET (Known \cup {d})
      BY <2>2 DEF PeersTyped
    <3>2. Cardinality({e \in Devices : table'[e] # "absent"}) <= MaxPeers
      BY <1>1, <2>2, <3>1, RoomForOne
    <3> QED  BY <1>2, <2>2, <3>2 DEF TakeRecord, PeersTyped
  <2> QED  BY <1>2, <2>1, <2>2 DEF TakeRecord, ObservePeer
<1>3. CASE TakeCapture
  <2> DEFINE d == Head(capture_queue).source
  <2>1. d \in Devices
    BY <1>3, CaptureSource DEF TakeCapture, CacheInv, CacheTyped
  <2>2. /\ observed' \subseteq Devices
        /\ table' \in [Devices -> {"absent", "seen", "mif_seen"}]
        /\ {e \in Devices : table'[e] # "absent"} = Known
    BY <1>3, <2>1 DEF TakeCapture, PeersTyped
  <2> QED  BY <1>3, <2>2 DEF TakeCapture, PeersTyped
<1>4. CASE UNCHANGED <<table, observed>> /\ probe' \in {"records", "captures"}
  BY <1>4 DEF PeersTyped
<1>5. PeersTyped => probe \in {"records", "captures"}
  BY DEF PeersTyped
<1> QED  BY <1>2, <1>3, <1>4, <1>5
         DEF Next, Hear, HearMif, HearPsf, HearOther, RecordSent, RecordTimeout,
             CapturesDrained, LwipSend, HearData, RxTask, RxDropped, NdTimeout, vars,
             probeVars

\* Packets are held only on entries that are being resolved.
LEMMA HeldStep ==
    ASSUME CacheInv, HeldTyped, [Next]_vars
    PROVE  HeldTyped'
<1> USE DEF CacheInv, CacheTyped, HeldTyped
<1>1. ASSUME NEW i \in Slots, NEW e \in Entry, e.q => e.state = "incomplete",
             cache' = [cache EXCEPT ![i] = e]
      PROVE  HeldTyped'
  BY <1>1
<1>2. CASE UNCHANGED cache
  BY <1>2
<1>3. ASSUME NEW d \in Devices, add_awdl_neighbor(d)
      PROVE  HeldTyped'
  <2>1. CASE ~UNCHANGED cache
    BY <1>3, <2>1 DEF add_awdl_neighbor
  <2> QED  BY <1>2, <2>1
<1>4. CASE TakeCapture
  <2>1. Head(capture_queue).source \in Devices
    BY <1>4, CaptureSource DEF TakeCapture
  <2> QED  BY <1>2, <1>3, <1>4, <2>1 DEF TakeCapture, add_peer
<1>5. CASE RxTask
  BY <1>5 DEF RxTask, Injected
<1>6. ASSUME NEW d \in Contacts, LwipSend(d)
      PROVE  HeldTyped'
  <2>1. \E i : cache' = [cache EXCEPT ![i] =
                [next_hop |-> d, state |-> "incomplete", q |-> TRUE]]
    BY <1>6 DEF LwipSend
  <2> QED  BY <2>1
<1>7. ASSUME NEW i \in Slots, NdTimeout(i)
      PROVE  HeldTyped'
  BY <1>7 DEF NdTimeout, Unused
<1> QED  BY <1>2, <1>4, <1>5, <1>6, <1>7
         DEF Next, Hear, HearMif, HearPsf, HearOther, RecordSent, TakeRecord, RecordTimeout,
             CapturesDrained, HearData, RxDropped, vars, netVars

\* For any number of devices and any lengths: no queue and no table outgrows its
\* limit, and lwIP's packets are held only where they will be sent or given up.
THEOREM ReceptionTypes == Safety => []TypeOK
<1>1. Init => TypeOK
  <2> SUFFICES ASSUME Init PROVE TypeOK
    OBVIOUS
  <2>1. Cardinality({}) = 0 /\ {d \in Devices : table[d] # "absent"} = {}
    BY FS_EmptySet DEF Init
  <2>2. CacheInv
    BY DEF Init, NetifInit, CacheInv, CacheTyped, OneEntry, Entry
  <2>3. /\ CapturePeers \in Nat /\ MaxPeers \in Nat /\ SampledActions \in Nat
        /\ CaptureDepth \in Nat /\ RecordDepth \in Nat /\ RxDepth \in Nat
    BY ReceptionAssumption
  <2>4. RadioTyped
    BY <2>1, <2>3 DEF Init, RadioTyped
  <2>5. QueuesTyped
    BY <2>3 DEF Init, NetifInit, QueuesTyped
  <2>6. PeersTyped
    BY <2>1, <2>3 DEF Init, PeersTyped
  <2>7. HeldTyped
    BY DEF Init, NetifInit, HeldTyped, Unused
  <2> QED  BY <2>2, <2>4, <2>5, <2>6, <2>7, TypeParts
<1>2. TypeOK /\ CacheInv /\ CacheInv' /\ [Next]_vars => TypeOK'
  <2> SUFFICES ASSUME TypeOK, CacheInv, CacheInv', [Next]_vars
               PROVE  TypeOK'
    OBVIOUS
  <2>1. RadioTyped /\ QueuesTyped /\ PeersTyped /\ HeldTyped
    BY TypeParts
  <2>2. RadioTyped' /\ QueuesTyped' /\ PeersTyped' /\ HeldTyped'
    BY <2>1, RadioStep, QueuesStep, PeersStep, HeldStep
  <2> QED  BY <2>2 DEF CacheInv, CacheTyped, TypeOK, RadioTyped, QueuesTyped, PeersTyped,
                       HeldTyped
<1> QED  BY <1>1, <1>2, CacheInvariant, PTL DEF Safety

=============================================================================
