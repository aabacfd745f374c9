---------------------------- MODULE RelaySession ----------------------------
(***************************************************************************)
(* One relay session from the host's commands to the receiver's prompt:    *)
(* who is asked, for which file, and how often.  Four tasks take part.     *)
(*                                                                         *)
(*   serial task    (main/maintenance_serial.c) TARGET, STREAM BEGIN and   *)
(*                  STREAM CANCEL commands of the host;                    *)
(*   mDNS task      (core/src/awdl_netif.c) decides when to connect, to    *)
(*                  whom, acquires the registered file and asks;           *)
(*   probe task     (core/src/awdl_probe.c, awdl_tx_lab.c) observes MIFs,  *)
(*                  may choose a target by itself and starts the worker;   *)
(*   worker         (lab_tx_task) transmits queued frames for a while.     *)
(*                                                                         *)
(* Locks are released between the steps below, which is where the tasks    *)
(* interfere.  Payload streaming is the subject of RelayStream and is      *)
(* reduced to the outcome of the Upload here.                              *)
(***************************************************************************)
EXTENDS OutgoingRegistry, Naturals

CONSTANTS
    Peers,          \* AWDL addresses of receivers
    NoPeer,         \* has_target_mac is false
    HostModes,      \* modes the host selects with TARGET NONE, TARGET AUTO
    MaxAttempts     \* maximum_attempts of probe_airdrop_tcp_service

ASSUME SessionAssumption ==
    /\ NoPeer \notin Peers
    /\ HostModes \subseteq {"none", "auto"}
    /\ MaxAttempts \in Nat \ {0}

VARIABLES
    target_mode, target_mac, has_target_state,  \* awdl_tx_lab.c
    run_requested, task_started, netif_ready,
    start_failed,   \* history: the worker of the last request was not created
    mif_probe_started, mdns_probe_started,      \* awdl_netif.c
    endpoint,       \* peer table: a peer's endpoint (see EndpointState)
    mdns_cache,     \* peers with a complete service in mdns_cache
    serial,         \* serial task: program point
    sender, goal,   \* mDNS task: program point, peer it works on,
    attempt,        \*   connect attempt,
    syn_sent,       \*   its SYN left the transmit queue,
    outgoing,       \*   descriptor copy
    probe,          \* probe task: what observe_mif read before it locks
    asked           \* history: the receiver was asked for the registered file

targetVars   == <<target_mode, target_mac, has_target_state>>
workerVars   == <<run_requested, task_started, netif_ready, start_failed>>
flagVars     == <<mif_probe_started, mdns_probe_started>>
endpointVars == <<endpoint, mdns_cache>>
senderVars   == <<sender, goal, attempt, syn_sent, outgoing>>

vars == <<registryVars, targetVars, workerVars, flagVars, endpointVars,
          serial, senderVars, probe, asked>>

NoMif == [peer |-> NoPeer, auto |-> FALSE, pick |-> NoPeer]
Mif == [peer : Peers, auto : BOOLEAN, pick : Peers \cup {NoPeer}]

SerialPoint == {"idle", "begin", "run", "reset", "stamp", "wake"}
SenderPoint == {"boot", "dead", "poll", "consider", "target", "fresh", "sync",
                "match", "connect", "acquire", "ask", "upload", "succeeded",
                "failed", "release", "fixture"}

\* A peer's endpoint is incomplete, or its airdrop_seen_ms is older than
\* airdrop_probe_requested_ms, or it is not.
EndpointState == {"none", "stale", "fresh"}

\* The test probe_airdrop_tcp makes of the two times.
FreshEndpoint(p) == endpoint[p] = "fresh"

TypeOK ==
    /\ RegistryTypeOK
    /\ target_mode \in {"none", "auto", "manual"}
    /\ target_mac \in Peers \cup {NoPeer}
    /\ has_target_state \in BOOLEAN
    /\ run_requested \in BOOLEAN /\ task_started \in BOOLEAN
    /\ netif_ready \in BOOLEAN /\ start_failed \in BOOLEAN
    /\ mif_probe_started \in BOOLEAN /\ mdns_probe_started \in BOOLEAN
    /\ endpoint \in [Peers -> EndpointState]
    /\ mdns_cache \subseteq Peers
    /\ serial \in SerialPoint
    /\ sender \in SenderPoint
    /\ goal \in Peers \cup {NoPeer}
    /\ attempt \in 0 .. MaxAttempts
    /\ syn_sent \in BOOLEAN
    /\ outgoing \in Files \cup {NoFile}
    /\ probe \in Mif \cup {NoMif}
    /\ asked \in BOOLEAN

\* app_main of the relay profile sets target mode NONE before anything runs.
Init ==
    /\ RegistryInit
    /\ target_mode = "none" /\ target_mac = NoPeer /\ has_target_state = FALSE
    /\ run_requested = FALSE /\ task_started = FALSE /\ netif_ready = FALSE
    /\ start_failed = FALSE
    /\ mif_probe_started = FALSE /\ mdns_probe_started = FALSE
    /\ endpoint = [p \in Peers |-> "none"] /\ mdns_cache = {}
    /\ serial = "idle"
    /\ sender = "boot" /\ goal = NoPeer /\ attempt = 0 /\ syn_sent = FALSE
    /\ outgoing = NoFile
    /\ probe = NoMif
    /\ asked = FALSE

-----------------------------------------------------------------------------
(***************************************************************************)
(* Serial task.                                                            *)
(***************************************************************************)

\* ESPDROP TARGET <mac>.  The saved MIF of that peer, if there is one and it
\* converts, provides the target state at once.
TargetPeer(p, saved) ==
    /\ serial = "idle"
    /\ target_mac' = p /\ has_target_state' = saved /\ target_mode' = "manual"
    /\ UNCHANGED <<registryVars, workerVars, flagVars, endpointVars, serial,
                   senderVars, probe, asked>>

\* ESPDROP TARGET NONE and ESPDROP TARGET AUTO.
TargetMode(mode) ==
    /\ serial = "idle"
    /\ target_mode' = mode /\ target_mac' = NoPeer /\ has_target_state' = FALSE
    /\ UNCHANGED <<registryVars, workerVars, flagVars, endpointVars, serial,
                   senderVars, probe, asked>>

\* ESPDROP STREAM BEGIN clears the registry; while a sender holds the file it
\* answers STREAM-BUSY and changes nothing.
StreamCleared ==
    /\ serial = "idle"
    /\ outgoing_clear
    /\ serial' = "begin"
    /\ UNCHANGED <<targetVars, workerVars, flagVars, endpointVars, senderVars,
                   probe, asked>>

\* It begins the stream, and registers the file ...
StreamBegin(file) ==
    /\ serial = "begin"
    /\ outgoing_set(file)
    /\ asked' = FALSE
    /\ serial' = "run"
    /\ UNCHANGED <<targetVars, workerVars, flagVars, endpointVars, senderVars,
                   probe>>

\* ... or has no memory for the stream: STREAM-FAILED, nothing registered.
StreamRefused ==
    /\ serial = "begin"
    /\ serial' = "idle"
    /\ UNCHANGED <<registryVars, targetVars, workerVars, flagVars,
                   endpointVars, senderVars, probe, asked>>

\* The locked part of espdrop_awdl_tx_lab_request_run accepts.
RunRequested ==
    /\ serial = "run"
    /\ ~run_requested /\ target_mode # "none"
    /\ run_requested' = TRUE /\ start_failed' = FALSE
    /\ serial' = "reset"
    /\ UNCHANGED <<registryVars, targetVars, task_started, netif_ready,
                   flagVars, endpointVars, senderVars, probe, asked>>

\* It refuses: relay_stream_abort, STREAM-FAILED.  The registration stays.
RunRefused ==
    /\ serial = "run"
    /\ run_requested \/ target_mode = "none"
    /\ serial' = "idle"
    /\ UNCHANGED <<registryVars, targetVars, workerVars, flagVars,
                   endpointVars, senderVars, probe, asked>>

\* espdrop_awdl_netif_request_airdrop_probe, outside any lock: the flags ...
FlagsReset ==
    /\ serial = "reset"
    /\ mif_probe_started' = FALSE /\ mdns_probe_started' = FALSE
    /\ serial' = "stamp"
    /\ UNCHANGED <<registryVars, targetVars, workerVars, endpointVars,
                   senderVars, probe, asked>>

\* ... and then the time stamp, against which every endpoint is stale.
RequestStamped ==
    /\ serial = "stamp"
    /\ endpoint' = [p \in Peers |->
                        IF endpoint[p] = "none" THEN "none" ELSE "stale"]
    /\ serial' = "wake"
    /\ UNCHANGED <<registryVars, targetVars, workerVars, flagVars, mdns_cache,
                   senderVars, probe, asked>>

\* espdrop_ble_wake_start succeeds (STREAM-ARMED) or fails (STREAM-FAILED).
BeginAnswered ==
    /\ serial = "wake"
    /\ serial' = "idle"
    /\ UNCHANGED <<registryVars, targetVars, workerVars, flagVars,
                   endpointVars, senderVars, probe, asked>>

\* Mutant: CANCEL clears the registration under the sender.
StreamCancel_forced ==
    /\ serial = "idle"
    /\ registered' = FALSE /\ registered_file' = NoFile
    /\ transfer_result' = "none" /\ UNCHANGED acquired
    /\ UNCHANGED <<targetVars, workerVars, flagVars, endpointVars, serial,
                   senderVars, probe, asked>>

\* ESPDROP STREAM CANCEL: CANCELLED, or CANCEL-PENDING while a sender holds
\* the file.  Nothing but the registry changes.
StreamCancel ==
    /\ serial = "idle"
    /\ IF acquired THEN UNCHANGED registryVars ELSE outgoing_clear
    /\ UNCHANGED <<targetVars, workerVars, flagVars, endpointVars, serial,
                   senderVars, probe, asked>>

-----------------------------------------------------------------------------
(***************************************************************************)
(* Probe task: process_mif_capture for a MIF of peer p.                    *)
(***************************************************************************)

\* apply_mif_to_peer, then observe_mif up to its last lock: the mode is read
\* under the lock, has_target_mac and the peer table after it.
\* service: the MIF carries AirDrop records ("some", enough for an endpoint
\* only if one was complete before, or "all") or "none".
MifObserved(p, service, pick) ==
    /\ probe = NoMif
    /\ endpoint' = [endpoint EXCEPT ![p] =
            CASE service = "all" -> "fresh"
              [] service = "some" /\ @ # "none" -> "fresh"
              [] OTHER -> @]
    /\ pick # NoPeer => target_mode = "auto" /\ target_mac = NoPeer
    /\ probe' = [peer |-> p, auto |-> target_mode = "auto", pick |-> pick]
    /\ UNCHANGED <<registryVars, targetVars, workerVars, flagVars, mdns_cache,
                   serial, senderVars, asked>>

\* Mutant: only the bootstrap without a target makes the interface ready.
BecomesReady_bootstrap(target, observed, named) ==
    observed /\ named /\ target = NoPeer /\ probe.auto

\* A MIF makes the AWDL interface ready for multicast DNS: any MIF while an
\* automatic target is still sought, else the target's own.
BecomesReady(target, observed, named) ==
    observed /\ named /\ IF target = NoPeer THEN probe.auto ELSE target = probe.peer

\* The closing critical section of observe_mif, and xTaskCreate after it.
\* observed: the MIF gives a complete synchronization state; named: it has
\* version and device class (espdrop_awdl_mif_peer_valid); worker: has_state,
\* and if so whether the worker can be created.
MifApplied(observed, named, worker) ==
    LET p      == probe.peer
        target == IF target_mac = NoPeer THEN probe.pick ELSE target_mac
        ready  == netif_ready \/ BecomesReady(target, observed, named)
        synced == has_target_state \/ (observed /\ target = p)
        start  == /\ run_requested /\ ~task_started /\ worker # "stateless"
                  /\ ready
                  /\ IF target = NoPeer THEN probe.auto
                                        ELSE target = p /\ synced
    IN  /\ probe # NoMif
        /\ target_mac' = target
        /\ netif_ready' = ready
        /\ has_target_state' = synced
        /\ run_requested' = (run_requested /\ ~start)
        /\ task_started' = (task_started \/ (start /\ worker = "created"))
        /\ start_failed' = (start_failed \/ (start /\ worker = "not_created"))
        /\ probe' = NoMif
        /\ UNCHANGED <<registryVars, target_mode, flagVars, endpointVars,
                       serial, senderVars, asked>>

\* espdrop_awdl_netif_flush: what lwIP queued goes out, as far as it matters
\* here the SYN of a connect.
netif_flush == sender = "connect" /\ syn_sent' = TRUE

\* The worker flushes the transmit queue in a common window ...
WorkerFlush ==
    /\ task_started
    /\ netif_flush
    /\ UNCHANGED <<registryVars, targetVars, workerVars, flagVars,
                   endpointVars, serial, sender, goal, attempt, outgoing,
                   probe, asked>>

\* ... and ends at its deadline or frame limit.
WorkerEnds ==
    /\ task_started
    /\ task_started' = FALSE
    /\ UNCHANGED <<registryVars, targetVars, run_requested, netif_ready,
                   start_failed, flagVars, endpointVars, serial, senderVars,
                   probe, asked>>

-----------------------------------------------------------------------------
(***************************************************************************)
(* mDNS task.                                                              *)
(***************************************************************************)

\* The task waits for netif_ready before its first query ...
MdnsStarts ==
    /\ sender = "boot" /\ netif_ready
    /\ sender' = "poll"
    /\ UNCHANGED <<registryVars, targetVars, workerVars, flagVars,
                   endpointVars, serial, goal, attempt, syn_sent, outgoing,
                   probe, asked>>

\* ... for ninety seconds, and then deletes itself.
MdnsGivesUp ==
    /\ sender = "boot" /\ ~netif_ready
    /\ sender' = "dead"
    /\ UNCHANGED <<registryVars, targetVars, workerVars, flagVars,
                   endpointVars, serial, goal, attempt, syn_sent, outgoing,
                   probe, asked>>

\* receive_mdns_packet: a packet of p, which may complete p's service in the
\* cache.  Every complete service of the cache is published again, whoever
\* the packet came from, and consider_airdrop_endpoints may pick a target
\* (kept in goal until the lock is taken again).
MdnsReceived(p, complete, pick) ==
    /\ sender = "poll"
    /\ mdns_cache' = IF complete THEN mdns_cache \cup {p} ELSE mdns_cache
    /\ endpoint' = [q \in Peers |->
                        IF q \in mdns_cache' THEN "fresh" ELSE endpoint[q]]
    /\ pick # NoPeer => /\ target_mode = "auto" /\ target_mac = NoPeer
                        /\ mdns_cache' # {} /\ endpoint'[pick] # "none"
    /\ goal' = pick
    /\ sender' = IF pick = NoPeer THEN "poll" ELSE "consider"
    /\ UNCHANGED <<registryVars, targetVars, workerVars, flagVars, serial,
                   attempt, syn_sent, outgoing, probe, asked>>

\* consider_airdrop_endpoints installs the pick unless there is a target.
PickInstalled ==
    /\ sender = "consider"
    /\ target_mac' = IF target_mac = NoPeer THEN goal ELSE target_mac
    /\ sender' = "poll" /\ goal' = NoPeer
    /\ UNCHANGED <<registryVars, target_mode, has_target_state, workerVars,
                   flagVars, endpointVars, serial, attempt, syn_sent,
                   outgoing, probe, asked>>

\* probe_airdrop_tcp: nothing happens unless a file is ready.
ProbeGate ==
    /\ sender = "poll"
    /\ outgoing_ready
    /\ sender' = "target"
    /\ UNCHANGED <<registryVars, targetVars, workerVars, flagVars,
                   endpointVars, serial, goal, attempt, syn_sent, outgoing,
                   probe, asked>>

\* One early return or the next step of probe_airdrop_tcp.
Advance(from, to, ok) ==
    /\ sender = from
    /\ sender' = IF ok THEN to ELSE "poll"
    /\ UNCHANGED <<registryVars, targetVars, workerVars, endpointVars, serial,
                   attempt, syn_sent, outgoing, probe, asked>>

\* espdrop_awdl_tx_lab_target
ProbeTarget ==
    /\ Advance("target", "fresh", target_mac # NoPeer)
    /\ goal' = target_mac
    /\ UNCHANGED flagVars

\* The endpoint of that target, seen since the request.
ProbeFresh ==
    /\ Advance("fresh", "sync", FreshEndpoint(goal))
    /\ goal' = IF FreshEndpoint(goal) THEN goal ELSE NoPeer
    /\ UNCHANGED flagVars

\* espdrop_awdl_tx_lab_target_is_sync_master looks at the current target;
\* elected: the election has converged on a common master.
ProbeSync(elected) ==
    LET synced == target_mac # NoPeer /\ has_target_state /\ elected
    IN  /\ Advance("sync", "match", synced)
        /\ goal' = IF synced THEN goal ELSE NoPeer
        /\ UNCHANGED flagVars

\* A complete mDNS service of that target (named: its instance is the one
\* in the peer table), or else the endpoint of the target's MIF; each way is
\* tried once per request.
ProbeMatch(named) ==
    LET mdns  == named /\ goal \in mdns_cache
        first == IF mdns THEN ~mdns_probe_started ELSE ~mif_probe_started
    IN  /\ sender = "match"
        /\ mdns_probe_started' = (mdns_probe_started \/ mdns)
        /\ mif_probe_started' = (mif_probe_started \/ ~mdns)
        /\ sender' = IF first THEN "connect" ELSE "poll"
        /\ goal' = IF first THEN goal ELSE NoPeer
        /\ attempt' = IF first THEN 1 ELSE 0
        /\ UNCHANGED <<registryVars, targetVars, workerVars, endpointVars,
                       serial, syn_sent, outgoing, probe, asked>>

\* connect_airdrop_tcp_service: the receiver answers the SYN ...
Connected ==
    /\ sender = "connect" /\ syn_sent
    /\ sender' = "acquire" /\ attempt' = 0 /\ syn_sent' = FALSE
    /\ UNCHANGED <<registryVars, targetVars, workerVars, flagVars,
                   endpointVars, serial, goal, outgoing, probe, asked>>

\* Mutant: the socket has no connect timeout.
ConnectFailed_never == FALSE /\ UNCHANGED vars

\* ... or does not within 45 seconds, and the next attempt begins.
ConnectFailed ==
    /\ sender = "connect"
    /\ syn_sent' = FALSE
    /\ IF attempt < MaxAttempts
       THEN attempt' = attempt + 1 /\ UNCHANGED <<sender, goal>>
       ELSE attempt' = 0 /\ sender' = "poll" /\ goal' = NoPeer
    /\ UNCHANGED <<registryVars, targetVars, workerVars, flagVars,
                   endpointVars, serial, outgoing, probe, asked>>

\* espdrop_airdrop_outgoing_acquire on the connected socket; the Ask follows.
FileAcquired ==
    /\ sender = "acquire"
    /\ outgoing_acquire
    /\ outgoing' = registered_file
    /\ asked' = TRUE
    /\ sender' = "ask"
    /\ UNCHANGED <<targetVars, workerVars, flagVars, endpointVars, serial,
                   goal, attempt, syn_sent, probe>>

\* No file: espdrop_airdrop_tls_ask_upload_probe asks for the built-in one.
FixtureAsked ==
    /\ sender = "acquire"
    /\ ~outgoing_ready
    /\ sender' = "fixture"
    /\ UNCHANGED <<registryVars, targetVars, workerVars, flagVars,
                   endpointVars, serial, goal, attempt, syn_sent, outgoing,
                   probe, asked>>

FixtureEnds ==
    /\ sender = "fixture"
    /\ sender' = "poll" /\ goal' = NoPeer
    /\ UNCHANGED <<registryVars, targetVars, workerVars, flagVars,
                   endpointVars, serial, attempt, syn_sent, outgoing, probe,
                   asked>>

\* TLS, Ask and Upload come to an end of their own; an accepted Ask leads to
\* the Upload, every failure to a FAILED result.
TransferProceeds(from, to) ==
    /\ <<from, to>> \in {<<"ask", "upload">>, <<"ask", "failed">>,
                         <<"upload", "succeeded">>, <<"upload", "failed">>}
    /\ sender = from
    /\ sender' = to
    /\ UNCHANGED <<registryVars, targetVars, workerVars, flagVars,
                   endpointVars, serial, goal, attempt, syn_sent, outgoing,
                   probe, asked>>

\* espdrop_airdrop_outgoing_complete with the outcome.
ResultPublished ==
    /\ sender \in {"succeeded", "failed"}
    /\ outgoing_complete(IF sender = "succeeded" THEN "success" ELSE "failed")
    /\ sender' = "release"
    /\ UNCHANGED <<targetVars, workerVars, flagVars, endpointVars, serial,
                   goal, attempt, syn_sent, outgoing, probe, asked>>

FileReleased ==
    /\ sender = "release"
    /\ outgoing_release
    /\ sender' = "poll" /\ goal' = NoPeer /\ outgoing' = NoFile
    /\ UNCHANGED <<targetVars, workerVars, flagVars, endpointVars, serial,
                   attempt, syn_sent, probe, asked>>

-----------------------------------------------------------------------------

HostTargets ==
    \/ \E p \in Peers, saved \in BOOLEAN : TargetPeer(p, saved)
    \/ \E mode \in HostModes : TargetMode(mode)

HostStep ==
    \/ HostTargets
    \/ StreamCleared \/ StreamCancel

\* The rest of a STREAM BEGIN once the registry is cleared.
SerialStep ==
    \/ \E file \in Files : StreamBegin(file)
    \/ StreamRefused
    \/ RunRequested \/ RunRefused \/ FlagsReset \/ RequestStamped
    \/ BeginAnswered

MifOf(p) ==
    \E service \in {"none", "some", "all"}, pick \in Peers \cup {NoPeer} :
        MifObserved(p, service, pick)

ProbeStep ==
    \E observed, named \in BOOLEAN,
       worker \in {"stateless", "created", "not_created"} :
        MifApplied(observed, named, worker)

MdnsPacket ==
    \E p \in Peers, complete \in BOOLEAN, pick \in Peers \cup {NoPeer} :
        MdnsReceived(p, complete, pick)

\* Steps the mDNS task cannot stay away from once it is past the gate: every
\* wait in them is bounded by a timeout.
SenderStep ==
    \/ PickInstalled
    \/ ProbeTarget \/ ProbeFresh
    \/ \E elected \in BOOLEAN : ProbeSync(elected)
    \/ \E named \in BOOLEAN : ProbeMatch(named)
    \/ Connected \/ ConnectFailed
    \/ FileAcquired \/ FixtureAsked \/ FixtureEnds
    \/ \E from \in {"ask", "upload"}, to \in {"upload", "succeeded", "failed"} :
            TransferProceeds(from, to)
    \/ ResultPublished \/ FileReleased

Next ==
    \/ HostStep \/ SerialStep
    \/ (\E p \in Peers : MifOf(p)) \/ ProbeStep
    \/ WorkerFlush \/ WorkerEnds
    \/ MdnsStarts \/ MdnsGivesUp \/ MdnsPacket \/ ProbeGate \/ SenderStep

Safety == Init /\ [][Next]_vars

\* The tasks run and the worker's window is bounded; receivers keep sending
\* MIFs, of which the complete ones recur.
Spec ==
    /\ Safety
    /\ WF_vars(SerialStep) /\ WF_vars(SenderStep) /\ WF_vars(ProbeStep)
    /\ WF_vars(WorkerEnds)
    /\ \A p \in Peers :
            /\ SF_vars(MifOf(p))
            /\ SF_vars(probe.peer = p /\ MifApplied(TRUE, TRUE, "created"))

-----------------------------------------------------------------------------
(***************************************************************************)
(* Properties.                                                             *)
(***************************************************************************)

\* The registry as these tasks use it keeps every promise of OutgoingClients.
Clients == INSTANCE OutgoingClients
           WITH Senders <- {"mdns"}, held <- [s \in {"mdns"} |-> outgoing]

\* Refinement of the registry's abstract specification.
ImplementsClients == Clients!Spec

\* A terminal result is about the registered file: it was published by an
\* attempt that asked for this registration, not by a late end of an attempt
\* for the file before it (the host reads it with STREAM RESULT).
ResultOfThisFile ==
    transfer_result \in {"success", "failed"} => registered /\ asked

\* Once past the gate the mDNS task comes back to its loop: connect, TLS, Ask
\* and Upload are each bounded, and no answer of the registry holds it.
SenderReturns == (sender \notin {"boot", "dead", "poll"}) ~> (sender = "poll")

\* A run the host was granted for the receiver it named is taken up by a
\* worker, also when it came while the previous worker was shutting down
\* (awdl_tx_lab.c:968), unless the host gives that receiver up or the worker
\* cannot be created: observe_mif clears the request before it creates the
\* task, so that the run is then lost.  (With one receiver: a host that keeps
\* switching can always be between the two whose MIFs arrive.)
RunServed ==
    run_requested ~> \/ ~run_requested /\ task_started
                     \/ start_failed
                     \/ target_mode # "manual"

(***************************************************************************)
(* What comments and documents of the repository say of a session, and the *)
(* interleavings of these tasks do not keep.                               *)
(***************************************************************************)

\* "Never fall back to the built-in lab fixture or present a prompt the host
\* did not request" (awdl_netif.c:701): the gate is read before the connect,
\* the file acquired after it.
NoFixture == sender # "fixture"

=============================================================================
