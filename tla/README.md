# A TLA+ verification of espDrop

espDrop is firmware for an ESP32 that sends files to Apple devices over AirDrop: a host computer hands it a
file over USB serial, the relay finds the receiver over AWDL (Apple's peer-to-peer Wi-Fi), asks the user there,
and uploads. This directory holds TLA+ models of the parts where tasks, flash, radio and power interact, TLC
configurations that check them on small instances, and TLAPS proofs for all instances. Line numbers are those
of the sources the models were made from; `PROJECT.json` maps every definition to its lines.

## 1. The system

| Component | State | Operations | Talks to |
|---|---|---|---|
| Outgoing-file registry (`core/src/airdrop_outgoing.c`) | one file slot, ownership bit, terminal result | set, clear, acquire, release, complete, each under one spinlock | serial task (host side), mDNS task (sender side) |
| Relay stream (`main/relay_stream.c`) | declared size and CRC, counters, running CRC, flags, FreeRTOS stream buffer | begin, validate, push, abort; read callback; GO marker | serial task writes, TLS transfer reads |
| Maintenance serial task (`main/maintenance_serial.c`) | line or raw receive mode, chunk in flight | STREAM, RELAY, TARGET, OTA, RESTART, Wi-Fi commands | everything the host can reach |
| AirDrop session (`core/src/awdl_tx_lab.c`, `awdl_netif.c`) | target and mode, run flags, once-flags, endpoints, mDNS cache, worker | MIF observation, worker start and end, connection gate, connect, Ask, Upload | registry, peer table, election |
| AirDrop exchange (`core/src/airdrop_tls.c`, `airdrop_http.c`, `airdrop_upload.c`) | request and answer in hand, cursor of the source, sizes found by the first pass, network buffer, deadline | handshake, Discover, Ask, one-pass and two-pass Upload, answer parsing | file source callbacks, network, session |
| mDNS cache (`core/src/airdrop_mdns.c`, mDNS task of `awdl_netif.c`) | four services and four hosts, endpoints in the peer table | parse, merge, publish; browse and resolve questions; choice of the endpoint | receivers, peer table, session |
| Flash spool (`main/relay_spool.c`) | header sector, data, RAM cursors | init, begin, write, finish, abort; read and rewind callbacks | serial task, TLS transfer |
| OTA maintenance (`main/ota_update.c`, `main/main.c`) | NVS request and URL, two app slots, boot record | request, consume, download, install, confirm | bootloader |
| Frame reception (`core/src/awdl_probe.c`, `awdl_netif.c`) | sampled sources, capture, record and receive queues, lwIP's neighbor cache | Wi-Fi callback, probe task, receive task, neighbor mapping | peer table, session, election, lwIP |
| AWDL election (`core/src/awdl_election.c`) | peer table of reports, elected state, stored MIFs, transmitted state | observe, touch, expire | other AWDL devices |
| AWDL timing (`core/src/awdl_tx.c`, worker of `awdl_tx_lab.c`) | reference time, window counter, channel sequence of parent and target | state from a MIF, action frame, next window, next common window; schedule, send, pause | election, target selection, lwIP's queue |
| Peer table (`core/src/peer_table.c`) | sixteen entries with times, signals, strengths | observe, endpoint, expire, selections | probe and mDNS tasks, target selection |
| TapDrop (`tapdrop/src`) | tap session | tap, correlate | peer table |

Not modelled, each with its reason in `PROJECT.json`: frame and TLV parsers and encoders; the text of HTTP heads and
property lists; DNS name compression; NimBLE; the receiver oracle; the Improv codec; the host tooling's own loops; TLS
and the compressor themselves; logging and LEDs.

What is hard here, and therefore what the properties are about:

- *Locks are short.* Every shared structure has one, but decisions span several critical sections: a chunk is
  validated, sent and counted in three; the connection gate is read before a TCP connect and the file acquired
  after it. The spool's source callbacks have no lock at all.
- *Both ends are outside.* The host may repeat, reorder, corrupt or abandon anything; the receiver may decline,
  stall or vanish; a user may start the next file at any time. The network takes and delivers bytes in any pieces.
- *Power.* Flash and NVS are written in several steps and power may fail between any two of them.
- *Time.* Peers expire, gates compare timestamps taken by different tasks, raw receive modes end by timeout only.
- *A network of relays.* Every relay elects from what others announced some time ago.

For each component, what makes it correct: **registry**: one owner, an untouched slot, one terminal
result about this file. **Stream**: the body the receiver gets is what the host declared, nothing flows before
the user accepted, nobody waits for ever. **Session**: the receiver asked is the one selected, for the
file registered, once, and every granted run is served. **Exchange**: what was written can be decoded to the file that
was announced, an answer means the same however it is split, success is what the receiver said, and every wait ends.
**mDNS**: a service is never combined with another receiver's address, and is complete once all of it was heard. **Spool**: a header that validates stands before
its whole file and the file offered is the one stored. **OTA**: one attempt per request, always a sound
image to go back to. **Reception**: nothing a peer sends is lost
for good, and lwIP's cache stays lwIP's. **Election**: the state is the best the table allows, and a chain of relays settles.
**Timing**: relays stay in step with the device they follow and send while the receiver listens.
**Peer table and TapDrop**: the choice depends on the evidence and not on arrival order.

## 2. The modules

| Module | Models | Uses |
|---|---|---|
| `OutgoingRegistry` | the registry's operations as operators over four variables | |
| `OutgoingClients` | abstract specification: a host and any set of senders that release what they acquire | `OutgoingRegistry` |
| `RelayStream` | stream, serial task and sender around one buffer | `OutgoingRegistry`; refines `OutgoingClients` |
| `RelaySession` | serial, probe, worker and mDNS task over targets, runs and connections | `OutgoingRegistry`; refines `OutgoingClients` |
| `RelaySpool` | spool in flash, serial task, reading sender, power loss | `OutgoingRegistry` |
| `AirdropHttp` | answers of a receiver and the function that parses them | |
| `AirdropExchange` | one connection: Ask, Upload, both passes over the source, network and deadlines | `AirdropHttp` |
| `MdnsCache` | records in packets, cache, published endpoints, the questions of the mDNS task | |
| `OtaUpdate` | OTA request, maintenance boot, app slots and bootloader | |
| `AwdlReception` | overheard frames through the queues into peer table and neighbor cache | |
| `AwdlElection` | relays running the election and beacons that do not | |
| `AwdlTiming` | window arithmetic of a chain of relays and the worker that sends by it | |
| `PeerTable` | peer table, proximity selection, TapDrop | |
| `TableOps` | the compacting loop of the expiry in `AwdlElection` and `PeerTable` | |
| `SmallCrc` | a two-bit streaming checksum for TLC | |
| `MC*` | constants for TLC | the module of the same name |
| `TransferProofs` | theorems about a session and about the connection it makes | `RelaySession`, `AirdropExchange` |
| `RelayStreamProofs`, `AwdlReceptionProofs`, `AwdlElectionProofs`, `PeerTableProofs`, `AwdlTimingProofs`, `MdnsCacheProofs` | theorems | the module of the same name |
| `FlashProofs` | theorems about what survives a power loss | `RelaySpool`, `OtaUpdate` |

Actions are named after the C function or the branch of it that they model. A step is what one task does
between two points where another may interfere: one critical section, one blocking call or one registry call.
Variables keep the names of the C fields; control points of a task (`serial`, `sender`, `phase`) stand for the
program counter. Payload bytes, CRC registers, sequence numbers, counters and buffer fill are kept; names,
addresses, wording and byte layout are model values.

**Registry.** A refused call is the caller's branch on `acquired`; the two spinlock operations an
implementation might get wrong (replace under an owner, complete twice) are what the invariants of
`OutgoingClients` exclude.

**RelayStream.** `pushed` is the history of the stream buffer and `taken` how far the reader got, so
the buffer is the stretch between them. The host sends any command and any chunk; a chunk goes through
`StreamData` (header checks), `ChunkArrives` or `ChunkRejected` (bytes and both CRCs), `ChunkSent` or
`ChunkSendTimeout` (possibly a partial write), `ChunkCounted`. The sender goes through `SenderAcquire`, the Ask,
`ReadEnter` and the GO marker, `ReadReceives`/`ReadTimeout`, `ReadCounted`, the answer and `SenderRelease`.

**RelaySession.** Payload is reduced to the outcome of the Upload. `endpoint[p]` tells whether p's service was
published since the generation began and by whose packet; the history variable `asked` says whether the registered
file was asked for, `start_failed` that the last worker could not be created. STREAM BEGIN clears the registry, begins
the stream and registers the file in steps of its own (`StreamCleared`, `StreamBegin`, `StreamRefused`), so that a sender
may find the registry empty in between. The worker flushes what lwIP has queued as part of serving a connection (`netif_flush`).

**RelaySpool.** `flash_header` and `flash_data` survive `Restart`, all else is reset. Erasing, writing and
committing are separate steps; the sender reads once for the size and once for the body through the lock-free
callbacks.

**AirdropExchange.** The task of a connection runs alone, so its steps are not interleaved with its own code but with
the network, the source and time. `out` is what is left of one `write_tls_request`, taken in any pieces (`WriteSome`);
`wire` is the history of the request. A pass over the source goes `PassHeader`, `SourceReads` and `PassFile` in pieces of
the workspace, `PassTrailer`, `PassPadding`; the first one (`sizing`) only counts what the compressor makes of it, the
second (`body`) goes through `buffer_upload_chunk` into chunks. `SourceReads` may continue at the beginning, which is
what a reset of the spool under the read does (see `spool_refused`). `ReadSome` delivers any part of the answer and
parses all of it again, as the code does. Formats are kept as far as lengths and boundaries go: a header is one byte,
a block header two; archive, stored blocks, compressed block and chunks are built piece by piece in the model and
compared with definitions of the whole. Checksum and compressor are parameters.

**MdnsCache.** Receivers have lives: when one is switched off and on it may come back under another instance name, port,
host name or address, and packets of an earlier life may still come in. A packet holds any of the allowed combinations
of records, with the address first or last. Half of the initial states are of the mDNS task asking receivers that answer
only what they are asked (`Browse`, `Resolve`, `Read`, `EndRound`), the other half of packets at any time. The loops over
records, hosts and services are recursive functions over the places of the arrays. `ReceiversDiffer` says that no two
receivers ever share an instance name, a host name or an address, which mDNS and AWDL see to; a receiver may reuse its
own in any of its lives. When a connection is opened is `RelaySession`'s; where it goes is `probe_airdrop_tcp` here.

**OtaUpdate.** NVS keys and slots survive; the bootloader (external) runs a new image once and falls
back unless it was confirmed. History variables: `attempts`, the URL last requested (`requested`) and whether that
request was stored in full (`armed`), and the last URL that was stored at all (`armed_url`).

**AwdlReception.** The Wi-Fi task (`Hear*`, `RecordSent`) captures a MIF and then, in a second step, sends the
record of the same frame; the probe task (`TakeRecord`, `RecordTimeout`, `TakeCapture`, `CapturesDrained`) takes one
record and then every capture there is. Mapping a neighbor is one step, as `tcpip_callback_wait` runs it in the
tcpip task and may fail; `LwipSend`, `Injected` and `NdTimeout` are lwIP's own uses of the same cache (external). The model is of
builds with dynamic election, which all builds that transmit configure. The two data queues feed
logs and counters only and are left out; a start-up that fails ends in a panic. What the transmitter does with
a MIF is in `AwdlElection` and `RelaySession`. One detail the model leaves out: `mapping->created` stays set when an
existing entry follows an unused slot, so a refreshed neighbor can be logged and counted as a new one.

**AwdlElection.** Addresses are numbers; ages replace timestamps. `Observe` is the whole of
`dynamic_election_candidate`: the MIF is stored, old peers expire, the report is entered, the election runs,
and the transmitted state is rebuilt if the parent's MIF is usable. What a relay transmits is what others hear, and only
while its worker runs (`WorkerStarts`, `WorkerEnds`); the state stays for the next run.

**AwdlTiming.** A master and a target have clocks of their own; the relay in the middle follows the master, and the relay
whose worker is modelled follows the middle one. A MIF (`device_mif`, `build_action`) tells the window counter and the
rest of the current extended window; `state_from_mif` makes a reference time of it, as whole time units. The worker
takes a snapshot and searches (`Schedule`), sends (`Transmit`), pauses (`Resume`) and ends (`WorkerEnds`). Taken for
granted: the presence mode is a power of two (devices send 4), which masking the counter needs; the first frame comes
later than one extended window after the clock started, and the worker lasts longer than one. `GuardAssumption` says how
the firmware's constants relate: guard (4,000 microseconds) and pause (20,000) are longer than what two relays lose by
rounding (2 x 1,023), and an extended window (64 units of 1,024) is longer than two guards. The delay of the air and of the driver is not modelled, nor
is the burst of data after the MIF, which may last longer than the overlap.

**PeerTable.** Frames are processed in any order within one clock step. The two decisions share the loop that ranks the
candidates (`Ranked`): proximity selection and TapDrop differ in who is a candidate and what is compared. Candidates are
places of the array, and the clock makes `MaxSteps` steps. This firmware observes the AWDL layer
only and never calls `espdrop_peer_table_expire` or `tapdrop_select_peer`; those are library operations
and are switched on by constants.

## 3. The runs

All passing runs check deadlock. The type invariants are not listed with the runs: those of `OutgoingClients`,
`RelayStream`, `RelaySession`, `RelaySpool`, `OtaUpdate`, `AwdlReception`, `AwdlElection`, `AwdlTiming`, `PeerTable` and
`MdnsCache` are proved (section 4).
`OutgoingClients` has no run of its own: its properties are proved, and `ImplementsClients` carries them over to the
two modules that implement it.

| Run | Checks |
|---|---|
| `stream` | `BodyIntact`, `SuccessIsWholePayload`, `PayloadAfterAccept`, `HeldStream`, `ImplementsClients`, `TransferEnds`, `SerialReturns` |
| `session` | `ResultOfThisFile`, `ImplementsClients`, `SenderReturns`, `RunServed` |
| `exchange` | `RequestDecodes`, `AnswerAsSent`, `SuccessAsAnswered`, `ExchangeEnds` |
| `mdns` | `EndpointOfOneReceiver`, `CompleteOnceHeard`, `ConnectsToCurrent`, `ResolvedByAsking` |
| `spool` | `CommittedIsComplete`, `RegisteredIsStored`, `UploadIsStored`, `SpoolReturns`, in builds with and without the upload lab |
| `ota` | `OneAttempt`, `MaintenanceOnConfirmed`, `Recoverable`, `SelectedIsGenuine`, `FetchesArmed`, `ReturnsToNormal` |
| `reception` | `OneEntry`, `HeldPacketKept`, `SampledIsTracked` |
| `election` | `ElectsBest` (with the limit on the height), `Converges` |
| `timing` | `FindsNextCommon`, `FollowersInStep`, `SendsOnChannel`, `OncePerInterval` |
| `peers` | `Chronology` (with one entry per peer), `ChosenByLead` (by proximity and by tap) |

Every property is accompanied by a mutant in the module, a definition that changes one of the code's steps the way
a slip would (a dropped guard, a missing reset); with it in place the property fails.

### Disagreements between code and documents

Two runs check a sentence of the repository that the code does not keep; the findings in `PROJECT.json` quote it.

| Run | What happens |
|---|---|
| `fixture` | CANCEL between the gate and the acquire makes the sender ask for the built-in fixture |
| `spool_refused` | a refused run aborts the spool under a sender that already reads it |

In four more places a document or comment says more than the code keeps. The passing runs state what does hold there:

- *Marker.* `go_sent` is set before the GO marker is written (`relay_stream.c:77`, `:95`), and a chunk is checked against
  `go_sent`; one that comes early is taken without the marker, also when the marker is then never written. The comment at
  `maintenance_serial.c:1028` says that payload is not accepted before it. `PayloadAfterAccept` says: not before the
  receiver accepted.
- *Lost run.* `observe_mif` clears the request for a run before it creates the worker (`awdl_tx_lab.c:758`). When that
  fails, the run is lost and the host is not told; the comment at `awdl_tx_lab.c:968` speaks of not losing it silently.
  `RunServed` says: every granted run reaches a worker, unless one could not be created or the target was dropped.
- *Interrupted request.* If power or NVS fails between the flag and the URL of an OTA request (`ota_update.c:81`), the
  update is fetched from the default URL or from one that an earlier request left, where `docs/ota.md:30` speaks of the requested
  image. `FetchesArmed` says: after a request that was stored in full its URL is fetched, and otherwise the last one
  stored or the default.
- *Departed master.* A relay that falls back to itself has no MIF of its own, so the state it transmits is not renewed
  and goes on announcing the master that left (`awdl_tx_lab.c:195`), where `docs/awdl.md:293` says that peers expire and
  the transmitted state is regenerated. When two relays heard that master, the one that falls back announces
  it at distance one, the other elects it below the first, also over a weaker beacon that it hears itself, and is not
  eligible for the first: the master stays elected as long as both transmit. `Converges` says: a chain under one root
  settles, with the root as its own master when no stronger beacon is left.

Further observations, which no run depends on:

- *Session.* A connect in flight to the old target acquires the file begun for the new one (`awdl_netif.c:708`). Two
  once-flags guard two ways to the same receiver, so that the second asks again after the first has ended
  (`awdl_netif.c:777`). `STREAM-FAILED` is answered after the file was registered and the registration stays, so a
  MIF may still start a run (`maintenance_serial.c:685`). The mDNS task gives up after ninety seconds without a
  transmit window and is not restarted (`awdl_netif.c:1017`).
- *mDNS.* Every packet publishes all cached services again and refreshes their observation time, whoever sent it
  (`awdl_netif.c:370`; the comment at `awdl_netif.c:723` takes the time for one of the target). Services and hosts
  are never evicted. With a budget of one question a round, an instance that never answers is asked for every time and
  those after it in the cache are not, which is why `ResolvedByAsking` is about receivers that are there. A receiver
  whose earlier instance is first heard of after its present one is connected to as it was; `Known` excludes it.
- *Election.* Expiry runs only when another device's MIF is observed (`awdl_election.c:222`).
- *Tables.* The firmware never expires peers, so sixteen that left keep a new one out (`peer_table.c:234`).
- *Power.* An unconfirmed image whose NVS was erased stops in provisioning without confirming, and
  the next restart falls back (`main.c:163`). NVS failures while the request is consumed restart the device into
  maintenance again, which is why `ReturnsToNormal` speaks of the time after the last such failure.
- *Timing.* Rounding costs each relay less than one time unit (1,024 microseconds) and the guard is 4,000, so that it
  covers three steps from the master while the election allows ten.

### Bounds

- `stream`: payloads of up to four bytes over {0,1}, chunks of two, a buffer of three, reads of two. So a payload
  takes several chunks, a chunk does not fit a partly filled buffer, and a read crosses a chunk boundary. The
  declared CRC ranges over all values, so that wrong payloads with a right CRC occur; the two-bit CRC makes
  collisions frequent, which the properties allow because the code does.
- `session`: one receiver, targeted by the host or automatically, and one connection attempt per run.
- `exchange`: files of one to five bytes where four may be transferred, so that one is refused; archive blocks of four,
  stored blocks of six, a workspace of two and a network buffer of three, so that none divides another and each is
  crossed. One file compresses to less than stored blocks would take and one does not; one that cannot be read twice;
  one prepared by the host. Checksums of two bits collide, which `RequestDecodes` allows because the code does. The
  answers have content that looks like a line end, chunk extensions and trailers, one without a length, one
  malformed, one that just fills the response buffer and one too long for it.
- `mdns`: two receivers, one of which comes back under another instance and port, the other under another host name
  and address, so that there are three names for tables of two. Six rounds of one question each are exactly enough for
  two receivers.
- `spool`: four bytes of storage, reads of two, power loss anywhere.
- `ota`: two healthy images, one foreign, one that never starts. Three URLs, so that the one requested, one stored earlier
  and the default are told apart.
- `reception`: three devices and places to sample two, so that one is never captured; queues of one, so that each
  overflows; two neighbor slots for three devices, so that lwIP recycles entries. One device exchanges traffic with
  the relay; some MIFs of the others are malformed or lack their version.
- `election`: two relays, one of which hears the beacons only through the other; two beacons, both stronger than any
  relay, either or both of which may leave, so that the root is below the stronger, below the weaker or its own master;
  either worker may end and start at any time. A table of three is everyone else.
- `timing`: units of two microseconds, windows of two units, two windows to an extended one, two slots, a counter of
  eight that restarts during the run; the guard is above the rounding of two relays and below half an extended window.
  The target is in phase, behind, opposite or ahead, with two channel sequences.
- `peers`: three strengths, of which two differ by one and the margin lies between them, one is the minimum; both
  layers; three peers, any two of which fill the table; clock steps longer than the tap session. The peers are
  interchangeable, so the run uses their symmetry (no temporal property is checked).

### Fairness

Weak fairness of the serial task's and the transfer's own steps: FreeRTOS runs every ready task and each blocking
call has a timeout, which is a step. Nothing is assumed of the host, the receiver, the user or power. In
`RelaySession` receivers keep sending MIFs (strong fairness: they recur every few hundred milliseconds, and a
complete one that starts the worker recurs among them) and the worker's window ends. `AirdropExchange` assumes weak fairness of the task's steps and that time passes; `ExchangeEnds` expects nothing of
the receiver or the network. `OtaUpdate` assumes weak
fairness of the device's steps only; `ReturnsToNormal` takes it as given that power and NVS are reliable from some
point on. In `AwdlElection` each device on the air keeps being heard by each relay in its range and time passes;
with `Punctual` a device on the air is heard within the timeout, without which no election could settle.
`Converges` has the hypothesis that from some moment on the relays transmit: a worker runs until its deadline of 15 to 180
seconds, peers expire after 5, and it may end and start any number of times before. Nothing makes a worker start.
In `AwdlReception` the Wi-Fi task and the probe task are scheduled. `SampledIsTracked` has two hypotheses: not all frames
of the device are lost (`KeepsSending`), and captures do not come in for ever as fast as they are processed
(`ProbeKeepsUp`), which would keep the task in its inner loop, away from the records.

## 4. The proofs

TLAPS checks these for every value of the constants that satisfies the modules' assumptions.

- `TransferProofs`, on `RelaySession`: `TypeOK`, `ResultOfThisFile`, and that `RelaySession` implements `OutgoingClients`, for any
  receivers, files and number of connection attempts. The ownership bit says nothing of who owns or what was copied;
  `OwnerInv` ties it to the program points at which the mDNS task holds the file, where the copy is the registered file
  and was asked for. Every other task may act in between: none of them can replace the file while the bit is set, which
  is what the step lemmas show. The module also instantiates the abstract specification (`Registry`) with any set of
  senders and proves `ExclusiveOwner` and `TerminalResult` of it; by the refinements they hold of stream and session.
- `TransferProofs`, on `AirdropExchange`: `AnswerAsSent` for any answers a receiver may give, in any pieces and with content that
  may look like line ends, sizes or headers. The parser starts afresh on each prefix, so what is shown is about prefixes:
  the empty line after the header is found where the answer has it and nowhere before (`BlankFound`), the fields read
  are the ones sent (`FieldsAre`), every chunk of a prefix is found where it was put and with its size (`ChunkRead`,
  `ChunkedLayout`, `ChunkedParsed`), and so a prefix is complete exactly when it is the whole, unless the content ends with the stream
  (`ParsedIs`, `AnswerParsed`). `Heard` ties this to the task: the answer is of the request in hand, nothing is
  read before the request is written, and what was answered stays when the connection ends.
- `TransferProofs`, on `AirdropExchange`: `RequestDecodes` and `SuccessAsAnswered` for any sources, block sizes, workspace,
  network buffer and compressor. Assumed: `ExchangeAssumption`, and that the compressor makes bytes of the archives of what
  can be read (`CompressorAssumption`). `SentInv` says that the chunks on the wire, the bytes in the network buffer and those
  on their way to it are what the source has given so far (`InBody`): the beginning of the prepared payload, of the
  archive in stored blocks, or of what the compressor makes of it (`PassIs`, `Gives`, `ArchiveStart`, `StoredAs`). The end is
  written only when that is all of it (`RightBody`), and a request cut short, in whatever part, does not end like a whole
  one (`CutShort`, `NotTheEnd`). On the receiver's side, chunks put behind a chunked body decode to what was in them, so
  it matters not how the network took them (`DechunkedMore`, `SentRead`). `write_stored_archive_bytes` emits a block each
  time it is full, and the last one at the end (`StoredMore`, `StoredEmits`, `StoredWhole`). `SuccessAsAnswered` combines
  `SentInv` with `Heard`.
- `RelayStreamProofs`: `TypeOK`, `BodyIntact`, `SuccessIsWholePayload`, `PayloadAfterAccept`, `HeldStream`, and that
  `RelayStream` implements `OutgoingClients`. Assumed: positive sizes, a chunk that fits the buffer, and of the CRC
  only that feeding it two pieces in turn is feeding it their concatenation. `StreamInv` relates counters to the
  buffer history (`CountInv`), the running CRC to the counted prefix (`CrcInv`) and the body to the last stretch
  taken (`BodyInv`). `BodyIntact` then follows because a body as long as the payload, at the end of a history no
  longer than the payload, is the whole history. `CountInv` must allow the partial write of a chunk whose send
  timed out: only the failed flag, never cleared within a stream, keeps it out of a complete body.
- `FlashProofs`, on `OtaUpdate`: `OtaTypeOK`, `OneAttempt`, `MaintenanceOnConfirmed`, `Recoverable`, `SelectedIsGenuine` and
  `FetchesArmed` for any images, URLs and faults. `OtaInv` has three parts: `SlotInv` (whoever runs was selected, a
  slot still to be confirmed has a genuine, sound one behind it), `RequestInv` (a new image is selected only when
  no request is left, so maintenance runs on confirmed images only) and `AttemptInv` (a request still pending has
  not been to the network, and the URL it will read is the one requested if that request was stored in full, else the last
  one stored or none). None is inductive alone: that the inactive slot may be
  overwritten rests on the order in which the request was consumed. One module
  proves this and the spool, so `OtaUpdate` names its state and specification (`otaVars`, `OtaSpec`) otherwise.
- `FlashProofs`, on `RelaySpool`: `TypeOK`, `CommittedIsComplete`, `RegisteredIsStored`, and `UploadIsStored` in builds whose run
  requests are not refused (the run `spool_refused` shows that it fails in the others). Assumed: the same of the
  CRC as for the stream, and that every declared file fits the storage. `SpoolInv` ties length and running CRC to
  what flash holds (`WriteInv`), says that nothing is on offer from BEGIN to the registration (so whatever the serial
  task changes, no sender is there), that the spool state describes the file on offer (`OwnerInv`), and that the upload
  pass has exactly what lies before the cursor (`PassInv`), which is what makes the missing lock harmless.
  A restart is covered by one lemma: RAM is reset, and of flash only `CommittedIsComplete` is needed.
- `AwdlReceptionProofs`: `TypeOK`, `OneEntry` and `HeldPacketKept` for any devices, slots and queue lengths. `CacheInv`
  adds to `OneEntry` the types of the cache and of the two queues that lead to it: who gets a slot comes out of a queue,
  and that the entry found is the only one of its address is what keeps a MIF from making a second. `TypeOK` then bounds
  the queues, the list of sampled sources and the peer table by counting: one is added only where there was room.
- `AwdlElectionProofs`: `TypeOK` and `ElectsBest` for any relays, beacons, ranges, table size and timeout. `ElectionInv`
  says that a relay has no entry of its own, that its state is the one its table calls for (`Elected`), and that whoever
  transmits has a state to announce (`Announced`). The election
  is a loop over the table; the proof goes over it entry by entry and carries that the best so far is at least as good
  as all before.
- `PeerTableProofs`: `TypeOK`, `Chronology` and `ChosenByLead` for any peers, strengths, table size and policy, expiry
  included. That expiry keeps one entry for each peer and their order is a lemma about the compacting loop (`Compact`).
  `ChosenByLead` is proved of the ranking loop once, for both decisions: after each place, the best so far is a strongest
  candidate and the runner-up a strongest of the others.
- `AwdlTimingProofs`: `TypeOK`, `FollowersInStep`, `SendsOnChannel`, `FindsNextCommon` and `OncePerInterval` for any periods,
  counter range and channel sequences. Assumed are `GuardAssumption` and what the module says of the counter: its range
  is a multiple of the windows of one sequence, so that the slot goes on when the counter starts again. `TimingInv`
  says of each state that its reference lies at most one rounding for each relay behind a boundary of the device's
  (`FollowInv`), of a scheduled time that the devices are then on the channel, whatever is heard afterwards
  (`WindowInv`), and of the pause that the next search begins after it (`PauseInv`). `FindsNextCommon` is the completeness of a bounded search: each step of the walk begins a
  window of the parent or of the target, one sequence has `Count` of either, so `boundary_limit` steps pass two
  sequences, and what is guarded in a later sequence was already in the first one. `OncePerInterval` holds because two
  beginnings found in the same pair of windows differ by the rounding at most, and the pause is longer.
- `MdnsCacheProofs`: `TypeOK`, `EndpointOfOneReceiver`, `CompleteOnceHeard` and `ConnectsToCurrent` for any receivers,
  lives, table sizes, ways to split records over packets and numbers of rounds. Assumed: `ReceiversDiffer`. A service, a
  host name and an address meet in the cache through records of different packets, so that `EndpointOfOneReceiver` is not
  inductive: `Sources` says of every entry, complete or not, of every host, published endpoint and waiting packet that all
  its fields are of the lives of one receiver. `ServicesKept` and `HostsKept` tie the tables to the records heard: what
  came in has left its mark unless a table was full, and no service waits for an address that is there.
  `CurrentPublished` is about the order of publishing: a receiver that is known has its present service behind its
  earlier ones, and the last one published stays. A packet is of one life; what it does to the tables is shown once, loop
  by loop (`PacketParsed`, `ServicesOfPacket`, `HostsOfPacket`, `ServicesResolved`). The proof found that `Known` has to ask
  for the present address too: a service still at its former address says nothing about where its receiver is now.

Loops are written as recursive functions over the places of an array. The induction theorems of the library take an
operator as a parameter, which the provers cannot instantiate; these proofs use instead that a set of numbers without a
least missing one has them all (`UpTo`, from the well-foundedness of the naturals), first to show that the function is
defined at every place (`CompactionDefined`, `WalkDefined` and the like; `LoopRuns` for any loop whose body is given as a
function) and then for what it computes. Its proof and that of the compacting loop stand in each module that uses them.

Only model-checked:

- all liveness (`TransferEnds`, `SerialReturns`, `SenderReturns`, `RunServed`, `ExchangeEnds`, `SpoolReturns`,
  `ReturnsToNormal`, `SampledIsTracked`, `Converges`): fairness is out of the prover's reach;
- `ResolvedByAsking` of `MdnsCache`: it counts the questions of all rounds, and the table sizes of the run are part of
  what makes it true.

## 5. Plan

Done: the registry and its abstract specification, stream, session, spool, OTA, reception, election, timing, peer
table and TapDrop, the exchange with HTTP parsing and Upload framing, the mDNS cache; proofs for all of them.

Next, in this order:

1. The transmit path: `driver_transmit`, its queue, flushing in windows, copies, sequence numbers that wrap and the
   driver's completion callback.
2. The Improv parser as a state machine fed any split of the input, and the host CLI's waiting and retry loops
   composed with the serial task.

Each asks a question of its own; where it concerns a part that a run already covers, it extends that run.
