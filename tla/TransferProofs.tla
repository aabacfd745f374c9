--------------------------- MODULE TransferProofs ---------------------------
(***************************************************************************)
(* A session and the connection it makes.  First a session with any        *)
(* receivers, files and number of connection attempts: the registry is used*)
(* as its abstract specification allows, and a result is about the file    *)
(* that is registered.  Then a connection with any files, sizes, buffers   *)
(* and answers.                                                            *)
(***************************************************************************)
EXTENDS RelaySession, AirdropExchange, FiniteSetTheorems, SequenceTheorems,
        WellFoundedInduction, TLAPS

\* Program points at which the mDNS task holds the file.
Holding == sender \in {"ask", "upload", "succeeded", "failed", "release"}

\* The ownership bit says where the mDNS task is; what it has then copied is
\* the file that is registered and was asked for.
OwnerInv ==
    /\ acquired <=> Holding
    /\ Holding => registered /\ outgoing = registered_file /\ asked
    /\ ~Holding => outgoing = NoFile

SessionInv == TypeOK /\ OwnerInv /\ ResultOfThisFile

-----------------------------------------------------------------------------
(***************************************************************************)
(* Types.                                                                  *)
(***************************************************************************)

\* Commands of the host and the rest of a STREAM BEGIN.
LEMMA SerialTypes ==
    ASSUME TypeOK, HostStep \/ SerialStep
    PROVE  TypeOK'
<1> USE SessionAssumption, NoFileAssumption
    DEF TypeOK, RegistryTypeOK, ResultState, SerialPoint, EndpointState, registryVars,
        targetVars, workerVars, flagVars, endpointVars, senderVars
<1>1. ASSUME NEW p \in Peers, NEW saved \in BOOLEAN, TargetPeer(p, saved)
      PROVE  TypeOK'
  BY <1>1 DEF TargetPeer
<1>2. ASSUME NEW mode \in HostModes, TargetMode(mode)
      PROVE  TypeOK'
  <2>1. has_target_state' \in BOOLEAN
    BY <1>2, Zenon DEF TargetMode
  <2> QED  BY <1>2, <2>1 DEF TargetMode
<1>3. ASSUME NEW file \in Files, StreamBegin(file)
      PROVE  TypeOK'
  <2>1. registered' \in BOOLEAN /\ asked' \in BOOLEAN
    BY <1>3, Zenon DEF StreamBegin, outgoing_set
  <2> QED  BY <1>3, <2>1 DEF StreamBegin, outgoing_set
<1>4. CASE StreamCleared \/ StreamCancel
  <2>1. registered' \in BOOLEAN
    BY <1>4, Zenon DEF StreamCleared, StreamCancel, outgoing_clear
  <2> QED  BY <1>4, <2>1 DEF StreamCleared, StreamCancel, outgoing_clear
<1>5. CASE RunRequested
  <2>1. run_requested' \in BOOLEAN /\ start_failed' \in BOOLEAN
    BY <1>5, Zenon DEF RunRequested
  <2> QED  BY <1>5, <2>1 DEF RunRequested
<1>6. CASE RunRefused
  BY <1>6 DEF RunRefused
<1>7. CASE FlagsReset
  <2>1. mif_probe_started' \in BOOLEAN /\ mdns_probe_started' \in BOOLEAN
    BY <1>7, Zenon DEF FlagsReset
  <2> QED  BY <1>7, <2>1 DEF FlagsReset
<1>8. CASE RequestStamped
  BY <1>8 DEF RequestStamped
<1>9. CASE StreamRefused \/ BeginAnswered
  BY <1>9 DEF StreamRefused, BeginAnswered
<1> QED  BY <1>1, <1>2, <1>3, <1>4, <1>5, <1>6, <1>7, <1>8, <1>9
         DEF HostStep, HostTargets, SerialStep

\* MIFs, the worker and mDNS packets.
LEMMA RadioTypes ==
    ASSUME TypeOK,
           \/ \E p \in Peers : MifOf(p)
           \/ ProbeStep \/ WorkerFlush \/ WorkerEnds \/ MdnsPacket
    PROVE  TypeOK'
<1> USE SessionAssumption
    DEF TypeOK, RegistryTypeOK, EndpointState, SenderPoint, Mif, NoMif, registryVars,
        targetVars, workerVars, flagVars, endpointVars, senderVars
<1>1. ASSUME NEW p \in Peers, NEW service \in {"none", "some", "all"},
             NEW pick \in Peers \cup {NoPeer}, MifObserved(p, service, pick)
      PROVE  TypeOK'
  BY <1>1 DEF MifObserved
<1>2. ASSUME NEW observed \in BOOLEAN, NEW named \in BOOLEAN,
             NEW worker \in {"stateless", "created", "not_created"},
             MifApplied(observed, named, worker)
      PROVE  TypeOK'
  BY <1>2 DEF MifApplied, BecomesReady
<1>3. CASE WorkerFlush
  BY <1>3 DEF WorkerFlush, netif_flush
<1>4. CASE WorkerEnds
  <2>1. task_started' \in BOOLEAN
    BY <1>4, Zenon DEF WorkerEnds
  <2> QED  BY <1>4, <2>1 DEF WorkerEnds
<1>5. ASSUME NEW p \in Peers, NEW complete \in BOOLEAN,
             NEW pick \in Peers \cup {NoPeer}, MdnsReceived(p, complete, pick)
      PROVE  TypeOK'
  BY <1>5 DEF MdnsReceived
<1> QED  BY <1>1, <1>2, <1>3, <1>4, <1>5 DEF MifOf, ProbeStep, MdnsPacket

\* The mDNS task on its way from the gate to the connection and back.
LEMMA SenderTypes ==
    ASSUME TypeOK, MdnsStarts \/ MdnsGivesUp \/ ProbeGate \/ SenderStep
    PROVE  TypeOK'
<1> USE SessionAssumption
    DEF TypeOK, RegistryTypeOK, SenderPoint, Advance, registryVars, targetVars, workerVars,
        flagVars, endpointVars, senderVars
<1>1. CASE MdnsStarts \/ MdnsGivesUp \/ ProbeGate
  BY <1>1 DEF MdnsStarts, MdnsGivesUp, ProbeGate
<1>2. CASE PickInstalled \/ ProbeTarget \/ ProbeFresh
  BY <1>2 DEF PickInstalled, ProbeTarget, ProbeFresh
<1>3. ASSUME NEW elected \in BOOLEAN, ProbeSync(elected)
      PROVE  TypeOK'
  BY <1>3 DEF ProbeSync
<1>4. ASSUME NEW named \in BOOLEAN, ProbeMatch(named)
      PROVE  TypeOK'
  BY <1>4 DEF ProbeMatch
<1>5. CASE Connected \/ ConnectFailed
  <2>1. syn_sent' \in BOOLEAN
    BY <1>5, Zenon DEF Connected, ConnectFailed
  <2> QED  BY <1>5, <2>1 DEF Connected, ConnectFailed
<1>6. CASE FileAcquired
  BY <1>6 DEF FileAcquired, outgoing_acquire
<1>7. CASE FixtureAsked \/ FixtureEnds
  BY <1>7 DEF FixtureAsked, FixtureEnds
<1>8. ASSUME NEW from \in {"ask", "upload"}, NEW to \in {"upload", "succeeded", "failed"},
             TransferProceeds(from, to)
      PROVE  TypeOK'
  BY <1>8 DEF TransferProceeds
<1>9. CASE ResultPublished
  BY <1>9 DEF ResultPublished, outgoing_complete, ResultState
<1>10. CASE FileReleased
  <2>1. acquired' \in BOOLEAN
    BY <1>10, Zenon DEF FileReleased, outgoing_release
  <2> QED  BY <1>10, <2>1 DEF FileReleased, outgoing_release
<1> QED  BY <1>1, <1>2, <1>3, <1>4, <1>5, <1>6, <1>7, <1>8, <1>9, <1>10 DEF SenderStep

LEMMA InitTypes ==
    ASSUME Init
    PROVE  TypeOK
<1>1. /\ registered \in BOOLEAN /\ acquired \in BOOLEAN /\ has_target_state \in BOOLEAN
      /\ run_requested \in BOOLEAN /\ task_started \in BOOLEAN /\ netif_ready \in BOOLEAN
      /\ start_failed \in BOOLEAN /\ mif_probe_started \in BOOLEAN /\ mdns_probe_started \in BOOLEAN
      /\ syn_sent \in BOOLEAN /\ asked \in BOOLEAN
  BY Zenon DEF Init, RegistryInit
<1> QED  BY <1>1, SessionAssumption
         DEF Init, RegistryInit, TypeOK, RegistryTypeOK, ResultState, EndpointState, SerialPoint,
             SenderPoint

LEMMA StepTypes ==
    ASSUME TypeOK, [Next]_vars
    PROVE  TypeOK'
<1>1. CASE Next
  BY <1>1, SerialTypes, RadioTypes, SenderTypes DEF Next
<1>2. CASE UNCHANGED vars
  BY <1>2 DEF vars, TypeOK, RegistryTypeOK, registryVars, targetVars, workerVars, flagVars,
     endpointVars, senderVars
<1> QED  BY <1>1, <1>2

\* Every variable of the session has its type.
THEOREM SessionTypes == Safety => []TypeOK
<1>1. Init => TypeOK
  BY InitTypes
<1>2. TypeOK /\ [Next]_vars => TypeOK'
  BY StepTypes
<1> QED  BY <1>1, <1>2, PTL DEF Safety

-----------------------------------------------------------------------------
(***************************************************************************)
(* Who holds the file, and whose result it is.                             *)
(***************************************************************************)

\* The steps that call the registry.
RegistryStep ==
    \/ \E file \in Files : StreamBegin(file)
    \/ StreamCleared \/ StreamCancel \/ FileAcquired \/ ResultPublished \/ FileReleased

\* All others leave alone the registry, the copy, what was asked, and whether
\* the task is where it holds the file.
LEMMA OtherSteps ==
    ASSUME TypeOK, [Next]_vars, ~RegistryStep
    PROVE  UNCHANGED <<registryVars, outgoing, asked>> /\ Holding' = Holding
<1> USE DEF Holding, registryVars, senderVars
<1>1. CASE HostStep
  BY <1>1 DEF RegistryStep, HostStep, HostTargets, TargetPeer, TargetMode
<1>2. CASE SerialStep
  BY <1>2 DEF RegistryStep, SerialStep, StreamRefused, RunRequested, RunRefused, FlagsReset,
     RequestStamped, BeginAnswered
<1>3. CASE \E p \in Peers : MifOf(p)
  BY <1>3 DEF MifOf, MifObserved
<1>4. CASE ProbeStep
  BY <1>4 DEF ProbeStep, MifApplied
<1>5. CASE WorkerFlush \/ WorkerEnds
  BY <1>5 DEF WorkerFlush, netif_flush, WorkerEnds
<1>6. CASE MdnsStarts \/ MdnsGivesUp \/ ProbeGate
  BY <1>6 DEF MdnsStarts, MdnsGivesUp, ProbeGate
<1>7. CASE MdnsPacket
  BY <1>7 DEF MdnsPacket, MdnsReceived
<1>8. CASE PickInstalled \/ ProbeTarget \/ ProbeFresh
  BY <1>8 DEF PickInstalled, ProbeTarget, ProbeFresh, Advance
<1>9. CASE \E elected \in BOOLEAN : ProbeSync(elected)
  BY <1>9 DEF ProbeSync, Advance
<1>10. CASE \E named \in BOOLEAN : ProbeMatch(named)
  BY <1>10 DEF ProbeMatch
<1>11. CASE Connected \/ ConnectFailed \/ FixtureAsked \/ FixtureEnds
  BY <1>11 DEF Connected, ConnectFailed, FixtureAsked, FixtureEnds
<1>12. CASE \E from \in {"ask", "upload"}, to \in {"upload", "succeeded", "failed"} :
                TransferProceeds(from, to)
  BY <1>12 DEF TransferProceeds
<1>13. CASE UNCHANGED vars
  BY <1>13 DEF vars
<1> QED  BY <1>1, <1>2, <1>3, <1>4, <1>5, <1>6, <1>7, <1>8, <1>9, <1>10, <1>11, <1>12, <1>13
         DEF Next, SenderStep, RegistryStep

\* The ownership bit and the task's program point agree, and a result is about
\* the registered file, in every reachable state.
THEOREM SessionInvariant == Safety => []SessionInv
<1>1. Init => SessionInv
  <2>1. Init => TypeOK
    BY InitTypes
  <2> QED  BY <2>1 DEF Init, RegistryInit, SessionInv, OwnerInv, Holding, ResultOfThisFile
<1>2. SessionInv /\ [Next]_vars => SessionInv'
  <2> SUFFICES ASSUME SessionInv, [Next]_vars
               PROVE  OwnerInv' /\ ResultOfThisFile'
    BY StepTypes DEF SessionInv
  <2> USE DEF SessionInv, OwnerInv, ResultOfThisFile, Holding
  <2>1. ASSUME NEW file \in Files, StreamBegin(file)
        PROVE  OwnerInv' /\ ResultOfThisFile'
    BY <2>1 DEF StreamBegin, outgoing_set, senderVars
  <2>2. CASE StreamCleared \/ StreamCancel
    BY <2>2 DEF StreamCleared, StreamCancel, outgoing_clear, registryVars, senderVars
  <2>3. CASE FileAcquired
    BY <2>3 DEF FileAcquired, outgoing_acquire, outgoing_ready
  <2>4. CASE ResultPublished
    BY <2>4 DEF ResultPublished, outgoing_complete
  <2>5. CASE FileReleased
    BY <2>5 DEF FileReleased, outgoing_release
  <2>6. CASE ~RegistryStep
    <3>1. UNCHANGED <<registryVars, outgoing, asked>> /\ Holding' = Holding
      BY <2>6, OtherSteps
    <3> QED  BY <3>1 DEF registryVars
  <2> QED  BY <2>1, <2>2, <2>3, <2>4, <2>5, <2>6 DEF RegistryStep
<1> QED  BY <1>1, <1>2, PTL DEF Safety

\* A terminal result was published by an attempt that asked for the file now
\* registered: no late end of an earlier attempt becomes the result of the
\* next file.
THEOREM ResultIsOfThisFile == Safety => []ResultOfThisFile
<1>1. SessionInv => ResultOfThisFile
  BY DEF SessionInv
<1> QED  BY <1>1, SessionInvariant, PTL

-----------------------------------------------------------------------------

\* Each registry call of the tasks is a step of OutgoingClients with the mDNS
\* task as its only sender; every other step is a stutter.
LEMMA StepImplementsClients ==
    ASSUME SessionInv, [Next]_vars
    PROVE  [Clients!Next]_(Clients!vars)
<1> USE DEF Clients!Next, Clients!vars, Clients!HostSet, Clients!HostClear,
        Clients!SenderAcquire, Clients!SenderComplete, Clients!SenderRelease,
        Clients!outgoing_set, Clients!outgoing_clear, Clients!outgoing_acquire,
        Clients!outgoing_ready, Clients!outgoing_complete, Clients!outgoing_release
<1>1. Holding => outgoing # NoFile
  BY NoFileAssumption DEF SessionInv, OwnerInv, TypeOK, RegistryTypeOK
<1>2. ASSUME NEW file \in Files, StreamBegin(file)
      PROVE  Clients!HostSet(file)
  BY <1>2 DEF StreamBegin, outgoing_set, senderVars
<1>3. CASE StreamCleared \/ StreamCancel
  BY <1>3 DEF StreamCleared, StreamCancel, outgoing_clear, registryVars, senderVars
<1>4. CASE FileAcquired
  <2>1. outgoing = NoFile
    BY <1>4 DEF FileAcquired, SessionInv, OwnerInv, Holding
  <2>2. Clients!SenderAcquire("mdns")
    BY <1>4, <2>1 DEF FileAcquired, outgoing_acquire, outgoing_ready
  <2> QED  BY <2>2
<1>5. CASE ResultPublished
  <2>1. \E state \in {"success", "failed"} : Clients!SenderComplete("mdns", state)
    BY <1>1, <1>5 DEF ResultPublished, outgoing_complete, Holding
  <2> QED  BY <2>1
<1>6. CASE FileReleased
  <2>1. Clients!SenderRelease("mdns")
    BY <1>1, <1>6 DEF FileReleased, outgoing_release, Holding
  <2> QED  BY <2>1
<1>7. CASE ~RegistryStep
  <2>1. UNCHANGED <<registryVars, outgoing>>
    BY <1>7, OtherSteps DEF SessionInv
  <2> QED  BY <2>1 DEF registryVars
<1> QED  BY <1>2, <1>3, <1>4, <1>5, <1>6, <1>7 DEF RegistryStep

\* The four tasks of a session implement the registry's abstract
\* specification: every promise of OutgoingClients holds of them.
THEOREM SessionImplementsClients == Safety => ImplementsClients
<1>1. Init => Clients!Init
  BY DEF Init, RegistryInit, Clients!Init, Clients!RegistryInit
<1>2. SessionInv /\ [Next]_vars => [Clients!Next]_(Clients!vars)
  BY StepImplementsClients
<1> QED  BY <1>1, <1>2, SessionInvariant, PTL DEF Safety, ImplementsClients, Clients!Spec

-----------------------------------------------------------------------------
(***************************************************************************)
(* What OutgoingClients promises, which this session implements with one   *)
(* sender, holds for any set of senders.                                   *)
(***************************************************************************)

CONSTANT AnySenders

VARIABLE copies     \* held, of these senders

Registry == INSTANCE OutgoingClients WITH Senders <- AnySenders, held <- copies

\* Type correctness and ownership, with the agreement of the slot with its
\* holder's copy, are inductive together.
RegistryInv == Registry!TypeOK /\ Registry!ExclusiveOwner

LEMMA InitRegistryInv == Registry!Init => RegistryInv
  BY NoFileAssumption
  DEF Registry!Init, Registry!RegistryInit, RegistryInv, Registry!TypeOK,
      Registry!RegistryTypeOK, Registry!ResultState, Registry!ExclusiveOwner

LEMMA NextRegistryInv == ASSUME RegistryInv, [Registry!Next]_(Registry!vars) PROVE RegistryInv'
<1> USE NoFileAssumption
    DEF RegistryInv, Registry!TypeOK, Registry!RegistryTypeOK, Registry!ResultState,
        Registry!ExclusiveOwner
<1>1. ASSUME NEW file \in Files, Registry!HostSet(file) PROVE RegistryInv'
  BY <1>1 DEF Registry!HostSet, Registry!outgoing_set
<1>2. CASE Registry!HostClear
  BY <1>2 DEF Registry!HostClear, Registry!outgoing_clear
<1>3. ASSUME NEW s \in AnySenders, Registry!SenderAcquire(s) PROVE RegistryInv'
  <2> USE <1>3 DEF Registry!SenderAcquire, Registry!outgoing_acquire, Registry!outgoing_ready
  <2>1. registered_file \in Files /\ \A t \in AnySenders : copies[t] = NoFile
    OBVIOUS
  <2>2. copies' \in [AnySenders -> Files \cup {NoFile}]
    BY <2>1
  <2>3. \A t \in AnySenders : copies'[t] = IF t = s THEN registered_file ELSE NoFile
    BY <2>1
  <2> QED BY <2>1, <2>2, <2>3
<1>4. ASSUME NEW s \in AnySenders, NEW state \in {"success", "failed"},
             Registry!SenderComplete(s, state)
      PROVE  RegistryInv'
  BY <1>4 DEF Registry!SenderComplete, Registry!outgoing_complete
<1>5. ASSUME NEW s \in AnySenders, Registry!SenderRelease(s) PROVE RegistryInv'
  <2> USE <1>5 DEF Registry!SenderRelease, Registry!outgoing_release
  <2>1. copies' \in [AnySenders -> Files \cup {NoFile}]
    OBVIOUS
  <2>2. \A t \in AnySenders : copies'[t] = NoFile
    OBVIOUS
  <2> QED BY <2>1, <2>2
<1>6. CASE UNCHANGED Registry!vars
  BY <1>6 DEF Registry!vars
<1> HIDE DEF RegistryInv
<1> QED BY <1>1, <1>2, <1>3, <1>4, <1>5, <1>6 DEF Registry!Next

\* The invariant holds in every reachable state.
THEOREM RegistryInvariant == Registry!Spec => []RegistryInv
<1>1. RegistryInv /\ [Registry!Next]_(Registry!vars) => RegistryInv'
  BY NextRegistryInv
<1> QED BY InitRegistryInv, <1>1, PTL DEF Registry!Spec

\* At most one sender holds the file, the ownership bit says whether one
\* does (espdrop_airdrop_outgoing_acquire and _release), and the slot is never
\* changed under it (the refusals of espdrop_airdrop_outgoing_set and _clear).
THEOREM OwnershipIsExclusive == Registry!Spec => []Registry!ExclusiveOwner
<1>1. RegistryInv => Registry!ExclusiveOwner
  BY DEF RegistryInv
<1> QED BY RegistryInvariant, <1>1, PTL

\* A terminal result is published by the holder, once, and is erased only
\* when no sender holds the file (espdrop_airdrop_outgoing_complete).
THEOREM ResultIsTerminal == Registry!Spec => Registry!TerminalResult
<1>1. ASSUME RegistryInv, [Registry!Next]_(Registry!vars) PROVE [Registry!TerminalResultStep]_(Registry!vars)
  <2> SUFFICES ASSUME Registry!Next PROVE Registry!TerminalResultStep
    BY <1>1
  <2> USE <1>1 DEF RegistryInv, Registry!TypeOK, Registry!RegistryTypeOK,
          Registry!ResultState, Registry!ExclusiveOwner, Registry!TerminalResultStep
  <2>1. ASSUME NEW file \in Files, Registry!HostSet(file) PROVE Registry!TerminalResultStep
    BY <2>1 DEF Registry!HostSet, Registry!outgoing_set
  <2>2. CASE Registry!HostClear
    BY <2>2 DEF Registry!HostClear, Registry!outgoing_clear
  <2>3. ASSUME NEW s \in AnySenders, Registry!SenderAcquire(s) PROVE Registry!TerminalResultStep
    BY <2>3 DEF Registry!SenderAcquire, Registry!outgoing_acquire
  <2>4. ASSUME NEW s \in AnySenders, NEW state \in {"success", "failed"},
               Registry!SenderComplete(s, state)
        PROVE  Registry!TerminalResultStep
    BY <2>4 DEF Registry!SenderComplete, Registry!outgoing_complete
  <2>5. ASSUME NEW s \in AnySenders, Registry!SenderRelease(s) PROVE Registry!TerminalResultStep
    BY <2>5 DEF Registry!SenderRelease, Registry!outgoing_release
  <2> QED BY <2>1, <2>2, <2>3, <2>4, <2>5 DEF Registry!Next
<1> QED BY RegistryInvariant, <1>1, PTL DEF Registry!Spec, Registry!TerminalResult

-----------------------------------------------------------------------------
(***************************************************************************)
(* Loops and places.                                                       *)
(***************************************************************************)

\* Of some natural numbers one is the least: Min finds it.
LEMMA LeastFound ==
    ASSUME NEW S \in SUBSET Nat, S # {}
    PROVE  Min(S) \in S /\ \A j \in S : Min(S) <= j
<1>1. PICK m \in S : \A k \in S : ~(<<k, m>> \in OpToRel(<, Nat))
  BY NatLessThanWellFounded, WFMin
<1>2. \A k \in S : m <= k
  <2>1. ASSUME NEW k \in S PROVE ~(k < m) /\ k \in Nat /\ m \in Nat
    BY <1>1 DEF OpToRel
  <2> QED  BY <2>1
<1> QED  BY <1>2 DEF Min

\* A set that has 0 and with every number below n the next one has all numbers
\* up to n: induction over a loop.
LEMMA UpTo ==
    ASSUME NEW n \in Nat, NEW S, 0 \in S, \A i \in 1 .. n : i - 1 \in S => i \in S
    PROVE  n \in S
<1> DEFINE Absent == {i \in Nat : i <= n /\ i \notin S}
<1> SUFFICES ASSUME Absent # {} PROVE FALSE
  OBVIOUS
<1>1. Absent \in SUBSET Nat
  OBVIOUS
<1> DEFINE m == Min(Absent)
<1>2. m \in Absent /\ \A k \in Absent : m <= k
  BY <1>1, LeastFound
<1> HIDE DEF m
<1>3. m \in 1 .. n /\ m - 1 \in Nat /\ m - 1 <= n /\ ~(m <= m - 1)
  BY <1>2
<1>4. m - 1 \notin Absent
  BY <1>2, <1>3
<1> QED  BY <1>2, <1>3, <1>4

\* A walk over places from 1 to M, each to a later one or to its end: there is
\* a function that says what every place leads to.
Walks(f, M, base, next, join) ==
    \A i \in 1 .. M : f[i] = IF next[i] = 0 THEN base[i] ELSE join[i][f[next[i]]]

LEMMA WalkRuns ==
    ASSUME NEW M \in Nat, NEW D, NEW base \in [1 .. M -> D], NEW next \in [1 .. M -> 0 .. M],
           NEW join \in [1 .. M -> [D -> D]], \A i \in 1 .. M : next[i] = 0 \/ next[i] > i
    PROVE  \E f \in [1 .. M -> D] : Walks(f, M, base, next, join)
<1> DEFINE From(f, k) == /\ f \in [M - k + 1 .. M -> D]
                         /\ \A i \in M - k + 1 .. M :
                                f[i] = IF next[i] = 0 THEN base[i] ELSE join[i][f[next[i]]]
           Done == {k \in 0 .. M : \E f : From(f, k)}
<1>1. 0 \in Done
  <2>1. From([i \in M + 1 .. M |-> base[i]], 0)
    OBVIOUS
  <2> HIDE DEF From
  <2> QED  BY <2>1
<1>2. ASSUME NEW k \in 1 .. M, k - 1 \in Done PROVE k \in Done
  <2> DEFINE p == M - k + 1
  <2>1. PICK f : From(f, k - 1)
    BY <1>2
  <2>2. p \in 1 .. M /\ M - (k - 1) + 1 = p + 1
    OBVIOUS
  <2>3. f \in [p + 1 .. M -> D] /\ \A i \in p + 1 .. M :
            f[i] = IF next[i] = 0 THEN base[i] ELSE join[i][f[next[i]]]
    BY <2>1, <2>2
  <2> HIDE DEF From, p
  <2> DEFINE v == IF next[p] = 0 THEN base[p] ELSE join[p][f[next[p]]]
             g == [i \in p .. M |-> IF i = p THEN v ELSE f[i]]
  <2>4. next[p] = 0 \/ next[p] \in p + 1 .. M
    BY <2>2
  <2>5. v \in D
    <3>1. CASE next[p] = 0
      BY <2>2, <3>1
    <3>2. CASE next[p] # 0
      <4>1. f[next[p]] \in D /\ join[p] \in [D -> D]
        BY <2>2, <2>3, <2>4, <3>2
      <4> QED  BY <3>2, <4>1
    <3> QED  BY <3>1, <3>2
  <2> HIDE DEF v
  <2>6. g \in [p .. M -> D]
    <3>1. \A i \in p .. M : i = p \/ i \in p + 1 .. M
      BY <2>2
    <3> QED  BY <2>3, <2>5, <3>1
  <2>7. \A i \in p + 1 .. M : g[i] = f[i] /\ (next[i] = 0 \/ g[next[i]] = f[next[i]])
    <3> TAKE i \in p + 1 .. M
    <3>1. i \in p .. M /\ i # p /\ i \in 1 .. M
      BY <2>2
    <3>2. next[i] = 0 \/ (next[i] \in p .. M /\ next[i] # p)
      BY <2>2, <3>1
    <3> QED  BY <3>1, <3>2
  <2>8. g[p] = v /\ (next[p] = 0 \/ g[next[p]] = f[next[p]])
    BY <2>2, <2>4
  <2> HIDE DEF g
  <2>9. \A i \in p .. M : g[i] = IF next[i] = 0 THEN base[i] ELSE join[i][g[next[i]]]
    <3> TAKE i \in p .. M
    <3>1. CASE i = p
      BY <2>8, <3>1 DEF v
    <3>2. CASE i # p
      <4>1. i \in p + 1 .. M
        BY <2>2, <3>2
      <4> QED  BY <2>3, <2>7, <4>1
    <3> QED  BY <3>1, <3>2
  <2>10. From(g, k)
    BY <2>6, <2>9 DEF From, p
  <2>11. k \in 0 .. M
    OBVIOUS
  <2> QED  BY <2>10, <2>11
<1>3. M \in Done
  <2> HIDE DEF Done
  <2> QED  BY <1>1, <1>2, UpTo
<1>4. PICK f : From(f, M)
  BY <1>3
<1>5. f \in [1 .. M -> D] /\ Walks(f, M, base, next, join)
  <2>1. M - M + 1 = 1
    OBVIOUS
  <2> QED  BY <1>4, <2>1 DEF Walks
<1> QED  BY <1>5

\* A loop of n rounds, each of what the one before came to.
Rounds(round, n, D) == round \in [1 .. n -> [D -> D]]
Runs(f, n, D, init, round) ==
    /\ f \in [0 .. n -> D] /\ f[0] = init
    /\ \A i \in 1 .. n : f[i] = round[i][f[i - 1]]

LEMMA LoopRuns ==
    ASSUME NEW n \in Nat, NEW D, NEW init \in D, NEW round, Rounds(round, n, D)
    PROVE  \E f : Runs(f, n, D, init, round)
<1> DEFINE Up(f, k) == /\ f \in [0 .. k -> D] /\ f[0] = init
                       /\ \A i \in 1 .. k : f[i] = round[i][f[i - 1]]
           Reached == {k \in 0 .. n : \E f : Up(f, k)}
<1>1. 0 \in Reached
  <2>1. Up([i \in 0 .. 0 |-> init], 0)
    OBVIOUS
  <2> HIDE DEF Up
  <2> QED  BY <2>1
<1>2. ASSUME NEW k \in 1 .. n, k - 1 \in Reached PROVE k \in Reached
  <2>1. PICK f : Up(f, k - 1)
    BY <1>2
  <2>2. round[k] \in [D -> D] /\ f[k - 1] \in D /\ round[k][f[k - 1]] \in D
    BY <2>1 DEF Rounds
  <2> DEFINE g == [i \in 0 .. k |-> IF i = k THEN round[k][f[k - 1]] ELSE f[i]]
  <2>3. g \in [0 .. k -> D] /\ g[0] = init
    BY <2>1, <2>2
  <2>4. ASSUME NEW i \in 1 .. k PROVE g[i] = round[i][g[i - 1]]
    <3>1. CASE i = k
      <4>1. k \in 0 .. k /\ k - 1 \in 0 .. k /\ k - 1 # k
        OBVIOUS
      <4>2. g[k] = round[k][f[k - 1]] /\ g[k - 1] = f[k - 1]
        BY <4>1
      <4> HIDE DEF g
      <4> QED  BY <3>1, <4>2
    <3>2. CASE i # k
      <4>1. i \in 1 .. k - 1 /\ g[i] = f[i] /\ g[i - 1] = f[i - 1]
        BY <3>2
      <4> QED  BY <2>1, <4>1
    <3> QED  BY <3>1, <3>2
  <2> HIDE DEF g
  <2>5. Up(g, k)
    BY <2>3, <2>4
  <2>6. k \in 0 .. n
    OBVIOUS
  <2> HIDE DEF Up
  <2> QED  BY <2>5, <2>6
<1>3. n \in Reached
  <2> HIDE DEF Reached
  <2> QED  BY <1>1, <1>2, UpTo
<1>4. PICK f : Up(f, n)
  BY <1>3
<1>5. Runs(f, n, D, init, round)
  BY <1>4 DEF Runs
<1> QED  BY <1>5

\* One sequence after another.
LEMMA Followed ==
    ASSUME NEW T, NEW s \in Seq(T), NEW t \in Seq(T)
    PROVE  /\ s \o t \in Seq(T)
           /\ Len(s) \in Nat /\ Len(t) \in Nat /\ Len(s \o t) = Len(s) + Len(t)
           /\ \A j \in 1 .. Len(s) : (s \o t)[j] = s[j]
           /\ \A j \in 1 .. Len(t) : (s \o t)[Len(s) + j] = t[j]
OBVIOUS

Grouped(a, b, c) == (a \o b) \o c = a \o (b \o c)

LEMMA Regrouped ==
    ASSUME NEW T, NEW a \in Seq(T), NEW b \in Seq(T), NEW c \in Seq(T)
    PROVE  Grouped(a, b, c)
BY ConcatAssociative DEF Grouped

\* Sequences put one after the other.
Joins(g, seqs, T) ==
    /\ g \in [0 .. Len(seqs) -> Seq(T)] /\ g[0] = <<>>
    /\ \A i \in 1 .. Len(seqs) : g[i] = g[i - 1] \o seqs[i]

LEMMA Joined ==
    ASSUME NEW T, NEW seqs \in Seq(Seq(T))
    PROVE  \E g : Joins(g, seqs, T)
<1> DEFINE round == [i \in 1 .. Len(seqs) |-> [s \in Seq(T) |-> s \o seqs[i]]]
<1>1. round \in [1 .. Len(seqs) -> [Seq(T) -> Seq(T)]] /\ <<>> \in Seq(T) /\ Len(seqs) \in Nat
  <2>1. ASSUME NEW i \in 1 .. Len(seqs) PROVE [s \in Seq(T) |-> s \o seqs[i]] \in [Seq(T) -> Seq(T)]
    <3>1. \A s \in Seq(T) : s \o seqs[i] \in Seq(T)
      <4> TAKE s \in Seq(T)
      <4>1. seqs[i] \in Seq(T)
        OBVIOUS
      <4> QED  BY <4>1, Followed
    <3> QED  BY <3>1, Zenon
  <2>2. <<>> \in Seq(T) /\ Len(seqs) \in Nat
    OBVIOUS
  <2> QED  BY <2>1, <2>2, Zenon
<1>2. \A i \in 1 .. Len(seqs) : \A s \in Seq(T) : round[i][s] = s \o seqs[i]
  OBVIOUS
<1> HIDE DEF round
<1>3. PICK g \in [0 .. Len(seqs) -> Seq(T)] :
        g[0] = <<>> /\ \A i \in 1 .. Len(seqs) : g[i] = round[i][g[i - 1]]
  <2>1. Rounds(round, Len(seqs), Seq(T))
    BY <1>1 DEF Rounds
  <2>2. PICK f : Runs(f, Len(seqs), Seq(T), <<>>, round)
    BY <1>1, <2>1, LoopRuns
  <2> QED  BY <2>2 DEF Runs
<1>4. ASSUME NEW i \in 1 .. Len(seqs) PROVE g[i] = g[i - 1] \o seqs[i]
  <2>1. g[i - 1] \in Seq(T)
    OBVIOUS
  <2> QED  BY <1>2, <1>3, <2>1
<1> QED  BY <1>3, <1>4 DEF Joins

\* FlattenSeq has all of them.
LEMMA FlattenJoins ==
    ASSUME NEW T, NEW seqs \in Seq(Seq(T))
    PROVE  \E g : Joins(g, seqs, T) /\ FlattenSeq(seqs) = g[Len(seqs)]
<1> DEFINE n == Len(seqs)
<1>1. PICK g : Joins(g, seqs, T)
  BY Joined
<1>2. CASE n = 0
  BY <1>1, <1>2 DEF FlattenSeq, Joins
<1>3. CASE n # 0
  <2> DEFINE flatten == CHOOSE f : f = [i \in 1 .. n |->
                                            IF i = 1 THEN seqs[i] ELSE f[i - 1] \o seqs[i]]
             h == [i \in 1 .. n |-> g[i]]
  <2>1. n \in Nat \ {0} /\ 1 \in 1 .. n /\ seqs[1] \in Seq(T)
    BY <1>3
  <2>2. g[1] = seqs[1]
    <3>1. g[1] = g[0] \o seqs[1] /\ g[0] = <<>>
      <4>1. g[1] = g[1 - 1] \o seqs[1]
        BY <1>1, <2>1 DEF Joins
      <4>2. g[0] = <<>>
        BY <1>1 DEF Joins
      <4>3. 1 - 1 = 0
        OBVIOUS
      <4> QED  BY <4>1, <4>2, <4>3, Zenon
    <3>2. <<>> \o seqs[1] = seqs[1]
      BY <2>1
    <3> QED  BY <3>1, <3>2
  <2>3. h = [i \in 1 .. n |-> IF i = 1 THEN seqs[i] ELSE h[i - 1] \o seqs[i]]
    <3> SUFFICES ASSUME NEW i \in 1 .. n
                 PROVE  g[i] = IF i = 1 THEN seqs[i] ELSE g[i - 1] \o seqs[i]
      BY SMTT(60)
    <3> QED  BY <1>1, <2>2 DEF Joins
  <2>4. flatten = [i \in 1 .. n |-> IF i = 1 THEN seqs[i] ELSE flatten[i - 1] \o seqs[i]]
    <3> HIDE DEF h
    <3> QED  BY <2>3, Zenon
  <2> HIDE DEF flatten
  <2> DEFINE Same == {i \in 0 .. n : i # 0 => flatten[i] = g[i]}
  <2>5. 0 \in Same
    OBVIOUS
  <2>6. ASSUME NEW i \in 1 .. n, i - 1 \in Same PROVE i \in Same
    <3>1. CASE i = 1
      BY <2>2, <2>4, <3>1
    <3>2. CASE i # 1
      <4>1. flatten[i - 1] = g[i - 1] /\ i \in 0 .. n
        BY <2>6, <3>2
      <4>2. flatten[i] = flatten[i - 1] \o seqs[i]
        BY <2>4, <3>2
      <4>3. g[i] = g[i - 1] \o seqs[i]
        BY <1>1 DEF Joins
      <4> QED  BY <4>1, <4>2, <4>3
    <3> QED  BY <3>1, <3>2
  <2>7. n \in Same
    <3> HIDE DEF Same
    <3> QED  BY <2>1, <2>5, <2>6, UpTo
  <2>8. FlattenSeq(seqs) = flatten[n]
    BY <1>3 DEF FlattenSeq, flatten
  <2> QED  BY <1>1, <2>1, <2>7, <2>8
<1> QED  BY <1>2, <1>3

LEMMA Inside ==
    ASSUME NEW a \in Nat, NEW b \in Nat, NEW c \in Nat, a + b <= c, NEW j \in 1 .. b
    PROVE  a + j \in 1 .. c
OBVIOUS

\* The sequence u is s, of p places, followed by t, of n places.
Follows(u, s, t, p, n) ==
    /\ p \in Nat /\ n \in Nat /\ Len(u) = p + n
    /\ \A j \in 1 .. p : u[j] = s[j]
    /\ \A j \in 1 .. n : u[p + j] = t[j]

LEMMA FollowedBy ==
    ASSUME NEW T, NEW s \in Seq(T), NEW t \in Seq(T), NEW u, u = s \o t,
           NEW p, p = Len(s), NEW n, n = Len(t)
    PROVE  u \in Seq(T) /\ Follows(u, s, t, p, n)
BY Followed DEF Follows

\* Each begins where those before it end.
Begins(o, g, seqs, k) ==
    \A i \in 1 .. k :
        /\ o[i] = o[i - 1] + Len(seqs[i]) /\ o[i] <= o[k]
        /\ \A j \in 1 .. Len(seqs[i]) : g[k][o[i - 1] + j] = seqs[i][j]

Lengths(o, g, seqs) == \A i \in 0 .. Len(seqs) : o[i] = Len(g[i])

LEMMA JoinedPlaces ==
    ASSUME NEW T, NEW seqs \in Seq(Seq(T)), NEW g, Joins(g, seqs, T),
           NEW o, Lengths(o, g, seqs)
    PROVE  Begins(o, g, seqs, Len(seqs))
<1> DEFINE Fits == {k \in 0 .. Len(seqs) : Begins(o, g, seqs, k)}
<1>0. /\ \A i \in 0 .. Len(seqs) : g[i] \in Seq(T) /\ o[i] \in Nat
      /\ \A i \in 1 .. Len(seqs) : seqs[i] \in Seq(T) /\ Len(seqs[i]) \in Nat
  <2>1. \A i \in 0 .. Len(seqs) : g[i] \in Seq(T)
    BY DEF Joins
  <2>2. \A i \in 0 .. Len(seqs) : o[i] \in Nat
    BY <2>1 DEF Lengths
  <2>3. \A i \in 1 .. Len(seqs) : seqs[i] \in Seq(T)
    OBVIOUS
  <2>4. \A i \in 1 .. Len(seqs) : Len(seqs[i]) \in Nat
    BY <2>3
  <2> QED  BY <2>1, <2>2, <2>3, <2>4
<1>1. 0 \in Fits
  BY DEF Begins
<1>2. ASSUME NEW k \in 1 .. Len(seqs), k - 1 \in Fits PROVE k \in Fits
  <2>1. k \in 0 .. Len(seqs) /\ k - 1 \in 0 .. Len(seqs) /\ Len(seqs) \in Nat
    OBVIOUS
  <2>2. /\ g[k - 1] \in Seq(T) /\ seqs[k] \in Seq(T) /\ g[k] = g[k - 1] \o seqs[k]
        /\ o[k] = Len(g[k]) /\ o[k - 1] = Len(g[k - 1])
    BY <1>0, <2>1 DEF Joins, Lengths
  <2>3. /\ o[k - 1] \in Nat /\ Len(seqs[k]) \in Nat /\ o[k] = o[k - 1] + Len(seqs[k])
        /\ \A j \in 1 .. o[k - 1] : g[k][j] = g[k - 1][j]
        /\ \A j \in 1 .. Len(seqs[k]) : g[k][o[k - 1] + j] = seqs[k][j]
    <3>1. Follows(g[k], g[k - 1], seqs[k], o[k - 1], Len(seqs[k]))
      BY <2>2, FollowedBy
    <3> QED  BY <2>2, <3>1 DEF Follows
  <2>4. ASSUME NEW i \in 1 .. k
        PROVE  /\ o[i] = o[i - 1] + Len(seqs[i]) /\ o[i] <= o[k]
               /\ \A j \in 1 .. Len(seqs[i]) : g[k][o[i - 1] + j] = seqs[i][j]
    <3>1. CASE i = k
      BY <2>3, <3>1
    <3>2. CASE i # k
      <4>1. i \in 1 .. k - 1
        BY <2>1, <3>2
      <4>2. i \in 1 .. Len(seqs) /\ i \in 0 .. Len(seqs) /\ i - 1 \in 0 .. Len(seqs)
        BY <2>1
      <4>3. o[i - 1] \in Nat /\ o[i] \in Nat /\ Len(seqs[i]) \in Nat
        BY <1>0, <4>2
      <4>4. /\ o[i] = o[i - 1] + Len(seqs[i]) /\ o[i] <= o[k - 1]
            /\ \A j \in 1 .. Len(seqs[i]) : g[k - 1][o[i - 1] + j] = seqs[i][j]
        BY <1>2, <4>1 DEF Begins
      <4>5. ASSUME NEW j \in 1 .. Len(seqs[i]) PROVE g[k][o[i - 1] + j] = seqs[i][j]
        <5>1. o[i - 1] + j \in 1 .. o[k - 1]
          BY <2>3, <4>3, <4>4, Inside
        <5> QED  BY <2>3, <4>4, <5>1
      <4> QED  BY <2>3, <4>3, <4>4, <4>5, SMTT(60)
    <3> QED  BY <3>1, <3>2
  <2> QED  BY <2>1, <2>4 DEF Begins
<1> HIDE DEF Fits
<1>3. Len(seqs) \in Fits
  BY <1>1, <1>2, UpTo
<1> QED  BY <1>3 DEF Fits

\* Where each of seqs is in flat.
Placed(o, flat, seqs) ==
    /\ o \in [0 .. Len(seqs) -> Nat] /\ o[0] = 0 /\ o[Len(seqs)] = Len(flat)
    /\ \A i \in 1 .. Len(seqs) :
        /\ o[i] = o[i - 1] + Len(seqs[i]) /\ o[i] <= Len(flat)
        /\ \A j \in 1 .. Len(seqs[i]) : flat[o[i - 1] + j] = seqs[i][j]

LEMMA FlattenedPlaces ==
    ASSUME NEW T, NEW seqs \in Seq(Seq(T))
    PROVE  FlattenSeq(seqs) \in Seq(T) /\ \E o : Placed(o, FlattenSeq(seqs), seqs)
<1>1. PICK g : Joins(g, seqs, T) /\ FlattenSeq(seqs) = g[Len(seqs)]
  BY FlattenJoins
<1> DEFINE o == [i \in 0 .. Len(seqs) |-> Len(g[i])]
<1>2. Begins(o, g, seqs, Len(seqs))
  <2>1. Lengths(o, g, seqs)
    BY DEF Lengths
  <2> HIDE DEF o
  <2> QED  BY <1>1, <2>1, JoinedPlaces
<1>3. Len(seqs) \in 0 .. Len(seqs) /\ 0 \in 0 .. Len(seqs)
  OBVIOUS
<1>4. o[0] = 0 /\ o[Len(seqs)] = Len(FlattenSeq(seqs)) /\ FlattenSeq(seqs) \in Seq(T)
  BY <1>1, <1>3 DEF Joins
<1>5. o \in [0 .. Len(seqs) -> Nat]
  BY <1>1 DEF Joins
<1> HIDE DEF o
<1>6. \A i \in 1 .. Len(seqs) :
        /\ o[i] = o[i - 1] + Len(seqs[i]) /\ o[i] <= Len(FlattenSeq(seqs))
        /\ \A j \in 1 .. Len(seqs[i]) : FlattenSeq(seqs)[o[i - 1] + j] = seqs[i][j]
  BY <1>1, <1>2, <1>4 DEF Begins
<1>7. Placed(o, FlattenSeq(seqs), seqs)
  BY <1>4, <1>5, <1>6 DEF Placed
<1> QED  BY <1>4, <1>7

-----------------------------------------------------------------------------
(***************************************************************************)
(* Looking for bytes.                                                      *)
(***************************************************************************)

Matches(s, i, pattern) == \A j \in 1 .. Len(pattern) : s[i + j - 1] = pattern[j]

LEMMA FirstAtIs ==
    ASSUME NEW s \in Seq(Octets), NEW pattern \in Seq(Octets), NEW from \in Nat \ {0}
    PROVE  LET places == {k \in from .. Len(s) - Len(pattern) + 1 : Matches(s, k, pattern)}
           IN  FirstAt(s, pattern, from) = IF places = {} THEN 0 ELSE Min(places)
<1>1. DOMAIN pattern = 1 .. Len(pattern)
  OBVIOUS
<1> QED  BY <1>1 DEF FirstAt, Matches

LEMMA FirstAtFound ==
    ASSUME NEW s \in Seq(Octets), NEW pattern \in Seq(Octets), NEW from \in Nat \ {0},
           NEW i \in Nat, from <= i, i + Len(pattern) <= Len(s) + 1,
           Matches(s, i, pattern), \A k \in from .. i - 1 : ~Matches(s, k, pattern)
    PROVE  FirstAt(s, pattern, from) = i
<1> DEFINE Places == {k \in from .. Len(s) - Len(pattern) + 1 : Matches(s, k, pattern)}
<1>1. i \in Places
  OBVIOUS
<1>2. ASSUME NEW k \in Places PROVE k \in Nat /\ k >= i
  OBVIOUS
<1>3. Places \in SUBSET Nat
  BY <1>2
<1>4. FirstAt(s, pattern, from) = IF Places = {} THEN 0 ELSE Min(Places)
  BY FirstAtIs
<1> HIDE DEF Places
<1>5. Min(Places) \in Places /\ Min(Places) <= i
  BY <1>1, <1>3, LeastFound
<1>6. Min(Places) \in Nat /\ Min(Places) >= i
  BY <1>2, <1>3, <1>5
<1> QED  BY <1>1, <1>4, <1>5, <1>6

LEMMA FirstAtNone ==
    ASSUME NEW s \in Seq(Octets), NEW pattern \in Seq(Octets), NEW from \in Nat \ {0},
           \A k \in from .. Len(s) - Len(pattern) + 1 : ~Matches(s, k, pattern)
    PROVE  FirstAt(s, pattern, from) = 0
BY FirstAtIs, ZenonT(60)

LEMMA FirstAtRange ==
    ASSUME NEW s \in Seq(Octets), NEW pattern \in Seq(Octets), NEW from \in Nat \ {0}
    PROVE  \/ FirstAt(s, pattern, from) = 0
           \/ /\ FirstAt(s, pattern, from) \in from .. Len(s) - Len(pattern) + 1
              /\ Matches(s, FirstAt(s, pattern, from), pattern)
<1> DEFINE Places == {k \in from .. Len(s) - Len(pattern) + 1 : Matches(s, k, pattern)}
<1>1. Places \in SUBSET Nat
  OBVIOUS
<1>2. \A i \in Places : i \in from .. Len(s) - Len(pattern) + 1 /\ Matches(s, i, pattern)
  OBVIOUS
<1>3. FirstAt(s, pattern, from) = IF Places = {} THEN 0 ELSE Min(Places)
  BY FirstAtIs
<1> HIDE DEF Places
<1>4. Places # {} => Min(Places) \in Places
  BY <1>1, LeastFound
<1> QED  BY <1>2, <1>3, <1>4

-----------------------------------------------------------------------------
(***************************************************************************)
(* The parser over chunks.                                                 *)
(***************************************************************************)

LEMMA ChunkBytesIs ==
    ASSUME NEW digits \in Seq(Octets)
    PROVE  /\ ChunkBytes(digits) \in Nat
           /\ Len(digits) = 1 => ChunkBytes(digits) = Value(digits[1])
<1> DEFINE n == Len(digits)
           number == CHOOSE f : f = [i \in 0 .. n |->
                        IF i = 0 THEN 0 ELSE f[i - 1] * 16 + Value(digits[i])]
           round == [i \in 1 .. n |-> [v \in Nat |-> v * 16 + Value(digits[i])]]
<1>1. n \in Nat /\ \A i \in 1 .. n : digits[i] \in Octets /\ Value(digits[i]) \in Nat
  BY DEF Octets, Value
<1>2. Rounds(round, n, Nat)
  BY <1>1 DEF Rounds
<1>3. \A i \in 1 .. n : \A v \in Nat : round[i][v] = v * 16 + Value(digits[i])
  OBVIOUS
<1> HIDE DEF round, n
<1>4. PICK f : Runs(f, n, Nat, 0, round)
  BY <1>1, <1>2, LoopRuns
<1>5. f = [i \in 0 .. n |-> IF i = 0 THEN 0 ELSE f[i - 1] * 16 + Value(digits[i])]
  <2>1. f \in [0 .. n -> Nat] /\ f[0] = 0
    BY <1>4 DEF Runs
  <2>2. ASSUME NEW i \in 0 .. n
        PROVE  f[i] = IF i = 0 THEN 0 ELSE f[i - 1] * 16 + Value(digits[i])
    <3>1. CASE i = 0
      BY <2>1, <3>1
    <3>2. CASE i # 0
      <4>1. i \in 1 .. n /\ i - 1 \in 0 .. n
        BY <1>1, <3>2
      <4>2. f[i] = round[i][f[i - 1]] /\ f[i - 1] \in Nat
        BY <1>4, <2>1, <4>1 DEF Runs
      <4> QED  BY <1>3, <3>2, <4>1, <4>2
    <3> QED  BY <3>1, <3>2
  <2> QED  BY <2>1, <2>2
<1>6. number = [i \in 0 .. n |-> IF i = 0 THEN 0 ELSE number[i - 1] * 16 + Value(digits[i])]
  BY <1>5
<1>7. ChunkBytes(digits) = number[n]
  BY DEF ChunkBytes, n
<1> HIDE DEF number
<1> DEFINE Numbers == {i \in 0 .. n : number[i] \in Nat}
<1>8. n \in Numbers
  <2>1. 0 \in Numbers
    BY <1>1, <1>6
  <2>2. ASSUME NEW i \in 1 .. n, i - 1 \in Numbers PROVE i \in Numbers
    <3>1. i \in 0 .. n /\ i # 0
      BY <1>1
    <3>2. number[i] = number[i - 1] * 16 + Value(digits[i])
      BY <1>6, <3>1
    <3> QED  BY <1>1, <2>2, <3>1, <3>2
  <2> HIDE DEF Numbers
  <2> QED  BY <1>1, <2>1, <2>2, UpTo
<1>9. ASSUME n = 1 PROVE number[n] = Value(digits[1])
  <2>1. number[0] = 0 /\ number[1] = number[1 - 1] * 16 + Value(digits[1])
    BY <1>6, <1>9
  <2> QED  BY <1>1, <1>9, <2>1
<1> QED  BY <1>7, <1>8, <1>9 DEF n

\* What is looked for.
LEMMA Patterns ==
    /\ CRLF \in Seq(Octets) /\ Len(CRLF) = 2
    /\ CRLF[1] = Byte("cr", 0) /\ CRLF[2] = Byte("lf", 0)
    /\ CRLF \o CRLF \in Seq(Octets) /\ Len(CRLF \o CRLF) = 4
    /\ (CRLF \o CRLF)[1] = Byte("cr", 0) /\ (CRLF \o CRLF)[2] = Byte("lf", 0)
    /\ (CRLF \o CRLF)[3] = Byte("cr", 0) /\ (CRLF \o CRLF)[4] = Byte("lf", 0)
    /\ <<Byte("semicolon", 0)>> \in Seq(Octets) /\ Len(<<Byte("semicolon", 0)>>) = 1
<1> DEFINE c == Byte("cr", 0)  l == Byte("lf", 0)  m == Byte("semicolon", 0)
<1>1. c \in Octets /\ l \in Octets /\ m \in Octets
  BY DEF Byte, Octets, Kinds
<1>2. CRLF = <<c, l>>
  BY DEF CRLF
<1> HIDE DEF c, l, m
<1>3. <<c, l>> \in Seq(Octets) /\ <<m>> \in Seq(Octets)
  BY <1>1
<1>4. /\ <<c, l>> \o <<c, l>> \in Seq(Octets) /\ Len(<<c, l>> \o <<c, l>>) = 4
      /\ (<<c, l>> \o <<c, l>>)[1] = c /\ (<<c, l>> \o <<c, l>>)[2] = l
      /\ (<<c, l>> \o <<c, l>>)[3] = c /\ (<<c, l>> \o <<c, l>>)[4] = l
  BY <1>1
<1> QED  BY <1>1, <1>2, <1>3, <1>4 DEF c, l, m

\* What a match is.
LEMMA LineEndMatches ==
    ASSUME NEW s, NEW i \in Nat
    PROVE  Matches(s, i, CRLF) <=> (s[i] = Byte("cr", 0) /\ s[i + 1] = Byte("lf", 0))
<1>1. CRLF[1] = Byte("cr", 0) /\ CRLF[2] = Byte("lf", 0) /\ 1 .. Len(CRLF) = {1, 2}
  BY Patterns
<1>2. i + 1 - 1 = i /\ i + 2 - 1 = i + 1
  OBVIOUS
<1> QED  BY <1>1, <1>2 DEF Matches

LEMMA BlankMatches ==
    ASSUME NEW s, NEW i \in Nat
    PROVE  Matches(s, i, CRLF \o CRLF) <=>
            /\ s[i] = Byte("cr", 0) /\ s[i + 1] = Byte("lf", 0)
            /\ s[i + 2] = Byte("cr", 0) /\ s[i + 3] = Byte("lf", 0)
<1> DEFINE blank == CRLF \o CRLF
<1>1. /\ blank[1] = Byte("cr", 0) /\ blank[2] = Byte("lf", 0)
      /\ blank[3] = Byte("cr", 0) /\ blank[4] = Byte("lf", 0) /\ Len(blank) = 4
  BY Patterns
<1> HIDE DEF blank
<1>2. 1 .. Len(blank) = {1, 2, 3, 4}
  BY <1>1
<1>3. i + 1 - 1 = i /\ i + 2 - 1 = i + 1 /\ i + 3 - 1 = i + 2 /\ i + 4 - 1 = i + 3
  OBVIOUS
<1>4. Matches(s, i, blank) <=> /\ s[i] = blank[1] /\ s[i + 1] = blank[2]
                              /\ s[i + 2] = blank[3] /\ s[i + 3] = blank[4]
  BY <1>2, <1>3 DEF Matches
<1> QED  BY <1>1, <1>4 DEF blank

LEMMA SemicolonMatches ==
    ASSUME NEW s, NEW i \in Nat
    PROVE  Matches(s, i, <<Byte("semicolon", 0)>>) <=> s[i] = Byte("semicolon", 0)
<1> DEFINE semi == Byte("semicolon", 0)  pattern == <<semi>>
<1>1. pattern[1] = semi /\ Len(pattern) = 1
  OBVIOUS
<1> HIDE DEF semi, pattern
<1>2. i + 1 - 1 = i /\ 1 .. Len(pattern) = {1}
  BY <1>1
<1>3. Matches(s, i, pattern) <=> s[i] = semi
  BY <1>1, <1>2 DEF Matches
<1> QED  BY <1>3 DEF semi, pattern

LEMMA LineEndFound ==
    ASSUME NEW s \in Seq(Octets), NEW from \in Nat \ {0}, NEW i \in Nat, from <= i, i + 1 <= Len(s),
           s[i] = Byte("cr", 0), s[i + 1] = Byte("lf", 0),
           \A k \in from .. i - 1 : s[k] # Byte("cr", 0)
    PROVE  FirstAt(s, CRLF, from) = i
<1>1. Matches(s, i, CRLF) /\ \A k \in from .. i - 1 : ~Matches(s, k, CRLF)
  BY LineEndMatches
<1>2. i + Len(CRLF) <= Len(s) + 1
  BY Patterns
<1> QED  BY <1>1, <1>2, Patterns, FirstAtFound

LEMMA LineEndNone ==
    ASSUME NEW s \in Seq(Octets), NEW from \in Nat \ {0},
           \A k \in from .. Len(s) - 1 : s[k] # Byte("cr", 0)
    PROVE  FirstAt(s, CRLF, from) = 0
<1>1. \A k \in from .. Len(s) - Len(CRLF) + 1 : ~Matches(s, k, CRLF)
  BY Patterns, LineEndMatches
<1> QED  BY <1>1, Patterns, FirstAtNone

LEMMA SemicolonFound ==
    ASSUME NEW s \in Seq(Octets), NEW from \in Nat \ {0}, from + 1 <= Len(s),
           s[from] # Byte("semicolon", 0), s[from + 1] = Byte("semicolon", 0)
    PROVE  FirstAt(s, <<Byte("semicolon", 0)>>, from) = from + 1
<1> DEFINE pattern == <<Byte("semicolon", 0)>>
<1>1. Matches(s, from + 1, pattern) /\ ~Matches(s, from, pattern)
  BY SemicolonMatches
<1>2. pattern \in Seq(Octets) /\ Len(pattern) = 1
  BY Patterns
<1> HIDE DEF pattern
<1>3. \A k \in from .. from + 1 - 1 : ~Matches(s, k, pattern)
  <2>1. \A k \in from .. from + 1 - 1 : k = from
    OBVIOUS
  <2> QED  BY <1>1, <2>1
<1> DEFINE i == from + 1
<1>4. i \in Nat /\ from <= i /\ i + Len(pattern) <= Len(s) + 1
  BY <1>2
<1>5. Matches(s, i, pattern) /\ \A k \in from .. i - 1 : ~Matches(s, k, pattern)
  BY <1>1, <1>3
<1> HIDE DEF i
<1>6. FirstAt(s, pattern, from) = i
  BY <1>2, <1>4, <1>5, FirstAtFound
<1> QED  BY <1>6 DEF i, pattern

LEMMA SemicolonThere ==
    ASSUME NEW s \in Seq(Octets), NEW from \in Nat \ {0},
           NEW i, i = FirstAt(s, <<Byte("semicolon", 0)>>, from)
    PROVE  i = 0 \/ (i \in from .. Len(s) /\ s[i] = Byte("semicolon", 0))
<1> DEFINE pattern == <<Byte("semicolon", 0)>>
<1>1. pattern \in Seq(Octets) /\ Len(pattern) = 1 /\ i = FirstAt(s, pattern, from)
  BY Patterns
<1> HIDE DEF pattern
<1>2. i = 0 \/ (i \in from .. Len(s) - Len(pattern) + 1 /\ Matches(s, i, pattern))
  BY <1>1, FirstAtRange
<1>3. i # 0 => i \in from .. Len(s) /\ Matches(s, i, pattern)
  BY <1>1, <1>2
<1> QED  BY <1>3, SemicolonMatches DEF pattern

\* Where a whole chunk begins the next place comes later.
LEMMA ChunkWithin ==
    ASSUME NEW s \in Seq(Octets), NEW i \in 1 .. Len(s) + 1, WholeChunk(s, i)
    PROVE  /\ Size(s, i) \in Nat
           /\ NextChunk(s, i) \in 1 .. Len(s) + 1 /\ NextChunk(s, i) > i
<1> DEFINE n == Len(s)  e == LineEnd(s, i)
           semicolon == FirstAt(s, <<Byte("semicolon", 0)>>, i)
           upto == (IF semicolon \in i .. e THEN semicolon ELSE e) - 1
<1>1. n \in Nat /\ i \in Nat \ {0} /\ CRLF \in Seq(Octets) /\ Len(CRLF) = 2
  BY Patterns
<1>2. e \in i .. n - 1
  <2>1. e = 0 \/ e \in i .. n - 2 + 1
    BY <1>1, FirstAtRange DEF LineEnd
  <2> QED  BY <1>1, <2>1 DEF WholeChunk
<1>3. upto \in i - 1 .. n
  BY <1>1, <1>2
<1>4. Digits(s, i) = SubSeq(s, i, upto)
  BY DEF Digits
<1> HIDE DEF upto
<1>5. Digits(s, i) \in Seq(Octets)
  BY <1>1, <1>3, <1>4, SubSeqProperties
<1>6. Size(s, i) \in Nat
  BY <1>5, ChunkBytesIs DEF Size
<1> HIDE DEF e, n
<1>7. NextChunk(s, i) = e + 2 + Size(s, i) + 2
  BY DEF NextChunk, Data, e
<1>8. NextChunk(s, i) <= n + 1
  BY DEF WholeChunk, n
<1> QED  BY <1>1, <1>2, <1>6, <1>7, <1>8 DEF n

States == {"complete", "incomplete", "invalid"}
Verdict == [state : States, status_code : Nat, body_bytes : Nat]
ChunksOf(c, s, end_of_stream, status) ==
    \A i \in 1 .. Len(s) + 1 :
        c[i] = IF WholeChunk(s, i) THEN Counted(c[NextChunk(s, i)], Size(s, i))
               ELSE LastOfChunks(s, i, end_of_stream, status)

LEMMA ParsedTypes ==
    ASSUME NEW state \in States, NEW status \in Nat, NEW bytes \in Nat
    PROVE  Parsed(state, status, bytes) \in Verdict
BY DEF Parsed, Verdict

LEMMA LastTypes ==
    ASSUME NEW s, NEW i, NEW end_of_stream, NEW status \in Nat
    PROVE  LastOfChunks(s, i, end_of_stream, status) \in Verdict
<1>1. Unfinished(end_of_stream) \in States /\ {"complete", "invalid"} \subseteq States
  BY DEF Unfinished, States
<1>2. /\ Parsed(Unfinished(end_of_stream), status, 0) \in Verdict
      /\ Parsed("invalid", status, 0) \in Verdict
      /\ Parsed("complete", status, 0) \in Verdict
  BY <1>1, ParsedTypes
<1> QED  BY <1>2, Zenon DEF LastOfChunks

LEMMA CountedTypes ==
    ASSUME NEW r \in Verdict, NEW bytes \in Nat
    PROVE  Counted(r, bytes) \in Verdict
BY DEF Counted, Verdict

LEMMA ChunksFound ==
    ASSUME NEW s \in Seq(Octets), NEW offset, NEW end_of_stream, NEW status \in Nat
    PROVE  \E c : /\ parse_chunked_body(s, offset, end_of_stream, status) = c[offset]
                  /\ ChunksOf(c, s, end_of_stream, status)
<1> DEFINE M == Len(s) + 1
           next == [i \in 1 .. M |-> IF WholeChunk(s, i) THEN NextChunk(s, i) ELSE 0]
           base == [i \in 1 .. M |-> LastOfChunks(s, i, end_of_stream, status)]
           join == [i \in 1 .. M |-> [r \in Verdict |->
                        IF WholeChunk(s, i) THEN Counted(r, Size(s, i)) ELSE r]]
           chunks == CHOOSE c : c = [i \in 1 .. Len(s) + 1 |->
                IF WholeChunk(s, i) THEN Counted(c[NextChunk(s, i)], Size(s, i))
                ELSE LastOfChunks(s, i, end_of_stream, status)]
<1>1. M \in Nat
  OBVIOUS
<1>2. base \in [1 .. M -> Verdict]
  BY LastTypes
<1>3. next \in [1 .. M -> 0 .. M] /\ \A i \in 1 .. M : next[i] = 0 \/ next[i] > i
  <2>1. \A i \in 1 .. M : WholeChunk(s, i) => NextChunk(s, i) \in 1 .. M /\ NextChunk(s, i) > i
    BY ChunkWithin
  <2>2. 0 \in 0 .. M /\ \A j \in 1 .. M : j \in 0 .. M
    BY <1>1
  <2> HIDE DEF M
  <2> QED  BY <2>1, <2>2
<1>4. join \in [1 .. M -> [Verdict -> Verdict]]
  <2>1. ASSUME NEW i \in 1 .. M
        PROVE  [r \in Verdict |-> IF WholeChunk(s, i) THEN Counted(r, Size(s, i)) ELSE r]
                    \in [Verdict -> Verdict]
    <3>1. WholeChunk(s, i) => Size(s, i) \in Nat
      BY ChunkWithin
    <3>2. \A r \in Verdict : WholeChunk(s, i) => Counted(r, Size(s, i)) \in Verdict
      BY <3>1, CountedTypes
    <3> QED  BY <3>2, Zenon
  <2> QED  BY <2>1, Zenon
<1>5. \A i \in 1 .. M : WholeChunk(s, i) => next[i] = NextChunk(s, i) /\ next[i] # 0
  <2>1. \A i \in 1 .. M : WholeChunk(s, i) => NextChunk(s, i) \in 1 .. M
    BY ChunkWithin
  <2> QED  BY <2>1
<1>6. \A i \in 1 .. M : ~WholeChunk(s, i) => next[i] = 0
  OBVIOUS
<1>7. /\ \A i \in 1 .. M : base[i] = LastOfChunks(s, i, end_of_stream, status)
      /\ \A i \in 1 .. M : \A r \in Verdict :
            WholeChunk(s, i) => join[i][r] = Counted(r, Size(s, i))
  OBVIOUS
<1> HIDE DEF M, next, base, join
<1>8. PICK f \in [1 .. M -> Verdict] : Walks(f, M, base, next, join)
  BY <1>1, <1>2, <1>3, <1>4, WalkRuns
<1>9. ASSUME NEW i \in 1 .. M
      PROVE  f[i] = IF WholeChunk(s, i) THEN Counted(f[NextChunk(s, i)], Size(s, i))
                    ELSE LastOfChunks(s, i, end_of_stream, status)
  <2>1. f[i] = IF next[i] = 0 THEN base[i] ELSE join[i][f[next[i]]]
    BY <1>8 DEF Walks
  <2>2. CASE WholeChunk(s, i)
    <3>1. next[i] = NextChunk(s, i) /\ next[i] # 0 /\ next[i] \in 1 .. M
      BY <1>3, <1>5, <2>2
    <3>2. f[next[i]] \in Verdict
      BY <3>1
    <3> QED  BY <1>7, <2>1, <2>2, <3>1, <3>2
  <2>3. CASE ~WholeChunk(s, i)
    BY <1>6, <1>7, <2>1, <2>3
  <2> QED  BY <2>2, <2>3
<1>10. f = [i \in 1 .. Len(s) + 1 |->
                IF WholeChunk(s, i) THEN Counted(f[NextChunk(s, i)], Size(s, i))
                ELSE LastOfChunks(s, i, end_of_stream, status)]
  BY <1>9 DEF M
<1>11. chunks = [i \in 1 .. Len(s) + 1 |->
                IF WholeChunk(s, i) THEN Counted(chunks[NextChunk(s, i)], Size(s, i))
                ELSE LastOfChunks(s, i, end_of_stream, status)]
  BY <1>10
<1>12. parse_chunked_body(s, offset, end_of_stream, status) = chunks[offset]
  BY DEF parse_chunked_body
<1> HIDE DEF chunks
<1>13. ChunksOf(chunks, s, end_of_stream, status)
  BY <1>11 DEF ChunksOf
<1> QED  BY <1>12, <1>13

-----------------------------------------------------------------------------
(***************************************************************************)
(* What an answer looks like on the wire.                                  *)
(***************************************************************************)

LEMMA LineIs ==
    ASSUME NEW t \in Octets
    PROVE  /\ Line(t) \in Seq(Octets) /\ Len(Line(t)) = 3 /\ Line(t)[1] = t
           /\ Line(t)[2] = Byte("cr", 0) /\ Line(t)[3] = Byte("lf", 0)
<1>1. <<t>> \in Seq(Octets) /\ Len(<<t>>) = 1 /\ <<t>>[1] = t
  OBVIOUS
<1>2. /\ <<t>> \o CRLF \in Seq(Octets) /\ Len(<<t>> \o CRLF) = 3
      /\ \A j \in 1 .. 1 : (<<t>> \o CRLF)[j] = <<t>>[j]
      /\ \A j \in 1 .. 2 : (<<t>> \o CRLF)[1 + j] = CRLF[j]
  BY <1>1, Patterns, Followed
<1>3. (<<t>> \o CRLF)[1] = t /\ (<<t>> \o CRLF)[1 + 1] = CRLF[1] /\ (<<t>> \o CRLF)[1 + 2] = CRLF[2]
  BY <1>1, <1>2
<1> QED  BY <1>2, <1>3, Patterns DEF Line

LEMMA ThreeThree ==
    ASSUME NEW v, NEW s, NEW u, Follows(v, s, u, 3, 3)
    PROVE  /\ Len(v) = 6 /\ v[1] = s[1] /\ v[2] = s[2] /\ v[3] = s[3]
           /\ v[4] = u[1] /\ v[5] = u[2] /\ v[6] = u[3]
BY DEF Follows

LEMMA SixTwo ==
    ASSUME NEW v, NEW s, NEW u, Follows(v, s, u, 6, 2)
    PROVE  /\ Len(v) = 8 /\ v[1] = s[1] /\ v[2] = s[2] /\ v[3] = s[3]
           /\ v[4] = s[4] /\ v[5] = s[5] /\ v[6] = s[6] /\ v[7] = u[1] /\ v[8] = u[2]
BY DEF Follows

\* The sequence e begins with a status line, a header line and an empty line.
Headed(e, t, h) ==
    /\ e[1] = t /\ e[2] = Byte("cr", 0) /\ e[3] = Byte("lf", 0)
    /\ e[4] = h /\ e[5] = Byte("cr", 0) /\ e[6] = Byte("lf", 0)
    /\ e[7] = Byte("cr", 0) /\ e[8] = Byte("lf", 0)

LEMMA HeadIs ==
    ASSUME NEW t \in Octets, NEW h \in Octets
    PROVE  /\ Line(t) \o Line(h) \o CRLF \in Seq(Octets)
           /\ Len(Line(t) \o Line(h) \o CRLF) = 8
           /\ Headed(Line(t) \o Line(h) \o CRLF, t, h)
<1> DEFINE s == Line(t)  u == Line(h)  v == s \o u  e == v \o CRLF
<1>1. /\ s \in Seq(Octets) /\ Len(s) = 3 /\ s[1] = t /\ s[2] = Byte("cr", 0) /\ s[3] = Byte("lf", 0)
      /\ u \in Seq(Octets) /\ Len(u) = 3 /\ u[1] = h /\ u[2] = Byte("cr", 0) /\ u[3] = Byte("lf", 0)
  BY LineIs
<1>2. e = v \o CRLF
  OBVIOUS
<1> HIDE DEF s, u
<1>3. v \in Seq(Octets) /\ Follows(v, s, u, 3, 3)
  BY <1>1, FollowedBy
<1>4. Len(v) = 6 /\ v[1] = s[1] /\ v[2] = s[2] /\ v[3] = s[3]
      /\ v[4] = u[1] /\ v[5] = u[2] /\ v[6] = u[3]
  <2> HIDE DEF v
  <2> QED  BY <1>3, ThreeThree
<1> HIDE DEF v, e
<1>5. e \in Seq(Octets) /\ Follows(e, v, CRLF, 6, 2)
  BY <1>2, <1>3, <1>4, Patterns, FollowedBy
<1>6. /\ Len(e) = 8
      /\ e[1] = v[1] /\ e[2] = v[2] /\ e[3] = v[3] /\ e[4] = v[4] /\ e[5] = v[5] /\ e[6] = v[6]
      /\ e[7] = CRLF[1] /\ e[8] = CRLF[2]
  BY <1>5, SixTwo
<1>7. Headed(e, t, h)
  BY <1>1, <1>4, <1>6, Patterns DEF Headed
<1> QED  BY <1>5, <1>6, <1>7 DEF e, v, s, u

LEMMA BodyIs ==
    ASSUME NEW a \in Answer
    PROVE  BodyOf(a) \in Seq(Octets) /\ a.pieces \in Seq(Seq(Octets))
<1>1. a.pieces \in Seq(Seq(Octets))
  <2>1. a.pieces \in Seq(Seq(Octets) \ {<<>>})
    BY DEF Answer
  <2> QED  BY <2>1
<1> QED  BY <1>1, FlattenedPlaces DEF BodyOf

LEMMA Encoded ==
    ASSUME NEW a \in Answer, Carried(a) \in Seq(Octets)
    PROVE  /\ Encode(a) \in Seq(Octets) /\ Len(Encode(a)) = 8 + Len(Carried(a))
           /\ Headed(Encode(a), Byte("status", a.status), HeaderOf(a))
           /\ \A j \in 1 .. Len(Carried(a)) : Encode(a)[8 + j] = Carried(a)[j]
<1> DEFINE t == Byte("status", a.status)  h == HeaderOf(a)
           e == Line(t) \o Line(h) \o CRLF
<1>1. a # NoAnswer /\ t \in Octets /\ h \in Octets
  <2>1. a.framing \in Framing /\ a.status \in Nat
    BY DEF Answer
  <2>2. a # NoAnswer
    BY <2>1 DEF NoAnswer, Framing
  <2>3. Len(BodyOf(a)) \in Nat
    BY BodyIs
  <2> QED  BY <2>1, <2>2, <2>3 DEF HeaderOf, Framing, Byte, Octets, Kinds
<1>2. Encode(a) = e \o Carried(a)
  BY <1>1 DEF Encode
<1> HIDE DEF t, h
<1>3. e \in Seq(Octets) /\ Len(e) = 8 /\ Headed(e, t, h)
  BY <1>1, HeadIs
<1> HIDE DEF e
<1>4. Encode(a) \in Seq(Octets) /\ Follows(Encode(a), e, Carried(a), 8, Len(Carried(a)))
  BY <1>2, <1>3, FollowedBy
<1>5. \A j \in 1 .. 8 : Encode(a)[j] = e[j]
  BY <1>4 DEF Follows
<1> QED  BY <1>3, <1>4, <1>5 DEF Headed, Follows, t, h

\* At this place of e begins a line with a size and, if it is long, an extension.
SizeIn(e, place, size, d) ==
    /\ e[place] = Byte("digit", size)
    /\ d = 3 => e[place + 1] = Byte("semicolon", 0) /\ e[place + 2] = Byte("text", 0)
    /\ e[place + d] = Byte("cr", 0) /\ e[place + d + 1] = Byte("lf", 0)

\* What has come in of e.
Prefix(s, e, n) == Len(s) = n /\ \A j \in 1 .. n : s[j] = e[j]

\* Such a line is read when all of it has come in.
LEMMA SizeRead ==
    ASSUME NEW s \in Seq(Octets), NEW e, NEW n \in Nat, Prefix(s, e, n),
           NEW i \in Nat \ {0}, NEW d \in {1, 3}, NEW size \in Nat, SizeIn(e, i, size, d)
    PROVE  /\ i + d + 1 <= n => /\ LineEnd(s, i) = i + d
                                /\ HasSize(s, i) /\ Size(s, i) = size
           /\ i + d + 1 > n => i > n \/ LineEnd(s, i) = 0
<1> DEFINE cr == Byte("cr", 0)  semi == Byte("semicolon", 0)
<1>1. Len(s) = n /\ \A j \in 1 .. n : s[j] = e[j]
  BY DEF Prefix
<1>2. /\ i <= n => s[i] = Byte("digit", size)
      /\ d = 3 => (i + 1 <= n => s[i + 1] = semi) /\ (i + 2 <= n => s[i + 2] = Byte("text", 0))
      /\ i + d <= n => s[i + d] = cr
      /\ i + d + 1 <= n => s[i + d + 1] = Byte("lf", 0)
  <2>1. i + 1 \in Nat \ {0} /\ i + 2 \in Nat \ {0} /\ i + d \in Nat \ {0} /\ i + d + 1 \in Nat \ {0}
    OBVIOUS
  <2> QED  BY <1>1, <2>1, SMTT(60) DEF SizeIn
<1>3. \A k \in i .. i + d - 1 : k <= n => s[k] # cr
  <2>1. Byte("digit", size) # cr /\ semi # cr /\ Byte("text", 0) # cr
    BY DEF Byte
  <2>2. \A k \in i .. i + d - 1 : k = i \/ (d = 3 /\ (k = i + 1 \/ k = i + 2))
    OBVIOUS
  <2> HIDE DEF cr, semi
  <2> QED  BY <1>2, <2>1, <2>2
<1>4. ASSUME i + d + 1 <= n PROVE LineEnd(s, i) = i + d
  <2>1. \A k \in i .. i + d - 1 : s[k] # cr
    BY <1>3, <1>4
  <2>2. s[i + d] = cr /\ s[i + d + 1] = Byte("lf", 0) /\ i + d \in Nat /\ i <= i + d
        /\ i + d + 1 <= Len(s)
    BY <1>1, <1>2, <1>4
  <2> QED  BY <2>1, <2>2, LineEndFound DEF LineEnd
<1>5. ASSUME i + d + 1 > n PROVE LineEnd(s, i) = 0
  <2>1. \A k \in i .. Len(s) - 1 : s[k] # cr
    BY <1>1, <1>3, <1>5
  <2> QED  BY <2>1, LineEndNone DEF LineEnd
<1>6. ASSUME i + d + 1 <= n 
      PROVE  /\ Digits(s, i) \in Seq(Octets) /\ Len(Digits(s, i)) = 1
             /\ Digits(s, i)[1] = Byte("digit", size)
  <2> DEFINE semicolon == FirstAt(s, <<semi>>, i)
             upto == (IF semicolon \in i .. i + d THEN semicolon ELSE i + d) - 1
  <2>1. upto = i
    <3>0. Byte("digit", size) # semi /\ cr # semi /\ Byte("text", 0) # semi
      BY DEF Byte
    <3> HIDE DEF cr, semi
    <3>1. CASE d = 1
      <4>1. semicolon = 0 \/ (semicolon \in i .. Len(s) /\ s[semicolon] = semi)
        BY SemicolonThere DEF semi
      <4>2. s[i] # semi /\ s[i + 1] # semi
        BY <1>2, <1>6, <3>0, <3>1
      <4> HIDE DEF semicolon
      <4>3. semicolon \notin i .. i + d
        BY <3>1, <4>1, <4>2
      <4> QED  BY <3>1, <4>3
    <3>2. CASE d = 3
      <4>1. s[i] # semi /\ s[i + 1] = semi /\ i + 1 <= Len(s)
        BY <1>1, <1>2, <1>6, <3>0, <3>2
      <4>2. semicolon = i + 1
        BY <4>1, SemicolonFound DEF semi
      <4> QED  BY <3>2, <4>2
    <3> QED  BY <3>1, <3>2
  <2>2. Digits(s, i) = SubSeq(s, i, upto)
    BY <1>4, <1>6 DEF Digits
  <2> HIDE DEF upto
  <2>3. Digits(s, i) = SubSeq(s, i, i) /\ i <= Len(s) /\ s[i] = Byte("digit", size)
    BY <1>1, <1>2, <1>6, <2>1, <2>2
  <2>4. \A k \in i .. i : s[k] \in Octets
    BY <2>3
  <2>5. /\ SubSeq(s, i, i) \in Seq(Octets)
        /\ Len(SubSeq(s, i, i)) = IF i <= i THEN i - i + 1 ELSE 0
        /\ \A k \in 1 .. i - i + 1 : SubSeq(s, i, i)[k] = s[i + k - 1]
    BY <2>4, SubSeqProperties
  <2>6. SubSeq(s, i, i)[1] = s[i]
    <3>1. 1 \in 1 .. i - i + 1 /\ i + 1 - 1 = i
      OBVIOUS
    <3> QED  BY <2>5, <3>1
  <2> QED  BY <2>3, <2>5, <2>6
<1>7. ASSUME i + d + 1 <= n PROVE HasSize(s, i) /\ Size(s, i) = size
  <2> DEFINE digits == Digits(s, i)
  <2>1. digits \in Seq(Octets) /\ Len(digits) = 1 /\ digits[1] = Byte("digit", size)
    BY <1>6, <1>7
  <2>2. Kind(digits[1]) = "digit" /\ Value(digits[1]) = size
    BY <2>1 DEF Kind, Value, Byte
  <2> HIDE DEF digits
  <2>3. digits # <<>> /\ \A j \in DOMAIN digits : Kind(digits[j]) = "digit"
    <3>1. DOMAIN digits = {1} /\ digits # <<>>
      <4>1. DOMAIN digits = 1 .. Len(digits)
        BY <2>1
      <4>2. 1 .. 1 = {1} /\ {1} # {}
        OBVIOUS
      <4>3. DOMAIN digits = {1}
        BY <2>1, <4>1, <4>2, Zenon
      <4>4. DOMAIN <<>> = {}
        OBVIOUS
      <4> QED  BY <4>2, <4>3, <4>4, Zenon
    <3> QED  BY <2>2, <3>1, Zenon
  <2>4. ChunkBytes(digits) = size
    BY <2>1, <2>2, ChunkBytesIs
  <2> QED  BY <2>3, <2>4 DEF HasSize, Size, digits
<1> QED  BY <1>4, <1>5, <1>7

\* Two bytes in a row.
LEMMA PairIs ==
    ASSUME NEW s \in Seq(Octets), NEW k \in Nat \ {0}, k + 1 <= Len(s),
           s[k] = Byte("cr", 0), s[k + 1] = Byte("lf", 0)
    PROVE  SubSeq(s, k, k + 1) = CRLF
<1> DEFINE u == SubSeq(s, k, k + 1)
<1>1. \A j \in k .. k + 1 : s[j] \in Octets
  OBVIOUS
<1>2. /\ u \in Seq(Octets) /\ Len(u) = IF k <= k + 1 THEN k + 1 - k + 1 ELSE 0
      /\ \A j \in 1 .. k + 1 - k + 1 : u[j] = s[k + j - 1]
  BY <1>1, SubSeqProperties
<1> HIDE DEF u
<1>3. Len(u) = 2 /\ u[1] = s[k + 1 - 1] /\ u[2] = s[k + 2 - 1]
  BY <1>2
<1>4. u[1] = CRLF[1] /\ u[2] = CRLF[2]
  <2>1. k + 1 - 1 = k /\ k + 2 - 1 = k + 1
    OBVIOUS
  <2> QED  BY <1>3, <2>1, Patterns
<1>5. \A j \in 1 .. Len(u) : u[j] = CRLF[j]
  <2>1. 1 .. Len(u) = {1, 2}
    BY <1>3
  <2> QED  BY <1>4, <2>1
<1>6. u = CRLF
  BY <1>2, <1>3, <1>5, Patterns, SeqEqual
<1> QED  BY <1>6 DEF u

\* One chunk of size bytes, from i to the next.
PieceIn(e, i, next, size, d) ==
    /\ size \in Nat \ {0} /\ next = i + d + 2 + size + 2
    /\ SizeIn(e, i, size, d) /\ e[next - 2] = Byte("cr", 0) /\ e[next - 1] = Byte("lf", 0)

\* A chunk is taken when its line end has come in and awaited before.
Awaited(s, i, next, size, n, end_of_stream, status) ==
    /\ next <= n + 1 => WholeChunk(s, i) /\ NextChunk(s, i) = next /\ Size(s, i) = size
    /\ next > n + 1 => /\ ~WholeChunk(s, i)
                       /\ LastOfChunks(s, i, end_of_stream, status)
                            = Parsed(Unfinished(end_of_stream), status, 0)

LEMMA ChunkRead ==
    ASSUME NEW s \in Seq(Octets), NEW e, NEW n \in Nat, Prefix(s, e, n),
           NEW i \in Nat \ {0}, NEW d \in {1, 3}, NEW size, NEW next, PieceIn(e, i, next, size, d),
           i <= n + 1, NEW end_of_stream, NEW status
    PROVE  Awaited(s, i, next, size, n, end_of_stream, status)
<1>1. Len(s) = n /\ \A j \in 1 .. n : s[j] = e[j]
  BY DEF Prefix
<1>0. /\ size \in Nat \ {0} /\ next = i + d + 2 + size + 2
      /\ SizeIn(e, i, size, d) /\ e[next - 2] = Byte("cr", 0) /\ e[next - 1] = Byte("lf", 0)
  BY DEF PieceIn
<1>2. /\ i + d + 1 <= n => /\ LineEnd(s, i) = i + d
                           /\ HasSize(s, i) /\ Size(s, i) = size
      /\ i + d + 1 > n => i > n \/ LineEnd(s, i) = 0
  BY <1>0, SizeRead
<1>3. ASSUME i + d + 1 <= n PROVE NextChunk(s, i) = next
  BY <1>0, <1>2, <1>3 DEF NextChunk, Data
<1>4. ASSUME next <= n + 1 PROVE WholeChunk(s, i)
  <2>1. i + d + 1 <= n /\ next - 2 \in Nat \ {0} /\ (next - 2) + 1 = next - 1
        /\ next - 2 <= n /\ next - 1 <= n /\ next - 1 \in Nat \ {0}
    BY <1>0, <1>4
  <2>2. s[next - 2] = Byte("cr", 0) /\ s[next - 1] = Byte("lf", 0)
    BY <1>0, <1>1, <2>1
  <2>3. SubSeq(s, next - 2, next - 1) = CRLF
    <3> DEFINE k == next - 2
    <3>1. k \in Nat \ {0} /\ k + 1 <= Len(s) /\ s[k] = Byte("cr", 0) /\ s[k + 1] = Byte("lf", 0)
          /\ next - 1 = k + 1
      BY <1>1, <2>1, <2>2
    <3> HIDE DEF k
    <3>2. SubSeq(s, k, k + 1) = CRLF
      BY <3>1, PairIs
    <3> QED  BY <3>1, <3>2 DEF k
  <2>4. i <= Len(s) /\ LineEnd(s, i) # 0 /\ HasSize(s, i) /\ Size(s, i) # 0
        /\ NextChunk(s, i) = next /\ next <= Len(s) + 1
    BY <1>0, <1>1, <1>2, <1>3, <1>4, <2>1
  <2> QED  BY <2>3, <2>4 DEF WholeChunk
<1>5. ASSUME next > n + 1
      PROVE  /\ ~WholeChunk(s, i)
             /\ LastOfChunks(s, i, end_of_stream, status)
                    = Parsed(Unfinished(end_of_stream), status, 0)
  <2>1. CASE i + d + 1 > n
    BY <1>1, <1>2, <2>1 DEF WholeChunk, LastOfChunks
  <2>2. CASE i + d + 1 <= n
    <3>1. /\ i <= Len(s) /\ LineEnd(s, i) # 0 /\ HasSize(s, i) /\ Size(s, i) # 0
          /\ NextChunk(s, i) > Len(s) + 1 /\ ~(NextChunk(s, i) <= Len(s) + 1) /\ ~(i > Len(s))
      BY <1>0, <1>1, <1>2, <1>3, <1>5, <2>2
    <3> QED  BY <3>1, Zenon DEF WholeChunk, LastOfChunks
  <2> QED  BY <2>1, <2>2
<1>6. next <= n + 1 => i + d + 1 <= n
  BY <1>0
<1> QED  BY <1>0, <1>2, <1>3, <1>4, <1>5, <1>6 DEF Awaited

\* The last chunk ends at the end of e, after a trailer if there is one.
LastIn(e, i, end) ==
    /\ SizeIn(e, i, 0, 1)
    /\ \/ /\ end = i + 4 /\ e[i + 3] = Byte("cr", 0) /\ e[i + 4] = Byte("lf", 0)
       \/ /\ end = i + 7 /\ e[i + 3] = Byte("header", 0)
          /\ e[i + 4] = Byte("cr", 0) /\ e[i + 5] = Byte("lf", 0)
          /\ e[i + 6] = Byte("cr", 0) /\ e[i + 7] = Byte("lf", 0)

LEMMA LastRead ==
    ASSUME NEW s \in Seq(Octets), NEW e, NEW n \in Nat, Prefix(s, e, n),
           NEW i \in Nat \ {0}, NEW end, LastIn(e, i, end), i <= n + 1, n <= end,
           NEW end_of_stream, NEW status
    PROVE  /\ ~WholeChunk(s, i)
           /\ LastOfChunks(s, i, end_of_stream, status) =
                Parsed(IF n = end THEN "complete" ELSE Unfinished(end_of_stream), status, 0)
<1>1. Len(s) = n /\ \A j \in 1 .. n : s[j] = e[j]
  BY DEF Prefix
<1>2. /\ i + 2 <= n => /\ LineEnd(s, i) = i + 1
                       /\ HasSize(s, i) /\ Size(s, i) = 0
      /\ i + 2 > n => i > n \/ LineEnd(s, i) = 0
  <2>1. SizeIn(e, i, 0, 1) /\ 1 \in {1, 3} /\ 0 \in Nat
    BY DEF LastIn
  <2>2. /\ i + 1 + 1 <= n => /\ LineEnd(s, i) = i + 1
                             /\ HasSize(s, i) /\ Size(s, i) = 0
        /\ i + 1 + 1 > n => i > n \/ LineEnd(s, i) = 0
    BY <2>1, SizeRead
  <2> QED  BY <2>2
<1>3. CASE i + 2 > n
  BY <1>1, <1>2, <1>3 DEF WholeChunk, LastOfChunks, LastIn
<1>4. CASE i + 2 <= n
  <2> DEFINE o == i + 3
  <2>1. o \in Nat \ {0} /\ Data(s, i) = o /\ o <= n + 1
    BY <1>2, <1>4 DEF Data
  <2>2. after_last_chunk(s, o) <=> n = end
    <3> DEFINE L == FirstAt(s, CRLF, o)  B == FirstAt(s, CRLF \o CRLF, o)
    <3>1. L = 0 \/ (L \in o .. n - 1 /\ s[L] = Byte("cr", 0))
      <4>1. L = 0 \/ (L \in o .. Len(s) - Len(CRLF) + 1 /\ Matches(s, L, CRLF))
        BY <2>1, Patterns, FirstAtRange
      <4> HIDE DEF L, o
      <4>2. L # 0 => L \in o .. n - 1 /\ L \in Nat
        BY <1>1, <2>1, <4>1, Patterns
      <4> QED  BY <4>1, <4>2, LineEndMatches
    <3>2. B = 0 \/ (B \in o .. n - 3 /\ s[B] = Byte("cr", 0))
      <4>1. B = 0 \/ (B \in o .. Len(s) - Len(CRLF \o CRLF) + 1 /\ Matches(s, B, CRLF \o CRLF))
        BY <2>1, Patterns, FirstAtRange
      <4> HIDE DEF B, o
      <4>2. B # 0 => B \in o .. n - 3 /\ B \in Nat
        <5>1. Len(CRLF \o CRLF) = 4
          BY Patterns
        <5> QED  BY <1>1, <2>1, <4>1, <5>1
      <4> QED  BY <4>1, <4>2, BlankMatches
    <3>3. after_last_chunk(s, o) <=> L = o \/ B # 0
      BY DEF after_last_chunk
    <3>4. CASE /\ end = i + 4 /\ e[i + 3] = Byte("cr", 0) /\ e[i + 4] = Byte("lf", 0)
      <4>1. ASSUME n = end PROVE L = o
        <5>1. /\ o \in Nat \ {0} /\ o \in Nat /\ o <= o /\ o + 1 <= Len(s)
              /\ s[o] = Byte("cr", 0) /\ s[o + 1] = Byte("lf", 0)
          BY <1>1, <1>4, <3>4, <4>1
        <5>2. \A k \in o .. o - 1 : s[k] # Byte("cr", 0)
          OBVIOUS
        <5> QED  BY <5>1, <5>2, LineEndFound
      <4>2. ASSUME n # end PROVE L = 0 /\ B = 0
        <5>1. n - 1 < o /\ n - 3 < o
          BY <1>4, <3>4, <4>2
        <5> HIDE DEF L, B, o
        <5> QED  BY <2>1, <3>1, <3>2, <5>1
      <4>3. o # 0
        BY <2>1
      <4> QED  BY <3>3, <4>1, <4>2, <4>3, Zenon
    <3>5. CASE /\ end = i + 7 /\ e[i + 3] = Byte("header", 0)
               /\ e[i + 4] = Byte("cr", 0) /\ e[i + 5] = Byte("lf", 0)
               /\ e[i + 6] = Byte("cr", 0) /\ e[i + 7] = Byte("lf", 0)
      <4>1. o <= n => s[o] # Byte("cr", 0)
        <5>1. o <= n => s[o] = Byte("header", 0)
          BY <1>1, <2>1, <3>5
        <5> QED  BY <5>1 DEF Byte
      <4>2. L # o
        <5> HIDE DEF L, o
        <5> QED  BY <2>1, <3>1, <4>1
      <4>3. ASSUME n # end PROVE B = 0
        <5>1. n - 3 <= o
          BY <1>4, <3>5, <4>3
        <5> HIDE DEF B, o
        <5> QED  BY <2>1, <3>2, <4>1, <5>1
      <4>4. ASSUME n = end PROVE B # 0
        <5>1. Matches(s, o + 1, CRLF \o CRLF) /\ ~Matches(s, o, CRLF \o CRLF)
          <6>1. /\ s[i + 4] = Byte("cr", 0) /\ s[i + 5] = Byte("lf", 0)
                /\ s[i + 6] = Byte("cr", 0) /\ s[i + 7] = Byte("lf", 0)
            BY <1>1, <3>5, <4>4, SMTT(60)
          <6>2. o + 1 = i + 4 /\ o + 1 + 1 = i + 5 /\ o + 1 + 2 = i + 6 /\ o + 1 + 3 = i + 7
                /\ o <= n /\ o + 1 \in Nat /\ o \in Nat
            BY <3>5, <4>4
          <6> HIDE DEF o
          <6> QED  BY <4>1, <6>1, <6>2, BlankMatches
        <5> DEFINE blank == CRLF \o CRLF  p == o + 1
        <5>2. blank \in Seq(Octets) /\ Len(blank) = 4
          BY Patterns
        <5>3. p \in Nat /\ o <= p /\ p + 4 <= Len(s) + 1
          BY <1>1, <3>5, <4>4
        <5>4. \A k \in o .. p - 1 : k = o
          BY <2>1
        <5> HIDE DEF o, p, blank
        <5>5. Matches(s, p, blank) /\ \A k \in o .. p - 1 : ~Matches(s, k, blank)
          BY <5>1, <5>4 DEF p, blank
        <5>6. FirstAt(s, blank, o) = p
          BY <2>1, <5>2, <5>3, <5>5, FirstAtFound
        <5>7. p # 0
          BY <2>1 DEF p
        <5> QED  BY <5>6, <5>7 DEF blank
      <4> QED  BY <3>3, <4>2, <4>3, <4>4, Zenon
    <3> QED  BY <3>4, <3>5 DEF LastIn
  <2>3. /\ i <= Len(s) /\ LineEnd(s, i) # 0 /\ HasSize(s, i) /\ Size(s, i) = 0
        /\ ~(i > Len(s))
    BY <1>1, <1>2, <1>4
  <2>4. ~WholeChunk(s, i)
    BY <2>3 DEF WholeChunk
  <2>5. LastOfChunks(s, i, end_of_stream, status) =
            IF after_last_chunk(s, o) THEN Parsed("complete", status, 0)
            ELSE Parsed(Unfinished(end_of_stream), status, 0)
    BY <2>1, <2>3, Zenon DEF LastOfChunks
  <2> HIDE DEF o
  <2> QED  BY <2>2, <2>4, <2>5
<1> QED  BY <1>3, <1>4

-----------------------------------------------------------------------------
(***************************************************************************)
(* Where the chunks of an answer are.                                      *)
(***************************************************************************)

Width(extended) == IF extended THEN 3 ELSE 1

LEMMA SizeLineIs ==
    ASSUME NEW bytes \in Nat, NEW extended \in BOOLEAN
    PROVE  /\ SizeLine(bytes, extended) \in Seq(Octets)
           /\ Len(SizeLine(bytes, extended)) = Width(extended) + 2
           /\ SizeIn(SizeLine(bytes, extended), 1, bytes, Width(extended))
<1> DEFINE digit == Byte("digit", bytes)  semi == Byte("semicolon", 0)  text == Byte("text", 0)
<1>1. digit \in Octets /\ semi \in Octets /\ text \in Octets
  BY DEF Octets, Kinds, Byte
<1> HIDE DEF digit, semi, text
<1>2. CASE extended
  <2> DEFINE u == <<digit, semi>>  l == u \o Line(text)
  <2>1. u \in Seq(Octets) /\ Len(u) = 2 /\ u[1] = digit /\ u[2] = semi
    BY <1>1
  <2>2. /\ Line(text) \in Seq(Octets) /\ Len(Line(text)) = 3 /\ Line(text)[1] = text
        /\ Line(text)[2] = Byte("cr", 0) /\ Line(text)[3] = Byte("lf", 0)
    BY <1>1, LineIs
  <2> HIDE DEF u
  <2>3. l \in Seq(Octets) /\ Follows(l, u, Line(text), 2, 3)
    BY <2>1, <2>2, FollowedBy
  <2> HIDE DEF l
  <2>4. /\ Len(l) = 5 /\ l[1] = digit /\ l[1 + 1] = semi /\ l[1 + 2] = text
        /\ l[1 + 3] = Byte("cr", 0) /\ l[1 + 3 + 1] = Byte("lf", 0)
    <3>1. l[2 + 1] = text /\ l[2 + 2] = Byte("cr", 0) /\ l[2 + 3] = Byte("lf", 0)
      BY <2>2, <2>3 DEF Follows
    <3>2. l[1] = digit /\ l[2] = semi /\ Len(l) = 5
      BY <2>1, <2>3 DEF Follows
    <3> QED  BY <3>1, <3>2
  <2>5. SizeLine(bytes, extended) = l /\ Width(extended) = 3
    BY <1>2 DEF SizeLine, l, u, digit, semi, text, Width
  <2> QED  BY <2>3, <2>4, <2>5 DEF SizeIn, digit, semi, text
<1>3. CASE ~extended
  <2>1. SizeLine(bytes, extended) = Line(digit) /\ Width(extended) = 1
    BY <1>3 DEF SizeLine, digit, Width
  <2>2. /\ Line(digit) \in Seq(Octets) /\ Len(Line(digit)) = 3 /\ Line(digit)[1] = digit
        /\ Line(digit)[2] = Byte("cr", 0) /\ Line(digit)[3] = Byte("lf", 0)
    BY <1>1, LineIs
  <2> QED  BY <2>1, <2>2 DEF SizeIn, digit
<1> QED  BY <1>2, <1>3

\* Lines stay what they are further on in a sequence.
LEMMA SizeLater ==
    ASSUME NEW c, NEW e, NEW p \in Nat, NEW n \in Nat, \A j \in 1 .. n : e[p + j] = c[j],
           NEW d \in {1, 3}, NEW size, d + 2 <= n, SizeIn(c, 1, size, d)
    PROVE  SizeIn(e, p + 1, size, d)
<1>1. /\ e[p + 1] = c[1] /\ e[p + 2] = c[2] /\ e[p + 3] = c[3]
      /\ d = 3 => e[p + 4] = c[4] /\ e[p + 5] = c[5]
  OBVIOUS
<1>2. CASE d = 1
  <2>1. c[1] = Byte("digit", size) /\ c[2] = Byte("cr", 0) /\ c[3] = Byte("lf", 0)
    BY <1>2 DEF SizeIn
  <2>2. p + 1 + 1 = p + 2 /\ p + 1 + 1 + 1 = p + 3
    OBVIOUS
  <2> QED  BY <1>1, <1>2, <2>1, <2>2 DEF SizeIn
<1>3. CASE d = 3
  <2>1. c[1] = Byte("digit", size) /\ c[2] = Byte("semicolon", 0) /\ c[3] = Byte("text", 0)
        /\ c[4] = Byte("cr", 0) /\ c[5] = Byte("lf", 0)
    BY <1>3 DEF SizeIn
  <2>2. p + 1 + 1 = p + 2 /\ p + 1 + 2 = p + 3 /\ p + 1 + 3 = p + 4 /\ p + 1 + 3 + 1 = p + 5
    OBVIOUS
  <2> QED  BY <1>1, <1>3, <2>1, <2>2 DEF SizeIn
<1> QED  BY <1>2, <1>3

LEMMA ChunkIs ==
    ASSUME NEW piece \in Seq(Octets), NEW extended \in BOOLEAN, NEW c,
           c = ChunkOf(piece, extended)
    PROVE  /\ c \in Seq(Octets) /\ Len(c) = Width(extended) + 2 + Len(piece) + 2
           /\ SizeIn(c, 1, Len(piece), Width(extended))
           /\ c[Len(c) - 1] = Byte("cr", 0) /\ c[Len(c)] = Byte("lf", 0)
<1> DEFINE l == SizeLine(Len(piece), extended)  u == l \o piece  d == Width(extended)
<1>1. /\ d \in {1, 3} /\ Len(piece) \in Nat /\ l \in Seq(Octets) /\ Len(l) = d + 2
      /\ SizeIn(l, 1, Len(piece), d)
  BY SizeLineIs DEF Width
<1>2. c = u \o CRLF
  BY DEF ChunkOf
<1> HIDE DEF l, d
<1>3. u \in Seq(Octets) /\ Follows(u, l, piece, d + 2, Len(piece))
  BY <1>1, FollowedBy
<1> HIDE DEF u
<1>4. Len(u) = d + 2 + Len(piece) /\ Len(u) \in Nat
  BY <1>1, <1>3 DEF Follows
<1>5. c \in Seq(Octets) /\ Follows(c, u, CRLF, Len(u), 2)
  BY <1>2, <1>3, Patterns, FollowedBy
<1>6. Len(c) = Len(u) + 2 /\ c[Len(u) + 1] = CRLF[1] /\ c[Len(u) + 2] = CRLF[2]
  BY <1>5 DEF Follows
<1>7. c[Len(c) - 1] = Byte("cr", 0) /\ c[Len(c)] = Byte("lf", 0)
  <2>1. Len(c) - 1 = Len(u) + 1
    BY <1>4, <1>6
  <2> QED  BY <1>6, <2>1, Patterns
<1>8. \A j \in 1 .. d + 2 : c[0 + j] = l[j]
  <2>1. \A j \in 1 .. d + 2 : j \in 1 .. Len(u) /\ 0 + j = j
    BY <1>1, <1>4
  <2> QED  BY <1>3, <1>5, <2>1 DEF Follows
<1>9. SizeIn(c, 0 + 1, Len(piece), d)
  <2>1. d + 2 \in Nat /\ d + 2 <= d + 2 /\ 0 \in Nat
    BY <1>1
  <2> QED  BY <1>1, <1>8, <2>1, SizeLater, ZenonT(60)
<1>10. 0 + 1 = 1 /\ Len(c) = d + 2 + Len(piece) + 2
  BY <1>1, <1>4, <1>6
<1> QED  BY <1>5, <1>7, <1>9, <1>10 DEF d

LEMMA LastIs ==
    ASSUME NEW a
    PROVE  LastChunk(a) \in Seq(Octets) /\ Len(LastChunk(a)) \in Nat
           /\ LastIn(LastChunk(a), 1, Len(LastChunk(a)))
<1> DEFINE digit == Byte("digit", 0)  l == Line(digit)
           rest == IF a.extended THEN Line(Byte("header", 0)) \o CRLF ELSE CRLF
           h == Line(Byte("header", 0))
<1>1. digit \in Octets /\ Byte("header", 0) \in Octets
  BY DEF Octets, Kinds, Byte
<1>2. /\ l \in Seq(Octets) /\ Len(l) = 3 /\ l[1] = digit
      /\ l[2] = Byte("cr", 0) /\ l[3] = Byte("lf", 0)
  BY <1>1, LineIs
<1>3. LastChunk(a) = l \o rest
  BY DEF LastChunk
<1> HIDE DEF l
<1>4. CASE a.extended
  <2>1. /\ h \in Seq(Octets) /\ Len(h) = 3 /\ h[1] = Byte("header", 0)
        /\ h[2] = Byte("cr", 0) /\ h[3] = Byte("lf", 0)
    BY <1>1, LineIs
  <2> DEFINE t == h \o CRLF  e == l \o t
  <2>2. LastChunk(a) = e
    BY <1>3, <1>4
  <2> HIDE DEF h, rest
  <2>3. t \in Seq(Octets) /\ Follows(t, h, CRLF, 3, 2)
    BY <2>1, Patterns, FollowedBy
  <2> HIDE DEF t
  <2>4. /\ Len(t) = 5 /\ t[1] = h[1] /\ t[2] = h[2] /\ t[3] = h[3]
        /\ t[4] = CRLF[1] /\ t[5] = CRLF[2]
    <3>1. t[3 + 1] = CRLF[1] /\ t[3 + 2] = CRLF[2]
      BY <2>3 DEF Follows
    <3> QED  BY <2>3, <3>1 DEF Follows
  <2>5. e \in Seq(Octets) /\ Follows(e, l, t, 3, 5)
    BY <1>2, <2>3, <2>4, FollowedBy
  <2> HIDE DEF e
  <2>6. /\ Len(e) = 8 /\ e[1] = l[1] /\ e[2] = l[2] /\ e[3] = l[3]
        /\ e[4] = t[1] /\ e[5] = t[2] /\ e[6] = t[3] /\ e[7] = t[4] /\ e[8] = t[5]
    <3>1. /\ e[3 + 1] = t[1] /\ e[3 + 2] = t[2] /\ e[3 + 3] = t[3]
          /\ e[3 + 4] = t[4] /\ e[3 + 5] = t[5]
      BY <2>5 DEF Follows
    <3> QED  BY <2>5, <3>1 DEF Follows
  <2>7. LastIn(e, 1, 8)
    BY <1>2, <2>1, <2>4, <2>6, Patterns DEF LastIn, SizeIn
  <2> QED  BY <2>2, <2>5, <2>6, <2>7
<1>5. CASE ~a.extended
  <2> DEFINE e == l \o CRLF
  <2>1. LastChunk(a) = e
    BY <1>3, <1>5
  <2> HIDE DEF h, rest
  <2>2. e \in Seq(Octets) /\ Follows(e, l, CRLF, 3, 2)
    BY <1>2, Patterns, FollowedBy
  <2> HIDE DEF e
  <2>3. Len(e) = 5 /\ e[1] = l[1] /\ e[2] = l[2] /\ e[3] = l[3]
        /\ e[4] = CRLF[1] /\ e[5] = CRLF[2]
    <3>1. e[3 + 1] = CRLF[1] /\ e[3 + 2] = CRLF[2]
      BY <2>2 DEF Follows
    <3> QED  BY <2>2, <3>1 DEF Follows
  <2>4. LastIn(e, 1, 5)
    BY <1>2, <2>3, Patterns DEF LastIn, SizeIn
  <2> QED  BY <2>1, <2>2, <2>3, <2>4
<1> QED  BY <1>4, <1>5

LEMMA LastLater ==
    ASSUME NEW c, NEW e, NEW p \in Nat, NEW n \in Nat, \A j \in 1 .. n : e[p + j] = c[j],
           LastIn(c, 1, n)
    PROVE  LastIn(e, p + 1, p + n)
<1>1. n \in {5, 8} /\ SizeIn(c, 1, 0, 1) /\ 1 \in {1, 3} /\ 1 + 2 <= n
  BY DEF LastIn
<1>2. SizeIn(e, p + 1, 0, 1)
  BY <1>1, SizeLater
<1>3. CASE n = 5
  <2>1. c[4] = Byte("cr", 0) /\ c[5] = Byte("lf", 0)
    BY <1>3 DEF LastIn
  <2>2. e[p + 4] = c[4] /\ e[p + 5] = c[5]
    BY <1>3
  <2>3. p + n = p + 1 + 4 /\ p + 4 = p + 1 + 3 /\ p + 5 = p + 1 + 4
    BY <1>3
  <2> QED  BY <1>2, <2>1, <2>2, <2>3 DEF LastIn
<1>4. CASE n = 8
  <2>1. /\ c[4] = Byte("header", 0) /\ c[5] = Byte("cr", 0) /\ c[6] = Byte("lf", 0)
        /\ c[7] = Byte("cr", 0) /\ c[8] = Byte("lf", 0)
    BY <1>4 DEF LastIn
  <2>2. e[p + 4] = c[4] /\ e[p + 5] = c[5] /\ e[p + 6] = c[6] /\ e[p + 7] = c[7] /\ e[p + 8] = c[8]
    BY <1>4
  <2>3. /\ p + n = p + 1 + 7 /\ p + 4 = p + 1 + 3 /\ p + 5 = p + 1 + 4
        /\ p + 6 = p + 1 + 5 /\ p + 7 = p + 1 + 6 /\ p + 8 = p + 1 + 7
    BY <1>4
  <2> QED  BY <1>2, <2>1, <2>2, <2>3 DEF LastIn
<1> QED  BY <1>1, <1>3, <1>4

\* The chunks of an answer begin at p; q counts the bytes in them.
Layout(e, a, p, q) ==
    /\ p \in [0 .. Len(a.pieces) -> Nat \ {0}] /\ q \in [0 .. Len(a.pieces) -> Nat]
    /\ p[0] = 9 /\ q[0] = 0 /\ q[Len(a.pieces)] = Len(BodyOf(a))
    /\ LastIn(e, p[Len(a.pieces)], Len(e))
    /\ \A i \in 1 .. Len(a.pieces) :
        /\ PieceIn(e, p[i - 1], p[i], Len(a.pieces[i]), Width(a.extended))
        /\ q[i] = q[i - 1] + Len(a.pieces[i])

LEMMA PieceLater ==
    ASSUME NEW piece \in Seq(Octets), Len(piece) > 0, NEW extended \in BOOLEAN, NEW e,
           NEW o \in Nat, NEW n,
           n = Len(ChunkOf(piece, extended)),
           \A j \in 1 .. n : e[8 + o + j] = ChunkOf(piece, extended)[j]
    PROVE  PieceIn(e, 9 + o, 9 + (o + n), Len(piece), Width(extended))
<1> DEFINE c == ChunkOf(piece, extended)  d == Width(extended)
<1>1. /\ n = d + 2 + Len(piece) + 2 /\ d \in {1, 3} /\ Len(piece) \in Nat \ {0}
      /\ SizeIn(c, 1, Len(piece), d) /\ c[n - 1] = Byte("cr", 0) /\ c[n] = Byte("lf", 0)
  <2>1. d \in {1, 3} /\ Len(piece) \in Nat \ {0}
    BY DEF Width
  <2> HIDE DEF c, d
  <2>2. /\ Len(c) = d + 2 + Len(piece) + 2 /\ SizeIn(c, 1, Len(piece), d)
        /\ c[Len(c) - 1] = Byte("cr", 0) /\ c[Len(c)] = Byte("lf", 0)
    BY ChunkIs DEF c, d
  <2>3. Len(c) = n
    BY DEF c
  <2> QED  BY <2>1, <2>2, <2>3
<1>2. \A j \in 1 .. n : e[(8 + o) + j] = c[j]
  OBVIOUS
<1> HIDE DEF c, d
<1>3. n \in Nat /\ d + 2 <= n /\ 8 + o \in Nat
  BY <1>1
<1>4. SizeIn(e, 8 + o + 1, Len(piece), d)
  BY <1>1, <1>2, <1>3, SizeLater, ZenonT(60)
<1>5. e[8 + o + (n - 1)] = c[n - 1] /\ e[8 + o + n] = c[n]
  BY <1>1, <1>2
<1>6. /\ 9 + (o + n) - 2 = 8 + o + (n - 1) /\ 9 + (o + n) - 1 = 8 + o + n
      /\ 9 + (o + n) = 9 + o + d + 2 + Len(piece) + 2 /\ 8 + o + 1 = 9 + o
  BY <1>1, <1>3
<1> DEFINE place == 9 + o  next == 9 + (o + n)
<1>7. /\ next = place + d + 2 + Len(piece) + 2 /\ SizeIn(e, place, Len(piece), d)
      /\ e[next - 2] = Byte("cr", 0) /\ e[next - 1] = Byte("lf", 0)
  BY <1>1, <1>4, <1>5, <1>6
<1> HIDE DEF place, next
<1>8. PieceIn(e, place, next, Len(piece), d)
  BY <1>1, <1>7 DEF PieceIn
<1> QED  BY <1>8 DEF place, next, d

LEMMA ChunkedLayout ==
    ASSUME NEW a \in Answer, a.framing = "chunked"
    PROVE  /\ Carried(a) \in Seq(Octets)
           /\ \E p, q : Layout(Encode(a), a, p, q)
<1> DEFINE m == Len(a.pieces)  flat == FlattenSeq(Chunks(a))  last == LastChunk(a)
           r == Carried(a)  e == Encode(a)
<1>1. /\ a.pieces \in Seq(Seq(Octets)) /\ a.extended \in BOOLEAN /\ m \in Nat
      /\ \A i \in 1 .. m : a.pieces[i] \in Seq(Octets) /\ Len(a.pieces[i]) > 0
  <2>1. a.pieces \in Seq(Seq(Octets) \ {<<>>}) /\ a.extended \in BOOLEAN
    BY DEF Answer
  <2>2. \A t \in Seq(Octets) \ {<<>>} : t \in Seq(Octets) /\ Len(t) > 0
    BY EmptySeq
  <2>3. \A i \in 1 .. m : a.pieces[i] \in Seq(Octets) \ {<<>>}
    BY <2>1
  <2> QED  BY <2>1, <2>2, <2>3, BodyIs
<1>2. /\ Chunks(a) \in Seq(Seq(Octets)) /\ Len(Chunks(a)) = m
      /\ \A i \in 1 .. m : Chunks(a)[i] = ChunkOf(a.pieces[i], a.extended)
  <2>1. \A i \in 1 .. m : ChunkOf(a.pieces[i], a.extended) \in Seq(Octets)
    BY <1>1, ChunkIs
  <2>2. Chunks(a) = [i \in 1 .. m |-> ChunkOf(a.pieces[i], a.extended)]
    BY <1>1 DEF Chunks
  <2> QED  BY <1>1, <2>1, <2>2
<1>3. flat \in Seq(Octets) /\ \E o : Placed(o, flat, Chunks(a))
  BY <1>2, FlattenedPlaces
<1>4. PICK o : Placed(o, flat, Chunks(a))
  BY <1>3
<1>5. PICK q : Placed(q, BodyOf(a), a.pieces)
  BY <1>1, FlattenedPlaces DEF BodyOf
<1>6. last \in Seq(Octets) /\ Len(last) \in Nat /\ LastIn(last, 1, Len(last))
  BY LastIs
<1>7. r = flat \o last
  BY DEF Carried
<1> HIDE DEF flat, last, r
<1>8. r \in Seq(Octets) /\ Follows(r, flat, last, Len(flat), Len(last))
  BY <1>3, <1>6, <1>7, FollowedBy
<1>9. /\ Len(e) = 8 + Len(r) /\ \A j \in 1 .. Len(r) : e[8 + j] = r[j]
  BY <1>8, Encoded DEF r
<1> HIDE DEF e, m
<1>10. /\ Len(flat) \in Nat /\ Len(r) = Len(flat) + Len(last)
       /\ \A j \in 1 .. Len(flat) : r[j] = flat[j]
       /\ \A j \in 1 .. Len(last) : r[Len(flat) + j] = last[j]
  BY <1>8 DEF Follows
<1>11. /\ o \in [0 .. m -> Nat] /\ o[0] = 0 /\ o[m] = Len(flat)
       /\ \A i \in 1 .. m : /\ o[i] = o[i - 1] + Len(Chunks(a)[i]) /\ o[i] <= Len(flat)
                           /\ \A j \in 1 .. Len(Chunks(a)[i]) : flat[o[i - 1] + j] = Chunks(a)[i][j]
  BY <1>2, <1>4 DEF Placed
<1> DEFINE p == [i \in 0 .. m |-> 9 + o[i]]
<1>12. \A i \in 0 .. m : p[i] = 9 + o[i] /\ o[i] \in Nat
  BY <1>11
<1>13. p \in [0 .. m -> Nat \ {0}]
  BY <1>11
<1> HIDE DEF p
<1>14. ASSUME NEW i \in 1 .. m
       PROVE  PieceIn(e, p[i - 1], p[i], Len(a.pieces[i]), Width(a.extended))
  <2> DEFINE c == Chunks(a)[i]  n == Len(c)  b == o[i - 1]
  <2>1. i - 1 \in 0 .. m /\ i \in 0 .. m
    BY <1>1 DEF m
  <2>2. /\ b \in Nat /\ o[i] = b + n /\ b + n <= Len(flat) /\ p[i - 1] = 9 + b
        /\ p[i] = 9 + (b + n) /\ \A j \in 1 .. n : flat[b + j] = c[j]
    BY <1>11, <1>12, <2>1
  <2>3. c = ChunkOf(a.pieces[i], a.extended)
    BY <1>2
  <2>4. n \in Nat
    BY <1>1, <1>2
  <2> HIDE DEF b, c, n
  <2>5. ASSUME NEW j \in 1 .. n PROVE e[8 + b + j] = c[j]
    <3>1. b + j \in 1 .. Len(flat)
      BY <1>10, <2>2, <2>4, Inside
    <3>2. b + j \in 1 .. Len(r)
      BY <1>6, <1>10, <3>1
    <3>3. e[8 + (b + j)] = r[b + j] /\ r[b + j] = flat[b + j] /\ flat[b + j] = c[j]
      BY <1>9, <1>10, <2>2, <3>1, <3>2
    <3>4. 8 + (b + j) = 8 + b + j
      BY <2>2, <2>4
    <3> QED  BY <3>3, <3>4
  <2>6. n = Len(ChunkOf(a.pieces[i], a.extended))
    BY <2>3 DEF n
  <2>7. \A j \in 1 .. n : e[8 + b + j] = ChunkOf(a.pieces[i], a.extended)[j]
    BY <2>3, <2>5
  <2>8. PieceIn(e, 9 + b, 9 + (b + n), Len(a.pieces[i]), Width(a.extended))
    BY <1>1, <2>2, <2>6, <2>7, PieceLater
  <2> QED  BY <2>2, <2>8
<1>15. LastIn(e, p[m], Len(e))
  <2> DEFINE b == 8 + Len(flat)  n == Len(last)
  <2>1. b \in Nat /\ n \in Nat
    BY <1>6, <1>10
  <2>2. ASSUME NEW j \in 1 .. n PROVE e[b + j] = last[j]
    <3>1. Len(flat) + j \in 1 .. Len(r) /\ 8 + (Len(flat) + j) = b + j
      BY <1>6, <1>10
    <3> QED  BY <1>9, <1>10, <3>1
  <2>3. b + 1 = p[m] /\ b + n = Len(e)
    <3>1. m \in 0 .. m
      BY <1>1 DEF m
    <3> QED  BY <1>6, <1>9, <1>10, <1>11, <1>12, <3>1
  <2>4. LastIn(last, 1, n)
    BY <1>6
  <2> HIDE DEF b, n
  <2>5. LastIn(e, b + 1, b + n)
    BY <2>1, <2>2, <2>4, LastLater
  <2> QED  BY <2>3, <2>5
<1>16. /\ q \in [0 .. m -> Nat] /\ q[0] = 0 /\ q[m] = Len(BodyOf(a))
       /\ \A i \in 1 .. m : q[i] = q[i - 1] + Len(a.pieces[i])
  BY <1>5 DEF Placed, m
<1>17. p[0] = 9
  <2>1. 0 \in 0 .. m
    BY <1>1 DEF m
  <2> QED  BY <1>11, <1>12, <2>1
<1>18. Layout(e, a, p, q)
  BY <1>13, <1>14, <1>15, <1>16, <1>17 DEF Layout, m
<1> QED  BY <1>8, <1>18 DEF e, r

LEMMA CountedIs ==
    ASSUME NEW state, NEW status, NEW b, NEW bytes
    PROVE  Counted(Parsed(state, status, b), bytes)
                = Parsed(state, status, IF state = "complete" THEN b + bytes ELSE b)
BY DEF Counted, Parsed

\* What the first n bytes of a chunked answer are taken for: the chunks are
\* walked from the last to the first.
LEMMA ChunkedParsed ==
    ASSUME NEW a \in Answer, a.framing = "chunked", NEW s \in Seq(Octets),
           NEW n \in 8 .. Len(Encode(a)), Prefix(s, Encode(a), n),
           NEW end_of_stream, NEW status \in Nat
    PROVE  parse_chunked_body(s, 9, end_of_stream, status) =
                IF n = Len(Encode(a)) THEN Parsed("complete", status, Len(BodyOf(a)))
                ELSE Parsed(Unfinished(end_of_stream), status, 0)
<1> DEFINE m == Len(a.pieces)  e == Encode(a)  d == Width(a.extended)
           unfinished == Parsed(Unfinished(end_of_stream), status, 0)
<1>1. PICK p, q : Layout(e, a, p, q)
  BY ChunkedLayout
<1>2. PICK c : /\ parse_chunked_body(s, 9, end_of_stream, status) = c[9]
               /\ ChunksOf(c, s, end_of_stream, status)
  BY ChunksFound
<1>3. n \in Nat /\ Len(s) = n /\ m \in Nat /\ d \in {1, 3} /\ n <= Len(e) /\ 9 <= n + 1
  <2>1. m \in Nat
    BY DEF Answer
  <2>2. Encode(a) \in Seq(Octets)
    BY ChunkedLayout, Encoded
  <2> QED  BY <2>1, <2>2 DEF Prefix, Width
<1> HIDE DEF m, e, d
<1>4. /\ p \in [0 .. m -> Nat \ {0}] /\ q \in [0 .. m -> Nat]
      /\ p[0] = 9 /\ q[0] = 0 /\ q[m] = Len(BodyOf(a)) /\ LastIn(e, p[m], Len(e))
      /\ \A i \in 1 .. m : PieceIn(e, p[i - 1], p[i], Len(a.pieces[i]), d)
                          /\ q[i] = q[i - 1] + Len(a.pieces[i])
  BY <1>1 DEF Layout, m, d
<1> DEFINE Read(i) ==
                /\ p[i] <= Len(e) /\ q[i] <= q[m]
                /\ p[i] <= n + 1 => c[p[i]] = IF n = Len(e)
                                              THEN Parsed("complete", status, q[m] - q[i])
                                              ELSE unfinished
           Done == {k \in 0 .. m : Read(m - k)}
<1>5. Prefix(s, e, n)
  BY DEF e
<1>6. Read(m)
  <2>1. m \in 0 .. m /\ p[m] \in Nat \ {0} /\ q[m] \in Nat
    BY <1>3, <1>4
  <2>2. p[m] <= Len(e)
    BY <1>4, <2>1, SMTT(60) DEF LastIn
  <2>3. ASSUME p[m] <= n + 1
        PROVE  c[p[m]] = IF n = Len(e) THEN Parsed("complete", status, 0) ELSE unfinished
    <3>1. /\ ~WholeChunk(s, p[m])
          /\ LastOfChunks(s, p[m], end_of_stream, status) =
                Parsed(IF n = Len(e) THEN "complete" ELSE Unfinished(end_of_stream), status, 0)
      <4> DEFINE i == p[m]  end == Len(e)
      <4>1. i \in Nat \ {0} /\ LastIn(e, i, end) /\ i <= n + 1 /\ n <= end
        BY <1>3, <1>4, <2>1, <2>3
      <4> HIDE DEF i, end
      <4>2. /\ ~WholeChunk(s, i)
            /\ LastOfChunks(s, i, end_of_stream, status) =
                Parsed(IF n = end THEN "complete" ELSE Unfinished(end_of_stream), status, 0)
        BY <1>3, <1>5, <4>1, LastRead
      <4> QED  BY <4>2 DEF i, end
    <3>2. c[p[m]] = LastOfChunks(s, p[m], end_of_stream, status)
      <4>1. p[m] \in 1 .. Len(s) + 1
        BY <1>3, <2>1, <2>3
      <4> QED  BY <1>2, <3>1, <4>1 DEF ChunksOf
    <3> QED  BY <3>1, <3>2
  <2>4. q[m] - q[m] = 0
    BY <2>1
  <2> QED  BY <2>1, <2>2, <2>3, <2>4
<1>7. ASSUME NEW i \in 1 .. m, Read(i) PROVE Read(i - 1)
  <2> DEFINE here == p[i - 1]  next == p[i]  size == Len(a.pieces[i])
  <2>1. i - 1 \in 0 .. m /\ i \in 0 .. m /\ m \in 0 .. m
    BY <1>3
  <2>2. here \in Nat \ {0} /\ next \in Nat \ {0} /\ q[i - 1] \in Nat /\ q[i] \in Nat /\ q[m] \in Nat
    BY <1>4, <2>1
  <2>3. PieceIn(e, here, next, size, d) /\ q[i] = q[i - 1] + size
    BY <1>4
  <2>4. size \in Nat \ {0} /\ next = here + d + 2 + size + 2
        /\ SizeIn(e, here, size, d) /\ e[next - 2] = Byte("cr", 0) /\ e[next - 1] = Byte("lf", 0)
    BY <2>3 DEF PieceIn
  <2>5. here <= Len(e) /\ q[i - 1] <= q[m] /\ next <= Len(e)
    <3>1. next <= Len(e) /\ q[i] <= q[m] /\ Len(e) \in Nat
      <4>1. e \in Seq(Octets)
        BY ChunkedLayout, Encoded DEF e
      <4> QED  BY <1>7, <4>1
    <3> HIDE DEF here, next, size, Read, Done
    <3>2. here <= next
      BY <1>3, <2>2, <2>4
    <3>3. here <= Len(e)
      BY <2>2, <3>1, <3>2
    <3>4. q[i - 1] <= q[i]
      BY <2>2, <2>3, <2>4
    <3>5. q[i - 1] <= q[m]
      BY <2>2, <3>1, <3>4
    <3> QED  BY <3>1, <3>3, <3>5
  <2>6. ASSUME here <= n + 1
        PROVE  c[here] = IF n = Len(e) THEN Parsed("complete", status, q[m] - q[i - 1])
                         ELSE unfinished
    <3>0. Read(i)
      BY <1>7
    <3>1. /\ next <= n + 1 => WholeChunk(s, here) /\ NextChunk(s, here) = next
                              /\ Size(s, here) = size
          /\ next > n + 1 => /\ ~WholeChunk(s, here)
                             /\ LastOfChunks(s, here, end_of_stream, status) = unfinished
      <4> HIDE DEF here, next, size, Read
      <4>1. /\ n \in Nat /\ Prefix(s, e, n) /\ here \in Nat \ {0} /\ d \in {1, 3}
            /\ PieceIn(e, here, next, size, d) /\ here <= n + 1
        BY <1>3, <1>5, <2>2, <2>3, <2>6
      <4>2. Awaited(s, here, next, size, n, end_of_stream, status)
        BY <4>1, ChunkRead
      <4> QED  BY <4>2 DEF Awaited
    <3>2. here \in 1 .. Len(s) + 1
      BY <1>3, <2>2, <2>6
    <3>3. c[here] = IF WholeChunk(s, here) THEN Counted(c[NextChunk(s, here)], Size(s, here))
                    ELSE LastOfChunks(s, here, end_of_stream, status)
      <4> HIDE DEF here
      <4> QED  BY <1>2, <3>2 DEF ChunksOf
    <3>4. CASE next > n + 1
      <4>1. n # Len(e)
        BY <1>3, <2>2, <2>5, <3>4
      <4> QED  BY <3>1, <3>3, <3>4, <4>1, Zenon
    <3>5. CASE next <= n + 1
      <4>1. c[next] = IF n = Len(e) THEN Parsed("complete", status, q[m] - q[i]) ELSE unfinished
        BY <3>0, <3>5
      <4>2. c[here] = Counted(c[next], size)
        BY <3>1, <3>3, <3>5, Zenon
      <4>3. CASE n = Len(e)
        <5>1. c[here] = Parsed("complete", status, (q[m] - q[i]) + size)
          BY <4>1, <4>2, <4>3, CountedIs
        <5>2. (q[m] - q[i]) + size = q[m] - q[i - 1]
          <6> DEFINE x == q[m]  y == q[i]  z == q[i - 1]
          <6>1. x \in Nat /\ y \in Nat /\ z \in Nat /\ y = z + size /\ size \in Nat
            BY <2>2, <2>3, <2>4
          <6> HIDE DEF x, y, z, size
          <6>2. (x - y) + size = x - z
            BY <6>1
          <6> QED  BY <6>2 DEF x, y, z
        <5> QED  BY <4>3, <5>1, <5>2
      <4>4. CASE n # Len(e)
        <5>1. Unfinished(end_of_stream) # "complete"
          BY DEF Unfinished
        <5>2. c[here] = Counted(unfinished, size)
          BY <4>1, <4>2, <4>4
        <5> QED  BY <4>4, <5>1, <5>2, CountedIs
      <4> QED  BY <4>3, <4>4
    <3>6. next <= n + 1 \/ next > n + 1
      BY <1>3, <2>2
    <3> QED  BY <3>4, <3>5, <3>6
  <2> QED  BY <2>5, <2>6
<1> HIDE DEF Read
<1>8. m \in Done
  <2>1. 0 \in Done
    <3>1. m - 0 = m /\ 0 \in 0 .. m
      BY <1>3
    <3> QED  BY <1>6, <3>1
  <2>2. ASSUME NEW k \in 1 .. m, k - 1 \in Done PROVE k \in Done
    <3>1. Read(m - (k - 1)) /\ m - (k - 1) \in 1 .. m /\ k \in 0 .. m
          /\ (m - (k - 1)) - 1 = m - k
      BY <1>3, <2>2
    <3> QED  BY <1>7, <3>1
  <2> HIDE DEF Done
  <2> QED  BY <1>3, <2>1, <2>2, UpTo
<1>9. Read(0)
  <2>1. Read(m - m) /\ m - m = 0
    BY <1>3, <1>8
  <2> QED  BY <2>1
<1>10. c[9] = IF n = Len(e) THEN Parsed("complete", status, Len(BodyOf(a))) ELSE unfinished
  <2>1. m \in 0 .. m
    BY <1>3
  <2>2. q[m] - q[0] = q[m]
    BY <1>4, <2>1
  <2> QED  BY <1>3, <1>4, <1>9, <2>2 DEF Read
<1> QED  BY <1>2, <1>10 DEF e

-----------------------------------------------------------------------------
(***************************************************************************)
(* What the parser makes of the first bytes of an answer.                  *)
(***************************************************************************)

\* The empty line after the header is found when it has come in.
LEMMA BlankFound ==
    ASSUME NEW s \in Seq(Octets), NEW e, NEW n \in Nat, Prefix(s, e, n),
           NEW t \in Octets, NEW h \in Octets, Headed(e, t, h),
           Kind(t) # "cr", Kind(h) # "cr"
    PROVE  FirstAt(s, CRLF \o CRLF, 1) = IF n < 8 THEN 0 ELSE 5
<1> DEFINE blank == CRLF \o CRLF  cr == Byte("cr", 0)
<1>1. Len(s) = n /\ \A j \in 1 .. n : s[j] = e[j]
  BY DEF Prefix
<1>2. blank \in Seq(Octets) /\ Len(blank) = 4
  BY Patterns
<1>3. t # cr /\ h # cr /\ Byte("lf", 0) # cr
  BY DEF Byte, Kind
<1>4. /\ e[1] = t /\ e[2] = cr /\ e[3] = Byte("lf", 0)
      /\ e[4] = h /\ e[5] = cr /\ e[6] = Byte("lf", 0)
      /\ e[7] = cr /\ e[8] = Byte("lf", 0)
  BY DEF Headed
<1> HIDE DEF blank
<1>5. ASSUME NEW k \in 1 .. 4, k + 3 <= n PROVE ~Matches(s, k, blank)
  <2>1. k = 1 \/ k = 2 \/ k = 3 \/ k = 4
    OBVIOUS
  <2>2. s[1] # cr /\ s[3] # cr /\ (n >= 4 => s[4] # cr)
    BY <1>1, <1>3, <1>4, <1>5
  <2>3. Matches(s, k, blank) => s[k] = cr /\ s[k + 2] = cr
    BY BlankMatches DEF blank
  <2> QED  BY <1>5, <2>1, <2>2, <2>3
<1>6. CASE n < 8
  <2>1. \A k \in 1 .. Len(s) - Len(blank) + 1 : ~Matches(s, k, blank)
    <3>1. \A k \in 1 .. Len(s) - Len(blank) + 1 : k \in 1 .. 4 /\ k + 3 <= n
      BY <1>1, <1>2, <1>6
    <3> QED  BY <1>5, <3>1
  <2>2. 1 \in Nat \ {0} /\ blank \in Seq(Octets)
    BY <1>2
  <2>3. FirstAt(s, blank, 1) = 0
    BY <2>1, <2>2, FirstAtNone
  <2> QED  BY <1>6, <2>3 DEF blank
<1>7. CASE ~(n < 8)
  <2>1. s[5] = cr /\ s[6] = Byte("lf", 0) /\ s[7] = cr /\ s[8] = Byte("lf", 0)
    BY <1>1, <1>4, <1>7
  <2>2. Matches(s, 5, blank)
    <3>1. 5 + 1 = 6 /\ 5 + 2 = 7 /\ 5 + 3 = 8
      OBVIOUS
    <3> QED  BY <2>1, <3>1, BlankMatches DEF blank
  <2>3. \A k \in 1 .. 5 - 1 : ~Matches(s, k, blank)
    <3>1. \A k \in 1 .. 5 - 1 : k \in 1 .. 4 /\ k + 3 <= n
      BY <1>7
    <3> QED  BY <1>5, <3>1
  <2>4. 5 \in Nat /\ 1 <= 5 /\ 5 + Len(blank) <= Len(s) + 1 /\ 1 \in Nat \ {0}
    BY <1>1, <1>2, <1>7
  <2>5. FirstAt(s, blank, 1) = 5
    BY <1>2, <2>2, <2>3, <2>4, FirstAtFound
  <2> QED  BY <1>7, <2>5 DEF blank
<1> QED  BY <1>6, <1>7

\* The header lines.
LEMMA FieldsAre ==
    ASSUME NEW s \in Seq(Octets), NEW e, NEW n \in Nat, Prefix(s, e, n), n >= 8,
           NEW t \in Octets, NEW h \in Octets, Headed(e, t, h),
           NEW fields, fields = SubSeq(s, 2, 8)
    PROVE  /\ s[1] = t /\ DOMAIN fields = 1 .. 7 /\ fields[3] = h
           /\ \A i \in 1 .. 7 : i # 3 => Kind(fields[i]) \in {"cr", "lf"}
<1>1. Len(s) = n /\ \A j \in 1 .. n : s[j] = e[j]
  BY DEF Prefix
<1>2. /\ s[1] = t /\ s[2] = Byte("cr", 0) /\ s[3] = Byte("lf", 0)
      /\ s[4] = h /\ s[5] = Byte("cr", 0) /\ s[6] = Byte("lf", 0)
      /\ s[7] = Byte("cr", 0) /\ s[8] = Byte("lf", 0)
  BY <1>1 DEF Headed
<1>3. \A j \in 2 .. 8 : s[j] \in Octets
  BY <1>1
<1>4. /\ SubSeq(s, 2, 8) \in Seq(Octets)
      /\ Len(SubSeq(s, 2, 8)) = IF 2 <= 8 THEN 8 - 2 + 1 ELSE 0
      /\ \A i \in 1 .. 8 - 2 + 1 : SubSeq(s, 2, 8)[i] = s[2 + i - 1]
  BY <1>3, SubSeqProperties
<1>5. fields \in Seq(Octets) /\ Len(fields) = 7 /\ \A i \in 1 .. 7 : fields[i] = s[2 + i - 1]
  BY <1>4
<1>6. /\ fields[1] = s[2] /\ fields[2] = s[3] /\ fields[3] = s[4] /\ fields[4] = s[5]
      /\ fields[5] = s[6] /\ fields[6] = s[7] /\ fields[7] = s[8]
  BY <1>5
<1>7. \A i \in 1 .. 7 : i = 1 \/ i = 2 \/ i = 3 \/ i = 4 \/ i = 5 \/ i = 6 \/ i = 7
  OBVIOUS
<1>8. Kind(Byte("cr", 0)) = "cr" /\ Kind(Byte("lf", 0)) = "lf"
  BY DEF Kind, Byte
<1>9. DOMAIN fields = 1 .. 7
  BY <1>5
<1> QED  BY <1>2, <1>6, <1>7, <1>8, <1>9

\* What an answer may be taken for, of which the first n bytes have come in: it
\* is complete when all of it has, or when the stream has ended and nothing
\* else tells its length.
AsSent(a, n, end_of_stream, r) ==
    /\ r.state \in States /\ r.status_code \in {0, a.status}
    /\ r.state = "complete" =>
        /\ r.status_code = a.status
        /\ \/ /\ a.framing \in {"length", "chunked"} /\ n = Len(Encode(a))
              /\ r.body_bytes = Len(BodyOf(a))
           \/ a.framing = "close" /\ end_of_stream
    /\ r.state = "invalid" => a.framing = "malformed" \/ end_of_stream
    /\ r.state = "incomplete" =>
        /\ ~end_of_stream
        /\ a # NoAnswer /\ n = Len(Encode(a)) => a.framing = "close"

LEMMA CarriedTypes ==
    ASSUME NEW a \in Answer
    PROVE  Carried(a) \in Seq(Octets)
<1>1. a.framing \in Framing
  BY DEF Answer
<1>2. a.framing = "chunked" => Carried(a) \in Seq(Octets)
  BY ChunkedLayout
<1>3. a.framing \in {"length", "close"} => Carried(a) = BodyOf(a)
  BY DEF Carried
<1>4. a.framing = "malformed" => Carried(a) = <<>>
  BY DEF Carried
<1>5. BodyOf(a) \in Seq(Octets) /\ <<>> \in Seq(Octets)
  BY BodyIs
<1> HIDE DEF Framing
<1>6. CASE a.framing \in {"length", "close"}
  BY <1>3, <1>5, <1>6
<1>7. CASE a.framing = "malformed"
  BY <1>4, <1>5, <1>7
<1> QED  BY <1>1, <1>2, <1>6, <1>7 DEF Framing

LEMMA HeadTypes ==
    ASSUME NEW a \in Answer
    PROVE  /\ Byte("status", a.status) \in Octets /\ HeaderOf(a) \in Octets
           /\ Kind(HeaderOf(a)) = CASE a.framing = "length" -> "length"
                                    [] a.framing = "chunked" -> "chunked"
                                    [] a.framing = "close" -> "header"
                                    [] a.framing = "malformed" -> "text"
           /\ a.framing = "length" => Value(HeaderOf(a)) = Len(BodyOf(a))
<1>1. a.framing \in Framing /\ a.status \in Nat
  BY DEF Answer
<1>2. Len(BodyOf(a)) \in Nat
  BY BodyIs
<1>3. \A k \in Kinds, v \in Nat : Byte(k, v) \in Octets /\ Kind(Byte(k, v)) = k /\ Value(Byte(k, v)) = v
  BY DEF Byte, Octets, Kind, Value
<1>4. "status" \in Kinds /\ "length" \in Kinds /\ "chunked" \in Kinds /\ "header" \in Kinds /\ "text" \in Kinds
  BY DEF Kinds
<1> QED  BY <1>1, <1>2, <1>3, <1>4 DEF HeaderOf, Framing

LEMMA ParsedIs ==
    ASSUME NEW state, NEW status, NEW bytes
    PROVE  /\ Parsed(state, status, bytes).state = state
           /\ Parsed(state, status, bytes).status_code = status
           /\ Parsed(state, status, bytes).body_bytes = bytes
BY DEF Parsed

\* The header of an answer of which more has come in than that.
LEMMA HeaderParsed ==
    ASSUME NEW a \in Answer, NEW n \in 8 .. Len(Encode(a)), NEW end_of_stream \in BOOLEAN,
           NEW s \in Seq(Octets), Prefix(s, Encode(a), n)
    PROVE  parse_discover_response(s, end_of_stream) =
             CASE a.framing = "malformed" -> Parsed("invalid", a.status, 0)
               [] a.framing = "length" ->
                    IF n - 8 < Len(BodyOf(a)) THEN Parsed(Unfinished(end_of_stream), a.status, 0)
                    ELSE Parsed("complete", a.status, Len(BodyOf(a)))
               [] a.framing = "chunked" -> parse_chunked_body(s, 9, end_of_stream, a.status)
               [] a.framing = "close" ->
                    IF ~end_of_stream THEN Parsed("incomplete", a.status, 0)
                    ELSE Parsed("complete", a.status, n - 8)
<1> DEFINE e == Encode(a)  t == Byte("status", a.status)  h == HeaderOf(a)
           fields == SubSeq(s, 2, 8)
           lengths == {i \in DOMAIN fields : Kind(fields[i]) = "length"}
<1>1. /\ t \in Octets /\ h \in Octets /\ Headed(e, t, h) /\ n \in Nat /\ n >= 8
      /\ Kind(t) = "status" /\ Value(t) = a.status
  BY CarriedTypes, HeadTypes, Encoded DEF Byte, Kind, Value
<1>2. a.framing \in Framing
  BY DEF Answer
<1>3. Kind(h) # "cr"
  BY <1>2, HeadTypes DEF Framing
<1>4. FirstAt(s, CRLF \o CRLF, 1) = 5
  BY <1>1, <1>3, BlankFound
<1>5. /\ s[1] = t /\ DOMAIN fields = 1 .. 7 /\ fields[3] = h
      /\ \A i \in 1 .. 7 : i # 3 => Kind(fields[i]) \in {"cr", "lf"}
  BY <1>1, FieldsAre, ZenonT(60)
<1>6. Len(s) = n
  BY DEF Prefix
<1> HIDE DEF e, t, h, fields
<1>7. \A k : k \notin {"cr", "lf"} =>
        {i \in DOMAIN fields : Kind(fields[i]) = k} = IF Kind(h) = k THEN {3} ELSE {}
  BY <1>5
<1>8. /\ (\E i \in DOMAIN fields : Kind(fields[i]) = "text") <=> Kind(h) = "text"
      /\ (\E i \in DOMAIN fields : Kind(fields[i]) = "chunked") <=> Kind(h) = "chunked"
      /\ lengths = IF Kind(h) = "length" THEN {3} ELSE {}
  <2>1. \A k : (\E i \in DOMAIN fields : Kind(fields[i]) = k) <=>
                {i \in DOMAIN fields : Kind(fields[i]) = k} # {}
    OBVIOUS
  <2> QED  BY <1>7, <2>1
<1>9. Max({3}) = 3
  BY DEF Max
<1> HIDE DEF lengths
<1>10. parse_discover_response(s, end_of_stream) =
         IF Kind(h) = "text" THEN Parsed("invalid", a.status, 0)
         ELSE IF lengths # {}
         THEN IF n - 8 < Value(fields[Max(lengths)])
              THEN Parsed(Unfinished(end_of_stream), a.status, 0)
              ELSE Parsed("complete", a.status, Value(fields[Max(lengths)]))
         ELSE IF Kind(h) = "chunked" THEN parse_chunked_body(s, 9, end_of_stream, a.status)
         ELSE IF ~end_of_stream THEN Parsed("incomplete", a.status, 0)
         ELSE Parsed("complete", a.status, n - 8)
  <2>1. 5 + 3 = 8 /\ 8 + 1 = 9 /\ 5 # 0
    OBVIOUS
  <2> QED  BY <1>1, <1>4, <1>5, <1>6, <1>8, <2>1, ZenonT(60) DEF parse_discover_response, lengths, fields
<1>11. a.framing = "length" => Value(h) = Len(BodyOf(a))
  BY HeadTypes DEF h
<1>12. Kind(h) = CASE a.framing = "length" -> "length"
                    [] a.framing = "chunked" -> "chunked"
                    [] a.framing = "close" -> "header"
                    [] a.framing = "malformed" -> "text"
  BY HeadTypes DEF h
<1>13. CASE a.framing = "length"
  <2>1. Kind(h) = "length" /\ lengths = {3} /\ Value(fields[Max(lengths)]) = Len(BodyOf(a))
    BY <1>5, <1>8, <1>9, <1>11, <1>12, <1>13
  <2> QED  BY <1>10, <1>13, <2>1
<1>14. CASE a.framing # "length"
  <2>1. lengths = {}
    BY <1>2, <1>8, <1>12, <1>14 DEF Framing
  <2> QED  BY <1>2, <1>10, <1>12, <1>14, <2>1 DEF Framing
<1> QED  BY <1>13, <1>14

LEMMA AnswerParsed ==
    ASSUME NEW a \in Answer, NEW n \in 0 .. Len(Encode(a)), NEW end_of_stream \in BOOLEAN,
           NEW s, s = SubSeq(Encode(a), 1, n)
    PROVE  AsSent(a, n, end_of_stream, parse_discover_response(s, end_of_stream))
<1> DEFINE e == Encode(a)  r == parse_discover_response(s, end_of_stream)
<1>1. Carried(a) \in Seq(Octets)
  BY CarriedTypes
<1>2. /\ e \in Seq(Octets) /\ Len(e) = 8 + Len(Carried(a)) /\ Len(Carried(a)) \in Nat
      /\ Headed(e, Byte("status", a.status), HeaderOf(a))
  BY <1>1, Encoded
<1>3. a.framing \in Framing
  BY DEF Answer
<1> HIDE DEF e
<1>4. s \in Seq(Octets) /\ Prefix(s, e, n) /\ n \in Nat
  <2>1. n \in Nat /\ \A j \in 1 .. n : e[j] \in Octets
    BY <1>2 DEF e
  <2>2. /\ SubSeq(e, 1, n) \in Seq(Octets)
        /\ Len(SubSeq(e, 1, n)) = IF 1 <= n THEN n - 1 + 1 ELSE 0
        /\ \A i \in 1 .. n - 1 + 1 : SubSeq(e, 1, n)[i] = e[1 + i - 1]
    BY <2>1, SubSeqProperties
  <2>3. n - 1 + 1 = n /\ \A i \in 1 .. n : 1 + i - 1 = i
    BY <2>1
  <2>4. s = SubSeq(e, 1, n)
    BY DEF e
  <2>5. Len(s) = n /\ s \in Seq(Octets) /\ \A i \in 1 .. n : s[i] = e[i]
    BY <2>1, <2>2, <2>3, <2>4
  <2> QED  BY <2>1, <2>5 DEF Prefix
<1>5. CASE n < 8
  <2>1. Kind(Byte("status", a.status)) # "cr" /\ Kind(HeaderOf(a)) # "cr"
    BY <1>3, HeadTypes DEF Byte, Kind, Framing
  <2>2. FirstAt(s, CRLF \o CRLF, 1) = 0
    BY <1>2, <1>4, <1>5, <2>1, BlankFound, HeadTypes DEF e
  <2>3. r = Parsed(Unfinished(end_of_stream), 0, 0)
    BY <2>2 DEF parse_discover_response
  <2>4. n # Len(Encode(a))
    BY <1>2, <1>5 DEF e
  <2> QED  BY <2>3, <2>4, ParsedIs DEF AsSent, Unfinished, States
<1>6. CASE ~(n < 8)
  <2>1. n \in 8 .. Len(Encode(a)) /\ Prefix(s, Encode(a), n)
    BY <1>2, <1>4, <1>6 DEF e
  <2> HIDE DEF r
  <2>2. CASE a.framing = "malformed"
    <3>1. r = Parsed("invalid", a.status, 0)
      BY <1>4, <2>1, <2>2, HeaderParsed DEF r
    <3> QED  BY <2>2, <3>1, ParsedIs DEF AsSent, States, r
  <2>3. CASE a.framing = "length"
    <3>1. r = IF n - 8 < Len(BodyOf(a)) THEN Parsed(Unfinished(end_of_stream), a.status, 0)
              ELSE Parsed("complete", a.status, Len(BodyOf(a)))
      BY <1>4, <2>1, <2>3, HeaderParsed DEF r
    <3>2. Carried(a) = BodyOf(a)
      BY <2>3 DEF Carried
    <3>3. n - 8 < Len(BodyOf(a)) <=> n # Len(Encode(a))
      BY <1>2, <2>1, <3>2 DEF e
    <3> QED  BY <2>3, <3>1, <3>3, ParsedIs DEF AsSent, States, r, Unfinished
  <2>4. CASE a.framing = "chunked"
    <3>1. r = parse_chunked_body(s, 9, end_of_stream, a.status)
      BY <1>4, <2>1, <2>4, HeaderParsed, ZenonT(60) DEF r
    <3>2. a.status \in Nat
      BY DEF Answer
    <3>3. r = IF n = Len(Encode(a)) THEN Parsed("complete", a.status, Len(BodyOf(a)))
              ELSE Parsed(Unfinished(end_of_stream), a.status, 0)
      BY <1>4, <2>1, <2>4, <3>1, <3>2, ChunkedParsed, ZenonT(60)
    <3> QED  BY <2>4, <3>3, ParsedIs DEF AsSent, States, r, Unfinished
  <2>5. CASE a.framing = "close"
    <3>1. r = IF ~end_of_stream THEN Parsed("incomplete", a.status, 0)
              ELSE Parsed("complete", a.status, n - 8)
      <4>1. a.framing # "malformed" /\ a.framing # "length" /\ a.framing # "chunked"
        BY <2>5
      <4> QED  BY <1>4, <2>1, <2>5, <4>1, HeaderParsed DEF r
    <3> QED  BY <2>5, <3>1, ParsedIs DEF AsSent, States, r
  <2> QED  BY <1>3, <2>2, <2>3, <2>4, <2>5 DEF Framing
<1> QED  BY <1>4, <1>5, <1>6

\* Of a receiver that has not answered nothing can be understood.
LEMMA NothingParsed ==
    ASSUME NEW n \in 0 .. Len(Encode(NoAnswer)), NEW end_of_stream \in BOOLEAN,
           NEW s, s = SubSeq(Encode(NoAnswer), 1, n)
    PROVE  /\ n = 0 /\ Len(Encode(NoAnswer)) = 0
           /\ parse_discover_response(s, end_of_stream) = Parsed(Unfinished(end_of_stream), 0, 0)
<1>1. Encode(NoAnswer) = <<>>
  BY DEF Encode
<1>2. n = 0 /\ s = <<>>
  BY <1>1
<1>3. s \in Seq(Octets) /\ Len(s) = 0
  BY <1>2
<1>4. FirstAt(s, CRLF \o CRLF, 1) = 0
  <2>1. \A k \in 1 .. Len(s) - Len(CRLF \o CRLF) + 1 : ~Matches(s, k, CRLF \o CRLF)
    BY <1>3, Patterns
  <2>2. 1 \in Nat \ {0} /\ CRLF \o CRLF \in Seq(Octets)
    BY Patterns
  <2> QED  BY <1>3, <2>1, <2>2, FirstAtNone
<1> QED  BY <1>1, <1>2, <1>4 DEF parse_discover_response

-----------------------------------------------------------------------------
(***************************************************************************)
(* What the task makes of an answer.                                       *)
(***************************************************************************)

\* The inductive invariant: an answer is there only while it is read and
\* afterwards; what has been read of it is not complete yet, unless only the
\* end of the stream can tell; and an Upload answered with 200 to its end is
\* accepted.
Heard ==
    /\ answer \in Answers \cup {NoAnswer}
    /\ phase \notin {"reading", "done"} => answer = NoAnswer /\ got = 0
    /\ phase = "reading" => got \in 0 .. Len(Stream[answer])
    /\ phase \in {"idle", "handshake", "question"} => request # "upload"
    /\ phase = "done" /\ request = "upload" /\ SelfDelimited /\ AllRead /\ answer.status = 200 =>
            upload_accepted
    /\ AnswerAsSent

LEMMA StreamIs ==
    ASSUME NEW a \in Answers \cup {NoAnswer}
    PROVE  Stream[a] = Encode(a)
BY DEF Stream

LEMMA NotSelfDelimited ==
    answer = NoAnswer => ~SelfDelimited
BY DEF NoAnswer, SelfDelimited

\* What has been read of an answer is taken for what was sent.
LEMMA ReceivedAsSent ==
    ASSUME answer \in Answers \cup {NoAnswer}, NEW n \in 0 .. Len(Stream[answer]),
           NEW end_of_stream \in BOOLEAN
    PROVE  AsSent(answer, n, end_of_stream, parse_discover_response(Received(n), end_of_stream))
<1>1. Stream[answer] = Encode(answer)
  BY StreamIs
<1>2. n \in 0 .. Len(Encode(answer)) /\ Received(n) = SubSeq(Encode(answer), 1, n)
  BY <1>1 DEF Received
<1>3. CASE answer = NoAnswer
  <2>1. parse_discover_response(Received(n), end_of_stream) = Parsed(Unfinished(end_of_stream), 0, 0)
    BY <1>2, <1>3, NothingParsed
  <2> QED  BY <1>3, <2>1, ParsedIs DEF AsSent, Unfinished, States
<1>4. CASE answer # NoAnswer
  <2>1. answer \in Answer
    BY <1>4, ExchangeAssumption
  <2> QED  BY <1>2, <2>1, AnswerParsed
<1> QED  BY <1>3, <1>4

LEMMA ResultIs ==
    ASSUME NEW stage, NEW error, NEW status, NEW body
    PROVE  /\ Result(stage, error, status, body).stage = stage
           /\ Result(stage, error, status, body).error = error
           /\ Result(stage, error, status, body).status = status
           /\ Result(stage, error, status, body).body = body
BY DEF Result

\* A connection that comes to nothing.
LEMMA GivenUp ==
    ASSUME Heard, phase # "done", NEW stage, NEW error, error \notin {"none", "parse"},
           NEW status, status \in {0, answer.status},
           Ends(Result(stage, error, status, 0)), got' = got
    PROVE  Heard'
<1>1. /\ phase' = "done" /\ result'.error = error /\ result'.status = status
      /\ answer' = answer /\ request' = request /\ consent' = consent
  BY ResultIs DEF Ends
<1>2. ~(SelfDelimited /\ AllRead)
  <2>1. CASE answer = NoAnswer
    BY <2>1, NotSelfDelimited
  <2>2. CASE answer # NoAnswer
    BY <2>2 DEF Heard, AnswerAsSent, SelfDelimited
  <2> QED  BY <2>1, <2>2
<1>3. ~(SelfDelimited /\ AllRead)'
  BY <1>1, <1>2 DEF SelfDelimited, AllRead
<1> QED  BY <1>1, <1>3 DEF Heard, AnswerAsSent

LEMMA FailureHeard ==
    ASSUME Heard, phase # "done", NEW error, error \notin {"none", "parse"}, Fails(error)
    PROVE  Heard'
BY GivenUp DEF Fails

\* Steps that have nothing to do with the answer.
LEMMA Unheard ==
    ASSUME Heard, UNCHANGED <<phase, request, answer, got, closed, consent, result>>
    PROVE  Heard'
BY DEF Heard, AnswerAsSent, SelfDelimited, AllRead, upload_accepted

\* Steps of the task while no answer is awaited.
LEMMA Onward ==
    ASSUME Heard, phase \notin {"reading", "done"}, phase' # "done",
           UNCHANGED <<answer, got, consent>>,
           request' = request \/ request' # "upload",
           phase' \in {"idle", "handshake", "question"} =>
                request' # "upload"
    PROVE  Heard'
<1>1. answer = NoAnswer /\ got = 0
  BY DEF Heard
<1>2. Len(Stream[NoAnswer]) = 0
  BY StreamIs DEF Encode
<1> QED  BY <1>1, <1>2 DEF Heard, AnswerAsSent

LEMMA TakenHeard ==
    ASSUME Heard, phase = "reading", NEW n \in 0 .. Len(Stream[answer]),
           NEW end_of_stream \in BOOLEAN, end_of_stream => closed /\ n = got,
           Taken(n, end_of_stream)
    PROVE  Heard'
<1> DEFINE parsed == parse_discover_response(Received(n), end_of_stream)
<1>1. AsSent(answer, n, end_of_stream, parsed) /\ answer \in Answers \cup {NoAnswer}
  BY ReceivedAsSent DEF Heard
<1>2. Len(Stream[answer]) = Len(Encode(answer))
  BY <1>1, StreamIs
<1> HIDE DEF parsed
<1>3. /\ got' = IF Accepted(parsed) THEN 0 ELSE n
      /\ IF parsed.state # "incomplete" THEN Understood(parsed)
         ELSE UNCHANGED <<lab, source, phase, request, out, wire, sourceVars,
                          answer, closed, late, consent, result>>
  BY DEF Taken, parsed
<1>4. CASE parsed.state = "incomplete"
  <2>1. /\ UNCHANGED <<phase, request, answer, closed, consent, result>> /\ got' = n
    BY <1>3, <1>4 DEF Accepted
  <2>2. AllRead' /\ answer' # NoAnswer => answer'.framing = "close"
    BY <1>1, <1>2, <1>4, <2>1 DEF AsSent, AllRead
  <2> QED  BY <1>2, <2>1, <2>2 DEF Heard, AnswerAsSent
<1>5. CASE parsed.state # "incomplete" /\ Accepted(parsed)
  <2>1. /\ consent' = answer.status /\ UploadBegins /\ got' = 0
    BY <1>3, <1>5 DEF Understood
  <2>2. answer.status = 200
    BY <1>1, <1>5 DEF AsSent, Accepted
  <2>3. /\ answer' = NoAnswer /\ request' = "upload" /\ consent' = 200
        /\ \/ phase' \in {"sizing", "head"}
           \/ phase' = "done" /\ result'.error = "archive" /\ result'.status = 0
    BY <2>1, <2>2, ResultIs DEF UploadBegins
  <2>4. ~SelfDelimited'
    BY <2>3, NotSelfDelimited DEF NoAnswer, SelfDelimited
  <2> QED  BY <2>1, <2>3, <2>4 DEF Heard, AnswerAsSent
<1>6. CASE parsed.state # "incomplete" /\ ~Accepted(parsed)
  <2> DEFINE error == IF parsed.state = "complete" THEN "none" ELSE "parse"
  <2>1. /\ Ends(Result(StageOf, error, parsed.status_code, parsed.body_bytes)) /\ got' = n
    BY <1>3, <1>6 DEF Understood
  <2>2. /\ phase' = "done" /\ result'.error = error /\ result'.status = parsed.status_code
        /\ result'.body = parsed.body_bytes /\ result'.stage = StageOf
        /\ UNCHANGED <<answer, request, consent, closed>>
    BY <2>1, ResultIs DEF Ends
  <2>3. error = "none" => parsed.state = "complete"
    OBVIOUS
  <2>4. error = "parse" => parsed.state # "complete"
    OBVIOUS
  <2>5. parsed.state \in States
    BY <1>1 DEF AsSent
  <2>6. AnswerAsSent'
    <3>1. result'.error = "none" =>
            /\ result'.status = answer'.status
            /\ \/ SelfDelimited' /\ AllRead' /\ result'.body = Len(BodyOf(answer'))
               \/ answer'.framing = "close" /\ closed'
      BY <1>1, <1>2, <2>1, <2>2, <2>3 DEF AsSent, SelfDelimited, AllRead
    <3>2. result'.error = "parse" => answer'.framing = "malformed" \/ closed'
      BY <1>1, <1>6, <2>2, <2>4, <2>5 DEF AsSent, States
    <3>3. result'.status \in {0, answer'.status}
      BY <1>1, <2>2 DEF AsSent
    <3>4. request' = "upload" => consent' = 200
      BY <2>2 DEF Heard, AnswerAsSent
    <3> QED  BY <2>2, <3>1, <3>2, <3>3, <3>4 DEF AnswerAsSent
  <2>7. request' = "upload" /\ SelfDelimited' /\ AllRead' /\ answer'.status = 200 => upload_accepted'
    <3>1. SUFFICES ASSUME request' = "upload", SelfDelimited', AllRead', answer'.status = 200
                   PROVE  upload_accepted'
      OBVIOUS
    <3>2. SelfDelimited /\ n = Len(Stream[answer]) /\ answer # NoAnswer
      BY <2>1, <2>2, <3>1, NotSelfDelimited DEF SelfDelimited, AllRead
    <3>3. ~end_of_stream
      BY <3>2 DEF Heard, AnswerAsSent, AllRead, SelfDelimited
    <3>4. parsed.state = "complete"
      BY <1>1, <1>6, <3>2, <3>3 DEF AsSent, States, SelfDelimited
    <3>5. result'.stage = "upload" /\ result'.error = "none" /\ result'.status = 200
      BY <1>1, <2>2, <3>1, <3>4 DEF AsSent, StageOf
    <3> QED  BY <3>5 DEF upload_accepted
  <2> QED  BY <1>1, <2>2, <2>6, <2>7 DEF Heard
<1> QED  BY <1>4, <1>5, <1>6

\* Steps of the network, and those that come to nothing because of it.
LEMMA NetworkHeard ==
    ASSUME Heard, NetworkStep
    PROVE  Heard'
<1>1. CASE WriteFails
  BY <1>1, FailureHeard DEF WriteFails, Writing
<1>2. CASE ReadEof
  BY <1>2, TakenHeard DEF ReadEof, Heard
<1>3. CASE ReadFails
  BY <1>3, FailureHeard DEF ReadFails
<1>4. CASE ReceiverCloses
  <2>1. phase = "reading" /\ phase' = "reading" /\ UNCHANGED <<request, answer, got, consent, result>>
    BY <1>4 DEF ReceiverCloses
  <2> QED  BY <2>1 DEF Heard, AnswerAsSent, SelfDelimited, AllRead
<1>5. ASSUME NEW n, WriteSome(n) PROVE Heard'
  BY <1>5, Unheard DEF WriteSome, netVars
<1>6. ASSUME NEW n, ReadSome(n) PROVE Heard'
  <2>1. got \in Nat /\ Len(Stream[answer]) \in Nat /\ ResponseBytes \in Nat
    <3>1. answer \in Answers \cup {NoAnswer} /\ got \in 0 .. Len(Stream[answer])
      BY <1>6 DEF Heard, ReadSome
    <3>2. Len(Encode(answer)) \in Nat
      <4>1. CASE answer = NoAnswer
        BY <4>1 DEF Encode
      <4>2. CASE answer # NoAnswer
        BY <3>1, <4>2, ExchangeAssumption, CarriedTypes, Encoded
      <4> QED  BY <4>1, <4>2
    <3> QED  BY <3>1, <3>2, StreamIs, ExchangeAssumption
  <2>2. /\ Min({ResponseBytes, Len(Stream[answer])}) \in Nat
        /\ Min({ResponseBytes, Len(Stream[answer])}) <= Len(Stream[answer])
    BY <2>1, LeastFound
  <2>3. /\ phase = "reading" /\ Taken(n, FALSE)
        /\ n \in got + 1 .. Min({ResponseBytes, Len(Stream[answer])})
    BY <1>6 DEF ReadSome
  <2>4. n \in 0 .. Len(Stream[answer])
    BY <2>1, <2>2, <2>3
  <2> QED  BY <2>3, <2>4, TakenHeard
<1>7. ASSUME NEW a \in Answers, ReceiverAnswers(a) PROVE Heard'
  <2>1. /\ phase = "reading" /\ phase' = "reading" /\ answer = NoAnswer /\ answer' = a
        /\ UNCHANGED <<request, got, closed, consent, result>>
    BY <1>7 DEF ReceiverAnswers
  <2>2. got = 0
    <3>1. got \in 0 .. Len(Stream[NoAnswer]) /\ Len(Stream[NoAnswer]) = 0
      BY <2>1, StreamIs DEF Heard, Encode
    <3> QED  BY <3>1
  <2>3. Stream[a] = Encode(a) /\ Len(Encode(a)) \in Nat /\ Len(Encode(a)) > 0
    BY StreamIs, ExchangeAssumption, CarriedTypes, Encoded
  <2>4. ~AllRead' /\ got' \in 0 .. Len(Stream[answer'])
    <3>1. Stream[answer'] = Encode(a) /\ got' = 0
      BY <2>1, <2>2, <2>3
    <3> QED  BY <2>3, <3>1 DEF AllRead
  <2> QED  BY <2>1, <2>4 DEF Heard, AnswerAsSent
<1> QED  BY <1>1, <1>2, <1>3, <1>4, <1>5, <1>6, <1>7 DEF NetworkStep

\* Steps of the task.
LEMMA TaskHeard ==
    ASSUME Heard, TaskStep
    PROVE  Heard'
<1>1. CASE HandshakeTimeout
  <2>1. phase = "handshake" /\ Ends(Result("tls", "timeout", 0, 0)) /\ got' = got
    BY <1>1 DEF HandshakeTimeout, HandshakeFails
  <2> QED  BY <2>1, GivenUp
<1>2. CASE Written
  <2>1. /\ phase \in {"question", "last"} /\ phase' = "reading"
        /\ UNCHANGED <<request, answer, got, closed, consent, result>>
    BY <1>2 DEF Written, netVars
  <2>2. answer = NoAnswer /\ got = 0 /\ Len(Stream[NoAnswer]) = 0
    BY <2>1, StreamIs DEF Heard, Encode
  <2> QED  BY <2>1, <2>2 DEF Heard, AnswerAsSent
<1>3. CASE WriteTimeout
  BY <1>3, FailureHeard DEF WriteTimeout, Writing
<1>4. CASE ReadOverflow
  BY <1>4, FailureHeard DEF ReadOverflow
<1>5. CASE ReadTimeout
  <2> DEFINE parsed == parse_discover_response(Received(got), FALSE)
             status == IF parsed.state = "invalid" THEN 0 ELSE parsed.status_code
  <2>1. phase = "reading" /\ Ends(Result(StageOf, "timeout", status, 0)) /\ got' = got
    BY <1>5 DEF ReadTimeout
  <2>2. AsSent(answer, got, FALSE, parsed)
    BY <2>1, ReceivedAsSent DEF Heard
  <2>3. status \in {0, answer.status}
    BY <2>2 DEF AsSent
  <2> HIDE DEF status
  <2> QED  BY <2>1, <2>3, GivenUp
<1>6. CASE PassHeader \/ PassFile \/ PassTrailer \/ PassPadding \/ PassCompressed
  BY <1>6, Unheard DEF PassHeader, PassFile, PassTrailer, PassPadding, PassCompressed, OnlyPass, netVars
<1>7. CASE SourceStep
  <2>1. ASSUME NEW n, PreparedReads(n) PROVE Heard'
    BY <2>1, Unheard DEF PreparedReads, OnlyPass, netVars
  <2>2. ASSUME NEW n, NEW from, SourceReads(n, from) PROVE Heard'
    BY <2>2, Unheard DEF SourceReads, OnlyPass, netVars
  <2>3. CASE SourceFails
    BY <2>3, FailureHeard DEF SourceFails, InPass, PassError
  <2>4. CASE PreparedFails
    BY <2>4, FailureHeard DEF PreparedFails
  <2> QED  BY <1>7, <2>1, <2>2, <2>3, <2>4 DEF SourceStep
<1>8. CASE Sized
  <2>1. phase = "sizing"
    BY <1>8 DEF Sized
  <2>2. CASE Fails("stream")
    BY <2>1, <2>2, FailureHeard
  <2>3. CASE ~Fails("stream")
    <3>1. phase' = "head" /\ UNCHANGED <<answer, got, consent, request>>
      BY <1>8, <2>3 DEF Sized, netVars
    <3> QED  BY <2>1, <3>1, Onward
  <2> QED  BY <2>2, <2>3
<1>9. CASE HeadBuilt
  BY <1>9, Unheard DEF HeadBuilt, netVars
<1>10. CASE BodyBegins
  BY <1>10, Onward DEF BodyBegins, netVars
<1>11. CASE buffer_upload_chunk
  BY <1>11, Unheard DEF buffer_upload_chunk, netVars
<1>12. CASE BodyEnds
  BY <1>12, Onward DEF BodyEnds, BodyGiven, netVars
<1>13. CASE BodyDiffers
  BY <1>13, FailureHeard DEF BodyDiffers, BodyGiven
<1>14. CASE Close
  <2>1. phase' = "idle" /\ request' = "none" /\ answer' = NoAnswer /\ got' = 0
    BY <1>14 DEF Close
  <2> QED  BY <2>1 DEF Heard, AnswerAsSent
<1> QED  BY <1>1, <1>2, <1>3, <1>4, <1>5, <1>6, <1>7, <1>8, <1>9, <1>10, <1>11, <1>12, <1>13,
            <1>14 DEF TaskStep

LEMMA HeardStep ==
    ASSUME Heard, [ExchangeNext]_exchangeVars
    PROVE  Heard'
<1>1. ASSUME NEW file, Connect(file) PROVE Heard'
  BY <1>1, Onward DEF Connect, netVars, Heard
<1>2. CASE HandshakeDone
  <2>1. /\ phase = "handshake" /\ phase' = "question" /\ request' # "upload"
        /\ UNCHANGED <<answer, got, consent>>
    BY <1>2 DEF HandshakeDone, perform_discover, perform_ask, Asks, netVars
  <2> QED  BY <2>1, Onward
<1>3. CASE HandshakeFails("refused")
  <2>1. phase = "handshake" /\ Ends(Result("tls", "refused", 0, 0)) /\ got' = got
    BY <1>3 DEF HandshakeFails
  <2> QED  BY <2>1, GivenUp
<1>4. CASE RequestNotBuilt
  BY <1>4, FailureHeard DEF RequestNotBuilt
<1>5. CASE CompressorFails
  <2>1. PassError \notin {"none", "parse"}
    BY DEF PassError
  <2> QED  BY <1>5, <2>1, FailureHeard DEF CompressorFails
<1>6. CASE DeadlinePasses
  BY <1>6, Unheard DEF DeadlinePasses, netVars
<1>7. CASE UNCHANGED exchangeVars
  BY <1>7, Unheard DEF exchangeVars, netVars
<1> QED  BY <1>1, <1>2, <1>3, <1>4, <1>5, <1>6, <1>7, NetworkHeard, TaskHeard DEF ExchangeNext

\* Whatever receivers answer and however the network splits it, over any number
\* of connections: what the task makes of an answer is what was sent.
THEOREM AnswersAsSent == ExchangeSpec => []AnswerAsSent
<1>1. ExchangeInit => Heard
  BY DEF ExchangeInit, Heard, AnswerAsSent
<1>2. Heard /\ [ExchangeNext]_exchangeVars => Heard'
  BY HeardStep
<1>3. Heard => AnswerAsSent
  BY DEF Heard
<1> QED  BY <1>1, <1>2, <1>3, PTL DEF ExchangeSpec

-----------------------------------------------------------------------------
(***************************************************************************)
(* The receiver's side of chunked transfer encoding.                       *)
(***************************************************************************)

\* The bytes of a request before its end.
WireBytes == (BodyKinds \cup {"head", "size", "crlf"}) \X Nat

\* The sequence s is cut into chunks at the places C.
Cuts(s, C) ==
    /\ C \subseteq 1 .. Len(s) + 1 /\ 1 \in C /\ Len(s) + 1 \in C
    /\ \A i \in C : i <= Len(s) => IsChunk(s, i) /\ AfterChunk(s, i) \in C
IsChunked(s) == \E C : Cuts(s, C)

Dechunks(f, s) ==
    /\ f \in [1 .. Len(s) + 1 -> Seq(WireBytes)]
    /\ \A i \in 1 .. Len(s) + 1 :
        f[i] = IF IsChunk(s, i)
               THEN SubSeq(s, i + 1, AfterChunk(s, i) - 2) \o f[AfterChunk(s, i)] ELSE <<>>

LEMMA WireIs ==
    /\ Content \subseteq WireBytes /\ Terminator[1] \notin WireBytes
    /\ \A v \in Nat : Byte("head", v) \in WireBytes /\ Byte("size", v) \in WireBytes
    /\ Byte("crlf", 0) \in WireBytes
    /\ \A b \in WireBytes : Value(b) \in Nat
BY DEF WireBytes, Content, BodyKinds, Byte, Terminator, Value

LEMMA AfterLater ==
    ASSUME NEW s \in Seq(WireBytes), NEW i \in 1 .. Len(s), IsChunk(s, i)
    PROVE  /\ AfterChunk(s, i) \in Nat /\ AfterChunk(s, i) >= i + 2
           /\ AfterChunk(s, i) <= Len(s) + 1
           /\ SubSeq(s, i + 1, AfterChunk(s, i) - 2) \in Seq(WireBytes)
<1>1. s[i] \in WireBytes /\ Len(s) \in Nat /\ i \in Nat
  OBVIOUS
<1>2. Value(s[i]) \in Nat
  BY <1>1, WireIs
<1>3. AfterChunk(s, i) = i + Value(s[i]) + 2 /\ AfterChunk(s, i) <= Len(s) + 1
  BY DEF AfterChunk, IsChunk
<1>4. \A j \in i + 1 .. AfterChunk(s, i) - 2 : s[j] \in WireBytes
  BY <1>1, <1>2, <1>3
<1>5. i + 1 \in Int /\ AfterChunk(s, i) - 2 \in Int
  BY <1>1, <1>2, <1>3
<1>6. SubSeq(s, i + 1, AfterChunk(s, i) - 2) \in Seq(WireBytes)
  BY <1>4, <1>5, SubSeqProperties
<1> QED  BY <1>1, <1>2, <1>3, <1>6

LEMMA DechunkedFound ==
    ASSUME NEW s \in Seq(WireBytes)
    PROVE  \E f : Dechunked(s) = f[1] /\ Dechunks(f, s)
<1> DEFINE M == Len(s) + 1
           piece(i) == SubSeq(s, i + 1, AfterChunk(s, i) - 2)
           next == [i \in 1 .. M |-> IF IsChunk(s, i) THEN AfterChunk(s, i) ELSE 0]
           base == [i \in 1 .. M |-> <<>>]
           join == [i \in 1 .. M |-> [r \in Seq(WireBytes) |->
                        IF IsChunk(s, i) THEN piece(i) \o r ELSE r]]
           chunks == CHOOSE c : c = [i \in 1 .. Len(s) + 1 |->
                IF IsChunk(s, i)
                THEN SubSeq(s, i + 1, AfterChunk(s, i) - 2) \o c[AfterChunk(s, i)]
                ELSE <<>>]
<1>1. M \in Nat
  OBVIOUS
<1>2. base \in [1 .. M -> Seq(WireBytes)]
  BY EmptySeq
<1>3. \A i \in 1 .. M : IsChunk(s, i) => /\ AfterChunk(s, i) \in 1 .. M /\ AfterChunk(s, i) > i
                                         /\ piece(i) \in Seq(WireBytes)
  <2>1. \A i \in 1 .. M : IsChunk(s, i) => i \in 1 .. Len(s)
    BY DEF IsChunk
  <2>2. ASSUME NEW i \in 1 .. Len(s), IsChunk(s, i)
        PROVE  /\ AfterChunk(s, i) \in Nat /\ AfterChunk(s, i) >= i + 2
               /\ AfterChunk(s, i) <= Len(s) + 1 /\ piece(i) \in Seq(WireBytes)
    BY <2>2, AfterLater
  <2> HIDE DEF piece
  <2> QED  BY <2>1, <2>2
<1>4. next \in [1 .. M -> 0 .. M] /\ \A i \in 1 .. M : next[i] = 0 \/ next[i] > i
  <2>1. 0 \in 0 .. M /\ \A j \in 1 .. M : j \in 0 .. M
    BY <1>1
  <2> HIDE DEF M
  <2> QED  BY <1>3, <2>1
<1> HIDE DEF piece
<1>5. join \in [1 .. M -> [Seq(WireBytes) -> Seq(WireBytes)]]
  <2>1. ASSUME NEW i \in 1 .. M
        PROVE  [r \in Seq(WireBytes) |-> IF IsChunk(s, i) THEN piece(i) \o r ELSE r]
                    \in [Seq(WireBytes) -> Seq(WireBytes)]
    <3>1. \A r \in Seq(WireBytes) : IsChunk(s, i) => piece(i) \o r \in Seq(WireBytes)
      BY <1>3, ConcatProperties
    <3> QED  BY <3>1, Zenon
  <2> QED  BY <2>1, Zenon
<1>6. \A i \in 1 .. M : IF IsChunk(s, i) THEN next[i] = AfterChunk(s, i) /\ next[i] # 0
                        ELSE next[i] = 0
  BY <1>3
<1>7. /\ \A i \in 1 .. M : base[i] = <<>>
      /\ \A i \in 1 .. M : \A r \in Seq(WireBytes) :
            IsChunk(s, i) => join[i][r] = piece(i) \o r
  OBVIOUS
<1> HIDE DEF M, next, base, join
<1>8. PICK f \in [1 .. M -> Seq(WireBytes)] : Walks(f, M, base, next, join)
  BY <1>1, <1>2, <1>4, <1>5, WalkRuns
<1>9. ASSUME NEW i \in 1 .. M
      PROVE  f[i] = IF IsChunk(s, i) THEN piece(i) \o f[AfterChunk(s, i)] ELSE <<>>
  <2>1. f[i] = IF next[i] = 0 THEN base[i] ELSE join[i][f[next[i]]]
    BY <1>8 DEF Walks
  <2>2. CASE IsChunk(s, i)
    <3>1. next[i] = AfterChunk(s, i) /\ next[i] # 0 /\ next[i] \in 1 .. M
      BY <1>3, <1>6, <2>2
    <3>2. f[next[i]] \in Seq(WireBytes)
      BY <3>1
    <3> QED  BY <1>7, <2>1, <2>2, <3>1, <3>2
  <2>3. CASE ~IsChunk(s, i)
    BY <1>6, <1>7, <2>1, <2>3
  <2> QED  BY <2>2, <2>3
<1>10. f = [i \in 1 .. Len(s) + 1 |->
                IF IsChunk(s, i)
                THEN SubSeq(s, i + 1, AfterChunk(s, i) - 2) \o f[AfterChunk(s, i)]
                ELSE <<>>]
  BY <1>9, Zenon DEF M, piece
<1>11. chunks = [i \in 1 .. Len(s) + 1 |->
                IF IsChunk(s, i)
                THEN SubSeq(s, i + 1, AfterChunk(s, i) - 2) \o chunks[AfterChunk(s, i)]
                ELSE <<>>]
  BY <1>10, Zenon
<1>12. Dechunked(s) = chunks[1]
  BY DEF Dechunked
<1> HIDE DEF chunks
<1> DEFINE Typed == {k \in 0 .. M : \A i \in 1 .. M : i >= M - k + 1 => chunks[i] \in Seq(WireBytes)}
<1>13. M \in Typed
  <2>1. 0 \in Typed
    BY <1>1
  <2>2. ASSUME NEW k \in 1 .. M, k - 1 \in Typed PROVE k \in Typed
    <3>1. ASSUME NEW i \in 1 .. M, i >= M - k + 1 PROVE chunks[i] \in Seq(WireBytes)
      <4>1. chunks[i] = IF IsChunk(s, i) THEN piece(i) \o chunks[AfterChunk(s, i)] ELSE <<>>
        BY <1>11 DEF M, piece
      <4>2. CASE IsChunk(s, i)
        <5>1. AfterChunk(s, i) \in 1 .. M /\ AfterChunk(s, i) > i /\ piece(i) \in Seq(WireBytes)
          BY <1>3, <4>2
        <5>2. AfterChunk(s, i) >= M - (k - 1) + 1
          BY <1>1, <3>1, <5>1
        <5>3. chunks[AfterChunk(s, i)] \in Seq(WireBytes)
          BY <2>2, <5>1, <5>2
        <5> QED  BY <4>1, <4>2, <5>1, <5>3, ConcatProperties
      <4>3. CASE ~IsChunk(s, i)
        BY <4>1, <4>3, EmptySeq
      <4> QED  BY <4>2, <4>3
    <3> QED  BY <1>1, <3>1
  <2> HIDE DEF Typed
  <2> QED  BY <1>1, <2>1, <2>2, UpTo
<1>14. \A i \in 1 .. M : chunks[i] \in Seq(WireBytes)
  <2>1. \A i \in 1 .. M : i >= M - M + 1
    BY <1>1
  <2> QED  BY <1>13, <2>1
<1>15. Dechunks(chunks, s)
  BY <1>11, <1>14 DEF Dechunks, M
<1> QED  BY <1>12, <1>15

LEMMA DechunkedNothing ==
    /\ IsChunked(<<>>) /\ Dechunked(<<>>) = <<>>
<1>1. Len(<<>>) = 0 /\ <<>> \in Seq(WireBytes)
  BY EmptySeq
<1>2. Cuts(<<>>, {1})
  BY <1>1 DEF Cuts
<1>3. PICK f : Dechunked(<<>>) = f[1] /\ Dechunks(f, <<>>)
  BY <1>1, DechunkedFound
<1>4. ~IsChunk(<<>>, 1)
  BY <1>1 DEF IsChunk
<1>5. f[1] = <<>>
  BY <1>1, <1>3, <1>4 DEF Dechunks
<1> QED  BY <1>2, <1>3, <1>5 DEF IsChunked

LEMMA SentChunkIs ==
    ASSUME NEW b \in Seq(WireBytes), b # <<>>, NEW c, c = Chunk(b)
    PROVE  /\ c \in Seq(WireBytes) /\ Len(c) = Len(b) + 2 /\ Len(b) \in Nat \ {0}
           /\ c[1] = Byte("size", Len(b)) /\ c[Len(b) + 2] = Byte("crlf", 0)
           /\ \A j \in 1 .. Len(b) : c[1 + j] = b[j]
<1> DEFINE h == <<Byte("size", Len(b))>>  e == <<Byte("crlf", 0)>>  hb == h \o b
<1>1. Len(b) \in Nat \ {0}
  BY EmptySeq
<1>2. /\ h \in Seq(WireBytes) /\ Len(h) = 1 /\ h[1] = Byte("size", Len(b))
      /\ e \in Seq(WireBytes) /\ Len(e) = 1 /\ e[1] = Byte("crlf", 0)
  BY <1>1, WireIs
<1> HIDE DEF h, e
<1>3. /\ hb \in Seq(WireBytes) /\ Len(hb) = Len(h) + Len(b)
      /\ \A i \in 1 .. Len(h) + Len(b) : hb[i] = IF i <= Len(h) THEN h[i] ELSE b[i - Len(h)]
  BY <1>2, ConcatProperties
<1>4. /\ Len(hb) = 1 + Len(b) /\ hb[1] = h[1]
      /\ \A j \in 1 .. Len(b) : hb[1 + j] = b[j]
  <2>1. 1 \in 1 .. Len(h) + Len(b) /\ 1 <= Len(h)
    BY <1>1, <1>2
  <2>2. \A j \in 1 .. Len(b) : 1 + j \in 1 .. Len(h) + Len(b) /\ ~(1 + j <= Len(h)) /\ 1 + j - Len(h) = j
    BY <1>1, <1>2
  <2> QED  BY <1>2, <1>3, <2>1, <2>2
<1> HIDE DEF hb
<1>5. /\ hb \o e \in Seq(WireBytes) /\ Len(hb \o e) = Len(hb) + Len(e)
      /\ \A i \in 1 .. Len(hb) + Len(e) : (hb \o e)[i] = IF i <= Len(hb) THEN hb[i] ELSE e[i - Len(hb)]
  <2>1. hb \in Seq(WireBytes) /\ e \in Seq(WireBytes)
    BY <1>2, <1>3
  <2> QED  BY <2>1, ConcatProperties
<1>6. c = hb \o e
  BY DEF Chunk, h, e, hb
<1>7. c \in Seq(WireBytes) /\ Len(c) = Len(b) + 2
  BY <1>1, <1>2, <1>4, <1>5, <1>6
<1>8. c[1] = h[1] /\ \A j \in 1 .. Len(b) : c[1 + j] = b[j]
  <2>1. \A i \in 1 .. 1 + Len(b) : i \in 1 .. Len(hb) + Len(e) /\ i <= Len(hb)
    BY <1>1, <1>2, <1>4
  <2>2. \A i \in 1 .. 1 + Len(b) : c[i] = hb[i]
    BY <1>5, <1>6, <2>1
  <2>3. 1 \in 1 .. 1 + Len(b) /\ \A j \in 1 .. Len(b) : 1 + j \in 1 .. 1 + Len(b)
    BY <1>1
  <2> QED  BY <1>4, <2>2, <2>3
<1>9. c[Len(b) + 2] = e[1]
  <2>1. /\ Len(b) + 2 \in 1 .. Len(hb) + Len(e) /\ ~(Len(b) + 2 <= Len(hb))
        /\ Len(b) + 2 - Len(hb) = 1
    BY <1>1, <1>2, <1>4
  <2> QED  BY <1>5, <1>6, <2>1
<1> QED  BY <1>1, <1>2, <1>7, <1>8, <1>9

\* The sequence t is s with one more chunk, which holds b.
Extended(t, s, b) ==
    /\ t \in Seq(WireBytes) /\ Len(t) = Len(s) + Len(b) + 2
    /\ \A j \in 1 .. Len(s) : t[j] = s[j]
    /\ t[Len(s) + 1] = Byte("size", Len(b)) /\ t[Len(s) + Len(b) + 2] = Byte("crlf", 0)
    /\ \A j \in 1 .. Len(b) : t[Len(s) + 1 + j] = b[j]

LEMMA ChunkExtends ==
    ASSUME NEW s \in Seq(WireBytes), NEW b \in Seq(WireBytes), b # <<>>
    PROVE  Extended(s \o Chunk(b), s, b)
<1> DEFINE c == Chunk(b)  t == s \o c
<1>1. /\ c \in Seq(WireBytes) /\ Len(c) = Len(b) + 2 /\ Len(b) \in Nat \ {0}
      /\ c[1] = Byte("size", Len(b)) /\ c[Len(b) + 2] = Byte("crlf", 0)
      /\ \A j \in 1 .. Len(b) : c[1 + j] = b[j]
  BY SentChunkIs
<1> HIDE DEF c
<1>2. /\ t \in Seq(WireBytes) /\ Len(s) \in Nat /\ Len(c) \in Nat /\ Len(t) = Len(s) + Len(c)
      /\ \A j \in 1 .. Len(s) : t[j] = s[j]
      /\ \A j \in 1 .. Len(c) : t[Len(s) + j] = c[j]
  <2>1. c \in Seq(WireBytes)
    BY <1>1
  <2> QED  BY <2>1, Followed
<1> HIDE DEF t
<1>3. t[Len(s) + 1] = c[1] /\ t[Len(s) + (Len(b) + 2)] = c[Len(b) + 2]
  <2>1. 1 \in 1 .. Len(c) /\ Len(b) + 2 \in 1 .. Len(c)
    BY <1>1
  <2> QED  BY <1>2, <2>1
<1>4. \A j \in 1 .. Len(b) : t[Len(s) + 1 + j] = b[j]
  <2>1. \A j \in 1 .. Len(b) : 1 + j \in 1 .. Len(c) /\ Len(s) + (1 + j) = Len(s) + 1 + j
    BY <1>1, <1>2
  <2> QED  BY <1>1, <1>2, <2>1
<1>5. Len(s) + (Len(b) + 2) = Len(s) + Len(b) + 2
  BY <1>1, <1>2
<1> QED  BY <1>1, <1>2, <1>3, <1>4, <1>5 DEF Extended, t, c

\* What a receiver has of it is what it had and the bytes of that chunk.
LEMMA DechunkedMore ==
    ASSUME NEW s \in Seq(WireBytes), IsChunked(s), NEW b \in Seq(WireBytes), b # <<>>,
           NEW t, Extended(t, s, b)
    PROVE  IsChunked(t) /\ Dechunked(t) = Dechunked(s) \o b
<1> DEFINE n == Len(s)  m == Len(b)
<1>1. n \in Nat /\ m \in Nat \ {0} /\ t \in Seq(WireBytes) /\ Len(t) = n + m + 2
  BY EmptySeq DEF Extended
<1>2. PICK C : Cuts(s, C)
  BY DEF IsChunked
<1>3. PICK f : Dechunked(s) = f[1] /\ Dechunks(f, s)
  BY DechunkedFound
<1>4. PICK g : Dechunked(t) = g[1] /\ Dechunks(g, t)
  BY <1>1, DechunkedFound
<1>5. /\ \A j \in 1 .. n : t[j] = s[j]
      /\ t[n + 1] = Byte("size", m) /\ t[n + m + 2] = Byte("crlf", 0)
      /\ \A j \in 1 .. m : t[n + 1 + j] = b[j]
  BY DEF Extended
<1>6. C \subseteq 1 .. n + 1 /\ 1 \in C /\ n + 1 \in C
  BY <1>2 DEF Cuts
<1>7. ASSUME NEW i \in C, i <= n
      PROVE  /\ i \in 1 .. n /\ IsChunk(s, i) /\ AfterChunk(s, i) \in C
             /\ AfterChunk(s, i) \in Nat /\ AfterChunk(s, i) >= i + 2 /\ AfterChunk(s, i) <= n + 1
             /\ AfterChunk(t, i) = AfterChunk(s, i) /\ IsChunk(t, i)
             /\ SubSeq(s, i + 1, AfterChunk(s, i) - 2) \in Seq(WireBytes)
             /\ SubSeq(t, i + 1, AfterChunk(t, i) - 2) = SubSeq(s, i + 1, AfterChunk(s, i) - 2)
  <2>1. i \in 1 .. n /\ IsChunk(s, i) /\ AfterChunk(s, i) \in C
    BY <1>1, <1>2, <1>6, <1>7 DEF Cuts
  <2>2. /\ AfterChunk(s, i) \in Nat /\ AfterChunk(s, i) >= i + 2 /\ AfterChunk(s, i) <= n + 1
        /\ SubSeq(s, i + 1, AfterChunk(s, i) - 2) \in Seq(WireBytes)
    BY <2>1, AfterLater
  <2>3. AfterChunk(t, i) = AfterChunk(s, i)
    BY <1>5, <2>1 DEF AfterChunk
  <2> DEFINE p == AfterChunk(s, i)
  <2>4. t[i] = s[i] /\ t[p - 1] = s[p - 1]
    <3>1. p - 1 \in 1 .. n
      BY <1>1, <2>1, <2>2
    <3> QED  BY <1>5, <2>1, <3>1
  <2>5. IsChunk(t, i)
    <3>1. i <= Len(t) /\ p <= Len(t) + 1
      BY <1>1, <2>1, <2>2
    <3>2. Kind(s[i]) = "size" /\ s[p - 1] = Byte("crlf", 0)
      BY <2>1 DEF IsChunk
    <3> QED  BY <2>3, <2>4, <3>1, <3>2 DEF IsChunk
  <2>6. SubSeq(t, i + 1, p - 2) = SubSeq(s, i + 1, p - 2)
    <3> HIDE DEF p
    <3>1. i + 1 \in Int /\ p - 2 \in Int /\ p - 2 <= n - 1
      BY <1>1, <2>1, <2>2 DEF p
    <3>2. \A j \in i + 1 .. p - 2 : j \in 1 .. n /\ s[j] \in WireBytes /\ t[j] \in WireBytes
      BY <1>1, <1>5, <2>1, <3>1
    <3> DEFINE u == SubSeq(s, i + 1, p - 2)  v == SubSeq(t, i + 1, p - 2)
    <3>3. /\ u \in Seq(WireBytes)
          /\ Len(u) = IF i + 1 <= p - 2 THEN p - 2 - (i + 1) + 1 ELSE 0
          /\ \A k \in 1 .. p - 2 - (i + 1) + 1 : u[k] = s[i + 1 + k - 1]
      BY <3>1, <3>2, SubSeqProperties, SMTT(60)
    <3>4. /\ v \in Seq(WireBytes)
          /\ Len(v) = IF i + 1 <= p - 2 THEN p - 2 - (i + 1) + 1 ELSE 0
          /\ \A k \in 1 .. p - 2 - (i + 1) + 1 : v[k] = t[i + 1 + k - 1]
      BY <3>1, <3>2, SubSeqProperties, SMTT(60)
    <3> HIDE DEF u, v
    <3>5. \A k \in 1 .. Len(u) : k \in 1 .. p - 2 - (i + 1) + 1 /\ i + 1 + k - 1 \in 1 .. n
      BY <1>1, <2>1, <3>1, <3>3, SMTT(60)
    <3>6. \A k \in 1 .. Len(u) : u[k] = v[k]
      BY <1>5, <3>3, <3>4, <3>5
    <3>7. u = v
      BY <3>3, <3>4, <3>6, SeqEqual
    <3> QED  BY <3>7 DEF u, v
  <2> QED  BY <2>1, <2>2, <2>3, <2>5, <2>6
<1>8. /\ AfterChunk(t, n + 1) = n + m + 3 /\ IsChunk(t, n + 1)
      /\ SubSeq(t, n + 2, AfterChunk(t, n + 1) - 2) = b
  <2>1. AfterChunk(t, n + 1) = n + m + 3
    BY <1>1, <1>5 DEF AfterChunk, Byte, Value
  <2>2. IsChunk(t, n + 1)
    <3>1. n + 1 <= Len(t) /\ n + m + 3 <= Len(t) + 1 /\ n + m + 3 - 1 = n + m + 2
      BY <1>1
    <3> QED  BY <1>5, <2>1, <3>1 DEF IsChunk, Kind, Byte
  <2>3. SubSeq(t, n + 2, n + m + 1) = b
    <3> DEFINE u == SubSeq(t, n + 2, n + m + 1)
    <3>1. \A j \in n + 2 .. n + m + 1 : t[j] \in WireBytes
      BY <1>1
    <3>2. n + 2 \in Int /\ n + m + 1 \in Int /\ n + 2 <= n + m + 1 /\ n + m + 1 - (n + 2) + 1 = m
      BY <1>1
    <3>3. u \in Seq(WireBytes) /\ Len(u) = m /\ \A k \in 1 .. m : u[k] = t[n + 2 + k - 1]
      BY <3>1, <3>2, SubSeqProperties
    <3>4. \A k \in 1 .. m : n + 2 + k - 1 = n + 1 + k
      BY <1>1
    <3> HIDE DEF u
    <3>5. \A k \in 1 .. m : u[k] = b[k]
      BY <1>5, <3>3, <3>4
    <3>6. u = b
      BY <3>3, <3>5, SeqEqual
    <3> QED  BY <3>6 DEF u
  <2>4. n + m + 3 - 2 = n + m + 1
    BY <1>1
  <2> QED  BY <2>1, <2>2, <2>3, <2>4
<1>9. /\ f \in [1 .. n + 1 -> Seq(WireBytes)]
      /\ \A i \in 1 .. n + 1 :
            f[i] = IF IsChunk(s, i) THEN SubSeq(s, i + 1, AfterChunk(s, i) - 2) \o f[AfterChunk(s, i)]
                   ELSE <<>>
  BY <1>3 DEF Dechunks
<1>10. /\ g \in [1 .. n + m + 3 -> Seq(WireBytes)]
       /\ \A i \in 1 .. n + m + 3 :
            g[i] = IF IsChunk(t, i) THEN SubSeq(t, i + 1, AfterChunk(t, i) - 2) \o g[AfterChunk(t, i)]
                   ELSE <<>>
  <2>1. Len(t) + 1 = n + m + 3
    BY <1>1
  <2> QED  BY <1>4, <2>1 DEF Dechunks
<1>11. g[n + 1] = f[n + 1] \o b
  <2>1. ~IsChunk(s, n + 1) /\ ~IsChunk(t, n + m + 3)
    BY <1>1 DEF IsChunk
  <2>2. n + 1 \in 1 .. n + 1 /\ n + 1 \in 1 .. n + m + 3 /\ n + m + 3 \in 1 .. n + m + 3 /\ n + 1 + 1 = n + 2
    BY <1>1
  <2>3. f[n + 1] = <<>> /\ g[n + m + 3] = <<>>
    BY <1>9, <1>10, <2>1, <2>2
  <2>4. g[n + 1] = b \o <<>>
    BY <1>8, <1>10, <2>2, <2>3
  <2>5. b \o <<>> = b /\ <<>> \o b = b
    BY ConcatEmptySeq
  <2> QED  BY <2>3, <2>4, <2>5
<1> DEFINE Agree == {k \in 0 .. n : \A i \in C : i >= n + 1 - k => g[i] = f[i] \o b}
<1> HIDE DEF n, m
<1>12. n \in Agree
  <2>1. 0 \in Agree
    <3>1. \A i \in C : i >= n + 1 - 0 => i = n + 1
      BY <1>1, <1>6
    <3>2. 0 \in 0 .. n
      BY <1>1
    <3>3. \A i \in C : i >= n + 1 - 0 => g[i] = f[i] \o b
      BY <1>11, <3>1
    <3> QED  BY <3>2, <3>3
  <2>2. ASSUME NEW k \in 1 .. n, k - 1 \in Agree PROVE k \in Agree
    <3>1. ASSUME NEW i \in C, i >= n + 1 - k PROVE g[i] = f[i] \o b
      <4>1. CASE i = n + 1
        BY <1>11, <4>1
      <4>2. CASE i # n + 1
        <5>1. i <= n /\ i \in 1 .. n + 1 /\ i \in 1 .. n + m + 3
          BY <1>1, <1>6, <4>2
        <5> DEFINE p == AfterChunk(s, i)  w == SubSeq(s, i + 1, p - 2)
        <5>2. /\ IsChunk(s, i) /\ IsChunk(t, i) /\ p \in C /\ p >= i + 2 /\ p \in Nat /\ p <= n + 1
              /\ w \in Seq(WireBytes) /\ AfterChunk(t, i) = p
              /\ SubSeq(t, i + 1, AfterChunk(t, i) - 2) = w
          BY <1>7, <5>1
        <5>3. f[i] = w \o f[p] /\ g[i] = w \o g[p]
          BY <1>9, <1>10, <5>1, <5>2
        <5> HIDE DEF p, w
        <5>4. g[p] = f[p] \o b
          <6>1. p >= n + 1 - (k - 1)
            BY <1>1, <3>1, <5>1, <5>2
          <6> QED  BY <2>2, <5>2, <6>1
        <5>5. f[p] \in Seq(WireBytes)
          <6>1. p \in 1 .. n + 1
            BY <1>1, <5>1, <5>2
          <6> QED  BY <1>9, <6>1
        <5>6. (w \o f[p]) \o b = w \o (f[p] \o b)
          <6>1. w \in Seq(WireBytes)
            BY <5>2
          <6> DEFINE fp == f[p]
          <6>2. fp \in Seq(WireBytes)
            BY <5>5
          <6> HIDE DEF fp
          <6>3. (w \o fp) \o b = w \o (fp \o b)
            <7>1. Grouped(w, fp, b)
              BY <6>1, <6>2, Regrouped
            <7> QED  BY <7>1 DEF Grouped
          <6> QED  BY <6>3 DEF fp
        <5> QED  BY <5>3, <5>4, <5>6
      <4> QED  BY <4>1, <4>2
    <3>2. k \in 0 .. n
      BY <1>1
    <3> QED  BY <3>1, <3>2
  <2> HIDE DEF Agree
  <2> QED  BY <1>1, <2>1, <2>2, UpTo
<1>13. Dechunked(t) = Dechunked(s) \o b
  <2>1. 1 >= n + 1 - n
    BY <1>1
  <2> QED  BY <1>3, <1>4, <1>6, <1>12, <2>1
<1>14. Cuts(t, C \cup {n + m + 3})
  <2>1. /\ C \cup {n + m + 3} \subseteq 1 .. Len(t) + 1 /\ Len(t) + 1 = n + m + 3
    BY <1>1, <1>6
  <2>2. ASSUME NEW i \in C \cup {n + m + 3}, i <= Len(t)
        PROVE  IsChunk(t, i) /\ AfterChunk(t, i) \in C \cup {n + m + 3}
    <3>1. i \in C
      BY <1>1, <2>1, <2>2
    <3>2. CASE i = n + 1
      BY <1>8, <3>2
    <3>3. CASE i # n + 1
      <4>1. i <= n
        BY <1>1, <1>6, <3>1, <3>3
      <4> QED  BY <1>7, <3>1, <4>1
    <3> QED  BY <3>2, <3>3
  <2> QED  BY <1>6, <2>1, <2>2 DEF Cuts
<1> QED  BY <1>13, <1>14 DEF IsChunked

-----------------------------------------------------------------------------
(***************************************************************************)
(* Whole units.                                                            *)
(***************************************************************************)

LEMMA Divided ==
    ASSUME NEW a \in Nat, NEW u \in Nat \ {0}
    PROVE  /\ a \div u \in Nat /\ a % u \in 0 .. u - 1
           /\ a = (a \div u) * u + (a % u)
OBVIOUS

LEMMA DivideIs ==
    ASSUME NEW u \in Nat \ {0}, NEW k \in Nat, NEW r \in 0 .. u - 1
    PROVE  (k * u + r) \div u = k /\ (k * u + r) % u = r
OBVIOUS

LEMMA CeilingIs ==
    ASSUME NEW a \in Nat, NEW u \in Nat \ {0}
    PROVE  /\ Ceiling(a, u) \in Nat /\ Ceiling(a, u) * u >= a
           /\ Ceiling(a, u) * u - a = (u - (a % u)) % u
BY DEF Ceiling

-----------------------------------------------------------------------------
(***************************************************************************)
(* The archive of a file.                                                  *)
(***************************************************************************)

\* Byte j of the archive of a file of n bytes.
ArchiveByte(file, n, j) ==
    IF j = 1 THEN write_odc_header(n)
    ELSE IF j = 2 THEN Byte("path", 0)
    ELSE IF j <= n + 2 THEN Byte("data", file[j - 2])
    ELSE IF j = n + 3 THEN write_odc_header(0)
    ELSE IF j = n + 4 THEN Byte("trailer", 0)
    ELSE Byte("zero", 0)

\* The first bytes of it.
ArchiveStart(q, file, n) ==
    /\ q \in Seq(Content)
    /\ \A j \in 1 .. Len(q) : q[j] = ArchiveByte(file, n, j)

DataBytes(file) == [i \in DOMAIN file |-> Byte("data", file[i])]

LEMMA ContentIs ==
    \A v \in Nat : /\ write_odc_header(v) \in Content /\ Byte("path", v) \in Content
                   /\ Byte("data", v) \in Content /\ Byte("trailer", v) \in Content
                   /\ Byte("zero", v) \in Content /\ Byte("stored", v) \in Content
                   /\ Byte("zlib", v) \in Content /\ Byte("bytes", v) \in Content
BY DEF write_odc_header, Content, BodyKinds, Byte

LEMMA DataBytesIs ==
    ASSUME NEW file \in Seq(Nat)
    PROVE  /\ DataBytes(file) \in Seq(Content) /\ Len(DataBytes(file)) = Len(file)
           /\ \A j \in 1 .. Len(file) : DataBytes(file)[j] = Byte("data", file[j])
<1>1. Len(file) \in Nat /\ DOMAIN file = 1 .. Len(file) /\ \A j \in 1 .. Len(file) : file[j] \in Nat
  OBVIOUS
<1>2. \A j \in 1 .. Len(file) : Byte("data", file[j]) \in Content
  BY <1>1, ContentIs
<1>3. DataBytes(file) \in [1 .. Len(file) -> Content]
  BY <1>1, <1>2 DEF DataBytes
<1>4. DataBytes(file) \in Seq(Content) /\ Len(DataBytes(file)) = Len(file)
  BY <1>1, <1>3
<1> QED  BY <1>1, <1>4 DEF DataBytes

LEMMA PaddingIs ==
    ASSUME NEW n \in Nat
    PROVE  /\ [i \in 1 .. n |-> Byte("zero", 0)] \in Seq(Content)
           /\ Len([i \in 1 .. n |-> Byte("zero", 0)]) = n
           /\ \A j \in 1 .. n : [i \in 1 .. n |-> Byte("zero", 0)][j] = Byte("zero", 0)
<1>1. Byte("zero", 0) \in Content
  BY ContentIs
<1>2. [i \in 1 .. n |-> Byte("zero", 0)] \in [1 .. n -> Content]
  BY <1>1
<1> QED  BY <1>2

LEMMA ArchiveSize ==
    ASSUME NEW n \in Nat
    PROVE  /\ Plan(n).archive_bytes \in Nat /\ Plan(n).archive_bytes >= n + 4
           /\ Plan(n).archive_bytes - (n + 4) = (OdcBlock - ((n + 4) % OdcBlock)) % OdcBlock
           /\ Plan(n).payload_bytes =
                Plan(n).archive_bytes + Ceiling(Plan(n).archive_bytes, DvzipBlock) * BlockHeaderBytes
<1>1. OdcBlock \in Nat \ {0}
  BY ExchangeAssumption
<1>2. Plan(n).archive_bytes = Ceiling(4 + n, OdcBlock) * OdcBlock /\ 4 + n = n + 4 /\ 4 + n \in Nat
  BY DEF Plan, FixedBytes
<1>3. /\ Ceiling(n + 4, OdcBlock) \in Nat /\ Ceiling(n + 4, OdcBlock) * OdcBlock >= n + 4
      /\ Ceiling(n + 4, OdcBlock) * OdcBlock - (n + 4) = (OdcBlock - ((n + 4) % OdcBlock)) % OdcBlock
  BY <1>1, <1>2, CeilingIs
<1>4. Ceiling(n + 4, OdcBlock) * OdcBlock \in Nat
  BY <1>1, <1>3
<1>5. Plan(n).payload_bytes =
                Plan(n).archive_bytes + Ceiling(Plan(n).archive_bytes, DvzipBlock) * BlockHeaderBytes
  BY DEF Plan
<1> QED  BY <1>2, <1>3, <1>4, <1>5

LEMMA ArchiveIs ==
    ASSUME NEW file \in Seq(Nat)
    PROVE  /\ ArchiveStart(Archive(file), file, Len(file))
           /\ Len(Archive(file)) = Plan(Len(file)).archive_bytes
<1> DEFINE n == Len(file)
           h == <<write_odc_header(n), Byte("path", 0)>>
           d == DataBytes(file)
           t == <<write_odc_header(0), Byte("trailer", 0)>>
           hd == h \o d
           e == hd \o t
           padding == (OdcBlock - ((n + 4) % OdcBlock)) % OdcBlock
           z == [i \in 1 .. padding |-> Byte("zero", 0)]
           a == e \o z
<1>1. n \in Nat
  OBVIOUS
<1>2. /\ h \in Seq(Content) /\ Len(h) = 2 /\ h[1] = write_odc_header(n) /\ h[2] = Byte("path", 0)
      /\ t \in Seq(Content) /\ Len(t) = 2 /\ t[1] = write_odc_header(0) /\ t[2] = Byte("trailer", 0)
  BY <1>1, ContentIs
<1>3. d \in Seq(Content) /\ Len(d) = n /\ \A j \in 1 .. n : d[j] = Byte("data", file[j])
  BY DataBytesIs
<1>4. /\ padding \in Nat /\ Plan(n).archive_bytes - (n + 4) = padding
      /\ Plan(n).archive_bytes \in Nat
  <2>1. /\ Plan(n).archive_bytes \in Nat /\ Plan(n).archive_bytes >= n + 4
        /\ Plan(n).archive_bytes - (n + 4) = padding
    BY <1>1, ArchiveSize
  <2> HIDE DEF padding
  <2> QED  BY <1>1, <2>1
<1> HIDE DEF padding
<1>5. z \in Seq(Content) /\ Len(z) = padding /\ \A j \in 1 .. padding : z[j] = Byte("zero", 0)
  BY <1>4, PaddingIs
<1> HIDE DEF h, d, t, z
<1>6. hd \in Seq(Content) /\ Follows(hd, h, d, 2, n)
  BY <1>2, <1>3, FollowedBy
<1>7. Len(hd) = 2 + n
  BY <1>6 DEF Follows
<1> HIDE DEF hd
<1>8. e \in Seq(Content) /\ Follows(e, hd, t, 2 + n, 2)
  BY <1>2, <1>6, <1>7, FollowedBy
<1>9. Len(e) = n + 4
  BY <1>1, <1>8 DEF Follows
<1>10. Archive(file) = a
  <2>1. Len(e) % OdcBlock = (n + 4) % OdcBlock
    BY <1>9
  <2> QED  BY <2>1 DEF Archive, a, e, hd, h, d, t, z, padding, DataBytes
<1> HIDE DEF e
<1>11. a \in Seq(Content) /\ Follows(a, e, z, n + 4, padding)
  BY <1>5, <1>8, <1>9, FollowedBy
<1> HIDE DEF a
<1>12. Len(a) = n + 4 + padding
  BY <1>11 DEF Follows
<1>13. ASSUME NEW j \in 1 .. Len(a) PROVE a[j] = ArchiveByte(file, n, j)
  <2>1. CASE j > n + 4
    <3>1. j - (n + 4) \in 1 .. padding /\ n + 4 + (j - (n + 4)) = j
      BY <1>1, <1>4, <1>12, <2>1
    <3>2. a[j] = Byte("zero", 0)
      BY <1>5, <1>11, <3>1 DEF Follows
    <3>3. j # 1 /\ j # 2 /\ ~(j <= n + 2) /\ j # n + 3 /\ j # n + 4
      BY <1>1, <2>1
    <3> QED  BY <3>2, <3>3 DEF ArchiveByte
  <2>2. CASE j <= n + 4
    <3>1. a[j] = e[j]
      BY <1>1, <1>11, <2>2 DEF Follows
    <3>2. CASE j > n + 2
      <4>1. j - (n + 2) \in 1 .. 2 /\ 2 + n + (j - (n + 2)) = j
        BY <1>1, <2>2, <3>2
      <4>2. e[j] = t[j - (n + 2)]
        BY <1>8, <4>1 DEF Follows
      <4>3. j # 1 /\ j # 2 /\ ~(j <= n + 2) /\ (j = n + 3 \/ j = n + 4)
        BY <1>1, <2>2, <3>2
      <4>4. /\ j = n + 3 => j - (n + 2) = 1 /\ j # n + 4
            /\ j = n + 4 => j - (n + 2) = 2 /\ j # n + 3
        BY <1>1
      <4> QED  BY <1>2, <3>1, <4>2, <4>3, <4>4 DEF ArchiveByte
    <3>3. CASE j <= n + 2
      <4>1. e[j] = hd[j]
        BY <1>1, <1>8, <3>3 DEF Follows
      <4>2. CASE j > 2
        <5>1. j - 2 \in 1 .. n /\ 2 + (j - 2) = j
          BY <1>1, <3>3, <4>2
        <5>2. hd[j] = Byte("data", file[j - 2])
          BY <1>3, <1>6, <5>1 DEF Follows
        <5> QED  BY <3>1, <3>3, <4>1, <4>2, <5>2 DEF ArchiveByte
      <4>3. CASE j <= 2
        <5>1. hd[j] = h[j] /\ (j = 1 \/ j = 2)
          BY <1>6, <4>3 DEF Follows
        <5> QED  BY <1>2, <3>1, <4>1, <5>1 DEF ArchiveByte
      <4> QED  BY <4>2, <4>3
    <3> QED  BY <1>1, <3>2, <3>3
  <2> QED  BY <1>1, <2>1, <2>2
<1> QED  BY <1>1, <1>4, <1>10, <1>11, <1>12, <1>13, SMTT(60) DEF ArchiveStart

LEMMA StartNothing ==
    ASSUME NEW file, NEW n
    PROVE  ArchiveStart(<<>>, file, n) /\ Len(<<>>) = 0
<1>1. <<>> \in Seq(Content) /\ Len(<<>>) = 0
  BY EmptySeq
<1> QED  BY <1>1 DEF ArchiveStart

LEMMA StartMore ==
    ASSUME NEW file, NEW n, NEW q, ArchiveStart(q, file, n), NEW bytes \in Seq(Content),
           \A j \in 1 .. Len(bytes) : bytes[j] = ArchiveByte(file, n, Len(q) + j)
    PROVE  ArchiveStart(q \o bytes, file, n) /\ Len(q \o bytes) = Len(q) + Len(bytes)
<1> DEFINE u == q \o bytes
<1>1. q \in Seq(Content) /\ \A j \in 1 .. Len(q) : q[j] = ArchiveByte(file, n, j)
  BY DEF ArchiveStart
<1>2. /\ u \in Seq(Content) /\ Len(q) \in Nat /\ Len(bytes) \in Nat /\ Len(u) = Len(q) + Len(bytes)
      /\ \A j \in 1 .. Len(q) : u[j] = q[j]
      /\ \A j \in 1 .. Len(bytes) : u[Len(q) + j] = bytes[j]
  BY <1>1, Followed
<1> HIDE DEF u
<1>3. ASSUME NEW j \in 1 .. Len(u) PROVE u[j] = ArchiveByte(file, n, j)
  <2>1. CASE j <= Len(q)
    BY <1>1, <1>2, <2>1
  <2>2. CASE ~(j <= Len(q))
    <3>1. j - Len(q) \in 1 .. Len(bytes) /\ Len(q) + (j - Len(q)) = j
      BY <1>2, <2>2
    <3> QED  BY <1>2, <3>1
  <2> QED  BY <2>1, <2>2
<1> QED  BY <1>2, <1>3 DEF ArchiveStart, u

\* What is read later does not change it.
LEMMA StartLonger ==
    ASSUME NEW file \in Seq(Nat), NEW w \in Seq(Nat), NEW n, NEW q, ArchiveStart(q, file, n),
           n \in Nat, Len(file) <= n, Len(q) <= Len(file) + 2
    PROVE  ArchiveStart(q, file \o w, n)
<1> DEFINE f == file \o w
<1>1. Len(file) \in Nat /\ \A j \in 1 .. Len(file) : f[j] = file[j]
  BY Followed
<1>2. q \in Seq(Content) /\ Len(q) \in Nat /\ \A j \in 1 .. Len(q) : q[j] = ArchiveByte(file, n, j)
  BY DEF ArchiveStart
<1> HIDE DEF f
<1>3. ASSUME NEW j \in 1 .. Len(q) PROVE ArchiveByte(f, n, j) = ArchiveByte(file, n, j)
  <2>1. CASE j = 1 \/ j = 2
    BY <2>1 DEF ArchiveByte
  <2>2. CASE j # 1 /\ j # 2
    <3>1. j - 2 \in 1 .. Len(file) /\ j <= n + 2
      BY <1>1, <1>2, <2>2
    <3>2. f[j - 2] = file[j - 2]
      BY <1>1, <3>1
    <3> QED  BY <2>2, <3>1, <3>2 DEF ArchiveByte
  <2> QED  BY <2>1, <2>2
<1> QED  BY <1>2, <1>3 DEF ArchiveStart, f

LEMMA StartWhole ==
    ASSUME NEW file \in Seq(Nat), NEW q, ArchiveStart(q, file, Len(file)),
           Len(q) = Plan(Len(file)).archive_bytes
    PROVE  q = Archive(file)
<1> DEFINE a == Archive(file)
<1>1. q \in Seq(Content) /\ \A j \in 1 .. Len(q) : q[j] = ArchiveByte(file, Len(file), j)
  BY DEF ArchiveStart
<1>2. /\ a \in Seq(Content) /\ Len(a) = Len(q)
      /\ \A j \in 1 .. Len(a) : a[j] = ArchiveByte(file, Len(file), j)
  BY ArchiveIs DEF ArchiveStart
<1> HIDE DEF a
<1>3. \A j \in 1 .. Len(q) : q[j] = a[j]
  BY <1>1, <1>2
<1>4. q = a
  BY <1>1, <1>2, <1>3, SeqEqual
<1> QED  BY <1>4 DEF a

-----------------------------------------------------------------------------
(***************************************************************************)
(* Stored blocks.                                                          *)
(***************************************************************************)

PerBlock == BlockHeaderBytes + DvzipBlock

\* Byte j of the archive q in blocks, an archive that will have total bytes.
StoredByteAt(q, total, j) ==
    LET block == (j - 1) \div PerBlock
        place == (j - 1) % PerBlock
    IN  IF place < BlockHeaderBytes
        THEN BlockHeader(Min({DvzipBlock, total - block * DvzipBlock}), TRUE)[place + 1]
        ELSE q[block * DvzipBlock + place - BlockHeaderBytes + 1]

StoredSize(p) == p + Ceiling(p, DvzipBlock) * BlockHeaderBytes

StoredAs(z, q, total) ==
    /\ z \in Seq(Content) /\ Len(z) = StoredSize(Len(q))
    /\ \A j \in 1 .. Len(z) : z[j] = StoredByteAt(q, total, j)

\* What is left of the block in hand after p bytes.
BlockLeft(p, total) ==
    IF p % DvzipBlock = 0 THEN 0
    ELSE Min({DvzipBlock, total - (p \div DvzipBlock) * DvzipBlock}) - (p % DvzipBlock)

LEMMA BlocksAre ==
    /\ DvzipBlock \in Nat \ {0} /\ PerBlock = DvzipBlock + 2 /\ PerBlock \in Nat \ {0}
    /\ \A k \in Nat : k * PerBlock = k * DvzipBlock + 2 * k
BY ExchangeAssumption DEF PerBlock, BlockHeaderBytes

LEMMA Multiples ==
    ASSUME NEW b \in Nat, NEW k \in Nat, b < k, NEW u \in Nat
    PROVE  b * u + u <= k * u
<1>1. PICK d \in Nat : k = b + 1 + d
  <2>1. k - b - 1 \in Nat /\ k = b + 1 + (k - b - 1)
    OBVIOUS
  <2> QED  BY <2>1
<1>2. (b + 1 + d) * u = b * u + u + d * u
  OBVIOUS
<1>3. d * u \in Nat /\ b * u \in Nat
  OBVIOUS
<1> QED  BY <1>1, <1>2, <1>3

LEMMA CeilingAt ==
    ASSUME NEW u \in Nat \ {0}, NEW k \in Nat, NEW r \in 0 .. u - 1
    PROVE  Ceiling(k * u + r, u) = IF r = 0 THEN k ELSE k + 1
<1>1. CASE r = 0
  <2>1. k * u + r + u - 1 = k * u + (u - 1) /\ u - 1 \in 0 .. u - 1
    BY <1>1
  <2> QED  BY <1>1, <2>1, DivideIs DEF Ceiling
<1>2. CASE r # 0
  <2>1. k * u + r + u - 1 = (k + 1) * u + (r - 1) /\ r - 1 \in 0 .. u - 1 /\ k + 1 \in Nat
    BY <1>2
  <2>2. ((k + 1) * u + (r - 1)) \div u = k + 1
    BY <2>1, DivideIs
  <2> QED  BY <1>2, <2>1, <2>2 DEF Ceiling
<1> QED  BY <1>1, <1>2

LEMMA StoredSizeIs ==
    ASSUME NEW k \in Nat, NEW r \in 0 .. DvzipBlock - 1, NEW p, p = k * DvzipBlock + r
    PROVE  StoredSize(p) = IF r = 0 THEN k * PerBlock ELSE k * PerBlock + r + 2
<1>1. DvzipBlock \in Nat \ {0} /\ k * PerBlock = k * DvzipBlock + 2 * k
  BY BlocksAre
<1>2. Ceiling(p, DvzipBlock) = IF r = 0 THEN k ELSE k + 1
  BY <1>1, CeilingAt
<1> DEFINE x == k * DvzipBlock
<1>3. x \in Nat /\ p = x + r
  BY <1>1
<1> HIDE DEF x
<1>4. k * PerBlock = x + 2 * k
  BY <1>1 DEF x
<1>5. CASE r = 0
  BY <1>2, <1>3, <1>4, <1>5 DEF StoredSize, BlockHeaderBytes
<1>6. CASE r # 0
  BY <1>2, <1>3, <1>4, <1>6 DEF StoredSize, BlockHeaderBytes
<1> QED  BY <1>5, <1>6

LEMMA PlaceIs ==
    ASSUME NEW k \in Nat, NEW m \in 0 .. PerBlock - 1, NEW q, NEW total
    PROVE  StoredByteAt(q, total, k * PerBlock + m + 1) =
             IF m < 2 THEN BlockHeader(Min({DvzipBlock, total - k * DvzipBlock}), TRUE)[m + 1]
             ELSE q[k * DvzipBlock + m - 2 + 1]
<1>1. PerBlock \in Nat \ {0}
  BY BlocksAre
<1>2. (k * PerBlock + m) \div PerBlock = k /\ (k * PerBlock + m) % PerBlock = m
  BY <1>1, DivideIs
<1> DEFINE j == k * PerBlock + m + 1
<1>3. j - 1 = k * PerBlock + m
  BY <1>1
<1>4. (j - 1) \div PerBlock = k /\ (j - 1) % PerBlock = m
  BY <1>2, <1>3
<1> HIDE DEF j
<1>5. StoredByteAt(q, total, j) =
             IF m < 2 THEN BlockHeader(Min({DvzipBlock, total - k * DvzipBlock}), TRUE)[m + 1]
             ELSE q[k * DvzipBlock + m - 2 + 1]
  BY <1>4 DEF StoredByteAt, BlockHeaderBytes
<1> QED  BY <1>5 DEF j

\* The bytes that are there already stay what they are.
LEMMA StoredKept ==
    ASSUME NEW k \in Nat, NEW r \in 0 .. DvzipBlock - 1, NEW q \in Seq(Content),
           Len(q) = k * DvzipBlock + r, NEW b \in Content, NEW total,
           NEW j \in 1 .. StoredSize(Len(q))
    PROVE  StoredByteAt(q \o <<b>>, total, j) = StoredByteAt(q, total, j)
<1> DEFINE n == Len(q)  u == q \o <<b>>
           c == (j - 1) \div PerBlock  m == (j - 1) % PerBlock
<1>1. /\ DvzipBlock \in Nat \ {0} /\ PerBlock = DvzipBlock + 2
      /\ k * PerBlock = k * DvzipBlock + 2 * k
  BY BlocksAre
<1>2. n \in Nat /\ \A i \in 1 .. n : u[i] = q[i]
  <2>1. <<b>> \in Seq(Content)
    OBVIOUS
  <2> QED  BY <2>1, Followed
<1> HIDE DEF u
<1>3. n = k * DvzipBlock + r
  OBVIOUS
<1>4. StoredSize(n) = IF r = 0 THEN k * PerBlock ELSE k * PerBlock + r + 2
  BY <1>3, StoredSizeIs
<1>5. j - 1 \in Nat /\ k * PerBlock \in Nat
  BY <1>1
<1>6. /\ c \in Nat /\ m \in 0 .. PerBlock - 1
      /\ j - 1 = c * PerBlock + m
  <2> DEFINE a == j - 1
  <2>1. a \in Nat /\ PerBlock \in Nat \ {0}
    BY <1>5, BlocksAre
  <2> HIDE DEF a
  <2>2. /\ a \div PerBlock \in Nat /\ a % PerBlock \in 0 .. PerBlock - 1
        /\ a = (a \div PerBlock) * PerBlock + (a % PerBlock)
    BY <2>1, Divided
  <2> QED  BY <2>2 DEF a
<1> HIDE DEF c, m, n
<1>7. c * PerBlock = c * DvzipBlock + 2 * c /\ c * DvzipBlock \in Nat
  BY <1>1, <1>6, BlocksAre
<1>11. StoredSize(n) \in Nat
  BY <1>1, <1>4, <1>5
<1>8. ASSUME m >= 2 PROVE c * DvzipBlock + m - 2 + 1 \in 1 .. n
  <2>1. j <= StoredSize(n)
    BY DEF n
  <2>2. ~(k < c)
    <3>1. ASSUME k < c PROVE FALSE
      <4>1. k * PerBlock + PerBlock <= c * PerBlock
        BY <1>1, <1>6, <3>1, Multiples
      <4>2. StoredSize(n) <= k * PerBlock + DvzipBlock + 1
        BY <1>1, <1>4, <1>5
      <4> QED  BY <1>1, <1>5, <1>6, <1>7, <1>11, <2>1, <4>1, <4>2
    <3> QED  BY <3>1
  <2>3. CASE c < k
    <3>1. c * DvzipBlock + DvzipBlock <= k * DvzipBlock
      BY <1>1, <1>6, <2>3, Multiples
    <3>2. k * DvzipBlock \in Nat
      BY <1>1
    <3> QED  BY <1>1, <1>3, <1>6, <1>7, <1>8, <3>1, <3>2
  <2>4. CASE c = k
    <3> DEFINE x == k * DvzipBlock  y == k * PerBlock
    <3>1. x \in Nat /\ y \in Nat /\ j - 1 = y + m /\ n = x + r
      BY <1>1, <1>3, <1>6, <2>4
    <3>2. StoredSize(n) = IF r = 0 THEN y ELSE y + r + 2
      BY <1>4
    <3>3. c * DvzipBlock = x
      BY <2>4
    <3> HIDE DEF x, y
    <3>4. r # 0
      <4>1. r = 0 => j <= y
        BY <2>1, <3>2
      <4>2. m \in Int /\ m >= 2
        BY <1>1, <1>6, <1>8
      <4> QED  BY <3>1, <4>1, <4>2
    <3>5. m <= r + 1
      <4>1. j <= y + r + 2
        BY <2>1, <3>2, <3>4
      <4>2. m \in Int
        BY <1>1, <1>6
      <4> QED  BY <3>1, <4>1, <4>2
    <3> QED  BY <1>1, <1>6, <1>8, <3>1, <3>3, <3>5
  <2> QED  BY <1>6, <2>2, <2>3, <2>4
<1>9. CASE m < 2
  BY <1>9 DEF StoredByteAt, BlockHeaderBytes, c, m
<1>10. CASE ~(m < 2)
  <2>1. m >= 2
    BY <1>1, <1>6, <1>10
  <2>2. u[c * DvzipBlock + m - 2 + 1] = q[c * DvzipBlock + m - 2 + 1]
    BY <1>2, <1>8, <2>1 DEF n
  <2> QED  BY <1>10, <2>2 DEF StoredByteAt, BlockHeaderBytes, c, m, u
<1> QED  BY <1>9, <1>10

LEMMA StoredSizeNext ==
    ASSUME NEW k \in Nat, NEW r \in 0 .. DvzipBlock - 1, NEW p, p = k * DvzipBlock + r
    PROVE  StoredSize(p + 1) = k * PerBlock + r + 3
<1>1. /\ DvzipBlock \in Nat \ {0} /\ PerBlock = DvzipBlock + 2 /\ PerBlock \in Nat \ {0}
  BY BlocksAre
<1>2. CASE r + 1 < DvzipBlock
  <2>1. r + 1 \in 0 .. DvzipBlock - 1 /\ r + 1 # 0 /\ p + 1 = k * DvzipBlock + (r + 1)
    BY <1>1, <1>2
  <2>2. StoredSize(p + 1) = k * PerBlock + (r + 1) + 2
    BY <2>1, StoredSizeIs
  <2>3. k * PerBlock \in Nat
    BY <1>1
  <2> QED  BY <2>2, <2>3
<1>3. CASE ~(r + 1 < DvzipBlock)
  <2>1. r + 1 = DvzipBlock
    BY <1>1, <1>3
  <2>2. (k + 1) * DvzipBlock = k * DvzipBlock + DvzipBlock /\ (k + 1) * PerBlock = k * PerBlock + PerBlock
    BY <1>1
  <2>3. k + 1 \in Nat /\ 0 \in 0 .. DvzipBlock - 1 /\ p + 1 = (k + 1) * DvzipBlock + 0
    BY <1>1, <2>1, <2>2
  <2>4. StoredSize(p + 1) = (k + 1) * PerBlock
    BY <2>3, StoredSizeIs
  <2>5. k * PerBlock \in Nat
    BY <1>1
  <2> QED  BY <1>1, <2>1, <2>2, <2>4, <2>5
<1> QED  BY <1>2, <1>3

LEMMA LesserIs ==
    ASSUME NEW a \in Nat, NEW b \in Nat
    PROVE  Min({a, b}) = IF a <= b THEN a ELSE b
<1>1. Min({a, b}) \in {a, b} /\ \A j \in {a, b} : Min({a, b}) <= j
  BY LeastFound
<1> QED  BY <1>1

LEMMA BlockLeftIs ==
    ASSUME NEW k \in Nat, NEW r \in 0 .. DvzipBlock - 1, NEW p, p = k * DvzipBlock + r, NEW total
    PROVE  BlockLeft(p, total) = IF r = 0 THEN 0
                                 ELSE Min({DvzipBlock, total - k * DvzipBlock}) - r
<1>1. DvzipBlock \in Nat \ {0}
  BY BlocksAre
<1>2. p \div DvzipBlock = k /\ p % DvzipBlock = r
  BY <1>1, DivideIs
<1> QED  BY <1>2 DEF BlockLeft

\* The size of block k, of which p - k * DvzipBlock bytes are there.
LEMMA BlockSizeIs ==
    ASSUME NEW k \in Nat, NEW r \in 0 .. DvzipBlock - 1, NEW p, p = k * DvzipBlock + r,
           NEW total \in Nat, p < total
    PROVE  /\ p \in Nat /\ total - k * DvzipBlock \in Nat
           /\ Min({DvzipBlock, total - k * DvzipBlock}) \in Nat
           /\ Min({DvzipBlock, total - k * DvzipBlock}) > r
           /\ BlockLeft(p + 1, total) = Min({DvzipBlock, total - k * DvzipBlock}) - r - 1
<1> DEFINE x == k * DvzipBlock  size == Min({DvzipBlock, total - x})
<1>1. DvzipBlock \in Nat \ {0} /\ x \in Nat
  BY BlocksAre
<1>2. p = x + r /\ p \in Nat
  BY <1>1
<1> HIDE DEF x
<1>3. total - x \in Nat /\ total - x > r
  BY <1>1, <1>2
<1>4. size = IF DvzipBlock <= total - x THEN DvzipBlock ELSE total - x
  BY <1>1, <1>3, LesserIs
<1>5. size \in Nat /\ size > r
  BY <1>1, <1>3, <1>4
<1> HIDE DEF size
<1>6. BlockLeft(p + 1, total) = size - r - 1
  <2>1. CASE r + 1 < DvzipBlock
    <3>1. r + 1 \in 0 .. DvzipBlock - 1 /\ r + 1 # 0
      BY <1>1, <2>1
    <3>2. p + 1 = k * DvzipBlock + (r + 1)
      BY <1>1, <1>2 DEF x
    <3>3. BlockLeft(p + 1, total) = size - (r + 1)
      BY <3>1, <3>2, BlockLeftIs DEF size, x
    <3> QED  BY <1>5, <3>3
  <2>2. CASE ~(r + 1 < DvzipBlock)
    <3>1. r + 1 = DvzipBlock
      BY <1>1, <2>2
    <3>2. (k + 1) * DvzipBlock = x + DvzipBlock
      BY <1>1 DEF x
    <3>3. k + 1 \in Nat /\ 0 \in 0 .. DvzipBlock - 1 /\ p + 1 = (k + 1) * DvzipBlock + 0
      BY <1>1, <1>2, <3>1, <3>2
    <3> DEFINE k1 == k + 1  p1 == p + 1
    <3>6. k1 \in Nat /\ 0 \in 0 .. DvzipBlock - 1 /\ p1 = k1 * DvzipBlock + 0
      BY <3>3
    <3> HIDE DEF k1, p1
    <3>7. p1 % DvzipBlock = 0
      BY <1>1, <3>6, DivideIs
    <3>8. BlockLeft(p1, total) = 0
      BY <3>7 DEF BlockLeft
    <3>4. BlockLeft(p + 1, total) = 0
      BY <3>8 DEF p1
    <3>5. size = DvzipBlock
      BY <1>1, <1>3, <1>4, <3>1
    <3> QED  BY <1>1, <3>1, <3>4, <3>5
  <2> QED  BY <2>1, <2>2
<1> QED  BY <1>2, <1>3, <1>5, <1>6 DEF size, x

LEMMA BlockHeaderIs ==
    ASSUME NEW size \in Nat, NEW stored \in BOOLEAN
    PROVE  BlockHeader(size, stored) \in Seq(Content) /\ Len(BlockHeader(size, stored)) = 2
<1>1. Byte("stored", 0) \in Content /\ Byte("zlib", 0) \in Content /\ Byte("bytes", size) \in Content
  BY ContentIs
<1> QED  BY <1>1 DEF BlockHeader

\* The header that is due before the next byte.
Due(h, p, total) ==
    h = IF BlockLeft(p, total) = 0 THEN BlockHeader(Min({total - p, DvzipBlock}), TRUE) ELSE <<>>

\* One more byte.
LEMMA StoredMore ==
    ASSUME NEW q \in Seq(Content), NEW total \in Nat, Len(q) < total, NEW z, StoredAs(z, q, total),
           NEW b \in Content, NEW h, Due(h, Len(q), total)
    PROVE  /\ h \in Seq(Content) /\ StoredAs(z \o h \o <<b>>, q \o <<b>>, total)
           /\ Len(q \o <<b>>) = Len(q) + 1
           /\ BlockLeft(Len(q) + 1, total)
                = (IF BlockLeft(Len(q), total) # 0 THEN BlockLeft(Len(q), total)
                   ELSE Min({total - Len(q), DvzipBlock})) - 1
<1> DEFINE p == Len(q)  k == p \div DvzipBlock  r == p % DvzipBlock
           x == k * DvzipBlock  y == k * PerBlock
           size == Min({DvzipBlock, total - x})
           u == q \o <<b>>  zh == z \o h  t == zh \o <<b>>
<1>1. p \in Nat /\ DvzipBlock \in Nat \ {0} /\ PerBlock = DvzipBlock + 2 /\ PerBlock \in Nat \ {0}
  BY BlocksAre
<1>2. k \in Nat /\ r \in 0 .. DvzipBlock - 1 /\ p = x + r
  BY <1>1, Divided
<1> HIDE DEF p, k, r
<1>3. x \in Nat /\ y \in Nat /\ y = x + 2 * k
  BY <1>1, <1>2, BlocksAre
<1>4. p < total
  BY DEF p
<1>5. /\ total - x \in Nat /\ size \in Nat /\ size > r
      /\ BlockLeft(p + 1, total) = size - r - 1
  BY <1>2, <1>4, BlockSizeIs
<1>6. BlockLeft(p, total) = IF r = 0 THEN 0 ELSE size - r
  BY <1>2, BlockLeftIs, ZenonT(60)
<1>7. StoredSize(p) = IF r = 0 THEN y ELSE y + r + 2
  BY <1>2, StoredSizeIs
<1>8. StoredSize(p + 1) = y + r + 3
  BY <1>2, StoredSizeNext
<1>9. /\ u \in Seq(Content) /\ Len(u) = p + 1 /\ u[p + 1] = b
      /\ \A i \in 1 .. p : u[i] = q[i]
  <2>1. <<b>> \in Seq(Content) /\ Len(<<b>>) = 1 /\ <<b>>[1] = b
    OBVIOUS
  <2>2. /\ u \in Seq(Content) /\ Len(u) = p + Len(<<b>>)
        /\ \A j \in 1 .. p : u[j] = q[j]
        /\ \A j \in 1 .. Len(<<b>>) : u[p + j] = <<b>>[j]
    BY <2>1, Followed DEF p
  <2> HIDE DEF u
  <2> QED  BY <2>1, <2>2
<1>10. r = 0 => size = Min({total - p, DvzipBlock})
  <2>1. r = 0 => total - p = total - x /\ {total - p, DvzipBlock} = {DvzipBlock, total - x}
    BY <1>1, <1>2, <1>3
  <2> QED  BY <2>1
<1>11. h = IF r = 0 THEN BlockHeader(size, TRUE) ELSE <<>>
  <2>1. h = IF BlockLeft(p, total) = 0 THEN BlockHeader(Min({total - p, DvzipBlock}), TRUE) ELSE <<>>
    BY DEF p, Due
  <2> HIDE DEF size
  <2>2. CASE r = 0
    BY <1>6, <1>10, <2>1, <2>2
  <2>3. CASE r # 0
    <3>1. BlockLeft(p, total) = size - r /\ size - r # 0
      BY <1>2, <1>5, <1>6, <2>3
    <3> QED  BY <2>1, <2>3, <3>1
  <2> QED  BY <2>2, <2>3
<1>12. h \in Seq(Content) /\ Len(h) = IF r = 0 THEN 2 ELSE 0
  BY <1>5, <1>11, BlockHeaderIs, EmptySeq
<1>13. z \in Seq(Content) /\ Len(z) = StoredSize(p) /\ \A j \in 1 .. Len(z) : z[j] = StoredByteAt(q, total, j)
  BY DEF StoredAs, p
<1> HIDE DEF size, x, y
<1>14. /\ zh \in Seq(Content) /\ Len(zh) = y + r + 2
       /\ \A j \in 1 .. Len(z) : zh[j] = z[j]
       /\ \A j \in 1 .. Len(h) : zh[Len(z) + j] = h[j]
  <2>1. /\ zh \in Seq(Content) /\ Len(zh) = Len(z) + Len(h)
        /\ \A j \in 1 .. Len(z) : zh[j] = z[j]
        /\ \A j \in 1 .. Len(h) : zh[Len(z) + j] = h[j]
    <3>1. z \in Seq(Content) /\ h \in Seq(Content)
      BY <1>12, <1>13
    <3> QED  BY <3>1, Followed
  <2>2. Len(z) + Len(h) = y + r + 2
    <3>1. CASE r = 0
      <4>1. Len(z) = y /\ Len(h) = 2
        BY <1>7, <1>12, <1>13, <3>1
      <4> QED  BY <1>3, <3>1, <4>1
    <3>2. CASE r # 0
      <4>1. Len(z) = y + r + 2 /\ Len(h) = 0
        BY <1>7, <1>12, <1>13, <3>2
      <4> QED  BY <1>2, <1>3, <4>1
    <3> QED  BY <3>1, <3>2
  <2> QED  BY <2>1, <2>2
<1> HIDE DEF zh
<1>15. /\ t \in Seq(Content) /\ Len(t) = y + r + 3 /\ t[y + r + 3] = b
       /\ \A j \in 1 .. y + r + 2 : t[j] = zh[j]
  <2>1. <<b>> \in Seq(Content) /\ Len(<<b>>) = 1 /\ <<b>>[1] = b
    OBVIOUS
  <2>2. /\ t \in Seq(Content) /\ Len(t) = Len(zh) + Len(<<b>>)
        /\ \A j \in 1 .. Len(zh) : t[j] = zh[j]
        /\ \A j \in 1 .. Len(<<b>>) : t[Len(zh) + j] = <<b>>[j]
    BY <1>14, <2>1, Followed
  <2>3. y + r + 2 + 1 = y + r + 3 /\ 1 \in 1 .. Len(<<b>>) /\ Len(zh) + 1 = y + r + 3
    BY <1>2, <1>3, <1>14, <2>1
  <2> HIDE DEF t
  <2> QED  BY <1>14, <2>1, <2>2, <2>3
<1> HIDE DEF t, u
<1>16. \A j \in 1 .. Len(z) : t[j] = StoredByteAt(u, total, j)
  <2>1. \A j \in 1 .. Len(z) : j \in 1 .. y + r + 2 /\ j \in 1 .. StoredSize(p)
    BY <1>2, <1>3, <1>7, <1>13
  <2>2. \A j \in 1 .. StoredSize(p) : StoredByteAt(u, total, j) = StoredByteAt(q, total, j)
    BY <1>2, StoredKept DEF p, u, x
  <2> QED  BY <1>13, <1>14, <1>15, <2>1, <2>2
<1>17. t[y + r + 3] = StoredByteAt(u, total, y + r + 3)
  <2>1. r + 2 \in 0 .. PerBlock - 1 /\ ~(r + 2 < 2) /\ y + r + 3 = y + (r + 2) + 1
        /\ x + (r + 2) - 2 + 1 = p + 1
    BY <1>1, <1>2, <1>3
  <2>2. StoredByteAt(u, total, y + (r + 2) + 1) = u[x + (r + 2) - 2 + 1]
    BY <1>2, <2>1, PlaceIs DEF y, x
  <2> QED  BY <1>9, <1>15, <2>1, <2>2
<1>18. r = 0 => \A m \in {0, 1} : t[y + m + 1] = StoredByteAt(u, total, y + m + 1)
  <2>1. SUFFICES ASSUME r = 0, NEW m \in {0, 1} PROVE t[y + m + 1] = StoredByteAt(u, total, y + m + 1)
    OBVIOUS
  <2>2. m \in 0 .. PerBlock - 1 /\ m < 2 /\ m + 1 \in 1 .. Len(h) /\ y + m + 1 \in 1 .. y + r + 2
        /\ Len(z) + (m + 1) = y + m + 1
    <3>1. Len(z) = y /\ Len(h) = 2
      BY <1>7, <1>12, <1>13, <2>1
    <3>2. m = 0 \/ m = 1
      BY <2>1
    <3> QED  BY <1>1, <1>3, <2>1, <3>1, <3>2
  <2>3. StoredByteAt(u, total, y + m + 1) = BlockHeader(size, TRUE)[m + 1]
    BY <1>2, <2>2, PlaceIs, ZenonT(60) DEF y, x, size
  <2>4. t[y + m + 1] = h[m + 1]
    BY <1>14, <1>15, <2>2, SMTT(60)
  <2> QED  BY <1>11, <2>1, <2>3, <2>4
<1>19. StoredAs(t, u, total)
  <2>1. ASSUME NEW j \in 1 .. Len(t) PROVE t[j] = StoredByteAt(u, total, j)
    <3>1. j <= Len(z) \/ j = y + r + 3 \/ (r = 0 /\ (j = y + 0 + 1 \/ j = y + 1 + 1))
      BY <1>2, <1>3, <1>7, <1>13, <1>15
    <3>2. j <= Len(z) => j \in 1 .. Len(z)
      <4>1. Len(z) \in Nat
        BY <1>13
      <4> QED  BY <4>1
    <3> QED  BY <1>16, <1>17, <1>18, <3>1, <3>2
  <2> QED  BY <1>8, <1>9, <1>15, <2>1 DEF StoredAs
<1>20. BlockLeft(p + 1, total) = (IF BlockLeft(p, total) # 0 THEN BlockLeft(p, total)
                   ELSE Min({total - p, DvzipBlock})) - 1
  BY <1>2, <1>5, <1>6, <1>10
<1> QED  BY <1>9, <1>12, <1>19, <1>20 DEF t, zh, u, p

\* After the bytes w.out the stream z has become the blocks of q.
Emitted(w, z, q, total) ==
    /\ w.out \in Seq(Content) /\ w.left = total - Len(q) /\ w.block = BlockLeft(Len(q), total)
    /\ StoredAs(z \o w.out, q, total)

LEMMA ByteStored ==
    ASSUME NEW z \in Seq(Content), NEW q \in Seq(Content), NEW total \in Nat, Len(q) < total,
           NEW w, Emitted(w, z, q, total), NEW b \in Content
    PROVE  Emitted(StoredByte(w, b), z, q \o <<b>>, total)
<1> DEFINE p == Len(q)  v == StoredByte(w, b)  left == BlockLeft(p, total)
           h == IF left = 0 THEN BlockHeader(Min({total - p, DvzipBlock}), TRUE) ELSE <<>>
           o == w.out
<1>1. o \in Seq(Content) /\ w.left = total - p /\ w.block = left /\ StoredAs(z \o o, q, total)
  BY DEF Emitted
<1>2. Due(h, p, total)
  BY DEF Due
<1>3. /\ v.out = o \o h \o <<b>> /\ v.left = total - p - 1
      /\ v.block = (IF left # 0 THEN left ELSE Min({total - p, DvzipBlock})) - 1
  BY <1>1 DEF StoredByte
<1> HIDE DEF h, o, v
<1>4. /\ h \in Seq(Content) /\ StoredAs((z \o o) \o h \o <<b>>, q \o <<b>>, total)
      /\ Len(q \o <<b>>) = p + 1
      /\ BlockLeft(p + 1, total) = (IF left # 0 THEN left ELSE Min({total - p, DvzipBlock})) - 1
  BY <1>1, <1>2, StoredMore
<1>5. (z \o o) \o h \o <<b>> = z \o (o \o h \o <<b>>) /\ o \o h \o <<b>> \in Seq(Content)
  <2> DEFINE c == <<b>>
  <2>1. c \in Seq(Content)
    OBVIOUS
  <2> HIDE DEF c
  <2>2. (z \o o) \o h = z \o (o \o h) /\ o \o h \in Seq(Content)
    <3>1. o \in Seq(Content) /\ h \in Seq(Content)
      BY <1>1, <1>4
    <3>2. (z \o o) \o h = z \o (o \o h)
      <4>1. Grouped(z, o, h)
        BY <3>1, Regrouped
      <4> QED  BY <4>1 DEF Grouped
    <3>3. o \o h \in Seq(Content)
      BY <3>1, Followed
    <3> QED  BY <3>2, <3>3
  <2>3. (z \o (o \o h)) \o c = z \o ((o \o h) \o c) /\ (o \o h) \o c \in Seq(Content)
    <3> DEFINE d == o \o h
    <3>1. d \in Seq(Content)
      BY <2>2
    <3> HIDE DEF d
    <3>2. (z \o d) \o c = z \o (d \o c)
      <4>1. Grouped(z, d, c)
        BY <2>1, <3>1, Regrouped
      <4> QED  BY <4>1 DEF Grouped
    <3>3. d \o c \in Seq(Content)
      BY <2>1, <3>1, Followed
    <3> QED  BY <3>2, <3>3 DEF d
  <2> QED  BY <2>2, <2>3 DEF c
<1>6. total - p - 1 = total - (p + 1)
  <2>1. p \in Nat
    OBVIOUS
  <2> QED  BY <2>1
<1> QED  BY <1>3, <1>4, <1>5, <1>6 DEF Emitted, v

\* All that a loop round can come to, whatever is given to it.
Rough == [out : Seq(Content \cup ({"bytes"} \X Int)), left : Int, block : Int]

LEMMA RoughStored ==
    ASSUME NEW w \in Rough, NEW b \in Content
    PROVE  StoredByte(w, b) \in Rough
<1> DEFINE S == Content \cup ({"bytes"} \X Int)
           size == IF w.block # 0 THEN w.block ELSE Min({w.left, DvzipBlock})
           h == IF w.block = 0 THEN BlockHeader(size, TRUE) ELSE <<>>
           o == w.out
<1>1. o \in Seq(S) /\ w.left \in Int /\ w.block \in Int
  BY DEF Rough
<1>2. Min({w.left, DvzipBlock}) \in Int
  <2>1. DvzipBlock \in Int
    BY ExchangeAssumption
  <2> DEFINE m == IF w.left <= DvzipBlock THEN w.left ELSE DvzipBlock
  <2>2. m \in {w.left, DvzipBlock} /\ \A j \in {w.left, DvzipBlock} : m <= j
    BY <1>1, <2>1
  <2>3. Min({w.left, DvzipBlock}) \in {w.left, DvzipBlock}
    BY <2>2 DEF Min
  <2> QED  BY <1>1, <2>1, <2>3
<1>3. size \in Int
  BY <1>1, <1>2
<1> HIDE DEF size
<1>4. h \in Seq(S)
  <2>1. Byte("stored", 0) \in S /\ Byte("bytes", size) \in S
    BY <1>3, ContentIs DEF Byte
  <2> HIDE DEF S
  <2>2. BlockHeader(size, TRUE) \in Seq(S)
    BY <2>1 DEF BlockHeader
  <2> QED  BY <2>2, EmptySeq
<1>5. b \in S
  OBVIOUS
<1>6. StoredByte(w, b) = [out |-> o \o h \o <<b>>, left |-> w.left - 1, block |-> size - 1]
  BY DEF StoredByte, size
<1> HIDE DEF S, h, o
<1>7. <<b>> \in Seq(S)
  BY <1>5
<1>8. o \o h \o <<b>> \in Seq(S)
  BY <1>1, <1>4, <1>7, ConcatProperties
<1>9. w.left - 1 \in Int /\ size - 1 \in Int
  BY <1>1, <1>3
<1> QED  BY <1>6, <1>8, <1>9 DEF Rough, S

LEMMA StoredEmits ==
    ASSUME NEW z \in Seq(Content), NEW q \in Seq(Content), NEW total \in Nat,
           StoredAs(z, q, total), NEW bytes \in Seq(Content), Len(q) + Len(bytes) <= total
    PROVE  Emitted(write_stored_archive_bytes(bytes, total - Len(q), BlockLeft(Len(q), total)),
                   z, q \o bytes, total)
<1> DEFINE n == Len(bytes)  p == Len(q)
           init == [out |-> <<>>, left |-> total - p, block |-> BlockLeft(p, total)]
           round == [i \in 1 .. n |-> [w \in Rough |-> StoredByte(w, bytes[i])]]
           written == CHOOSE f : f = [i \in 0 .. n |->
                        IF i = 0 THEN init ELSE StoredByte(f[i - 1], bytes[i])]
<1>1. n \in Nat /\ p \in Nat /\ \A i \in 1 .. n : bytes[i] \in Content
  OBVIOUS
<1>2. BlockLeft(p, total) \in Int
  <2> DEFINE k == p \div DvzipBlock  r == p % DvzipBlock
  <2>1. k \in Nat /\ r \in 0 .. DvzipBlock - 1 /\ p = k * DvzipBlock + r
    BY <1>1, BlocksAre, Divided
  <2> HIDE DEF k, r, p
  <2>2. BlockLeft(p, total) = IF r = 0 THEN 0 ELSE Min({DvzipBlock, total - k * DvzipBlock}) - r
    BY <2>1, BlockLeftIs, ZenonT(60)
  <2>3. Min({DvzipBlock, total - k * DvzipBlock}) \in Nat
    <3>1. total - k * DvzipBlock \in Nat
      <4>1. k * DvzipBlock \in Nat /\ p <= total /\ r \in Nat
        BY <1>1, <2>1, BlocksAre DEF p
      <4> QED  BY <2>1, <4>1
    <3> QED  BY <3>1, BlocksAre, LesserIs
  <2> QED  BY <2>1, <2>2, <2>3
<1>3. init \in Rough
  BY <1>1, <1>2, EmptySeq DEF Rough
<1>4. Rounds(round, n, Rough)
  <2>1. \A i \in 1 .. n : \A w \in Rough : StoredByte(w, bytes[i]) \in Rough
    BY <1>1, RoughStored
  <2> QED  BY <2>1 DEF Rounds
<1>5. \A i \in 1 .. n : \A w \in Rough : round[i][w] = StoredByte(w, bytes[i])
  OBVIOUS
<1> HIDE DEF n, round, init, p
<1>6. PICK f : Runs(f, n, Rough, init, round)
  BY <1>1, <1>3, <1>4, LoopRuns
<1>7. f = [i \in 0 .. n |-> IF i = 0 THEN init ELSE StoredByte(f[i - 1], bytes[i])]
  <2>1. f \in [0 .. n -> Rough] /\ f[0] = init
    BY <1>6 DEF Runs
  <2>2. ASSUME NEW i \in 0 .. n
        PROVE  f[i] = IF i = 0 THEN init ELSE StoredByte(f[i - 1], bytes[i])
    <3>1. CASE i = 0
      BY <2>1, <3>1
    <3>2. CASE i # 0
      <4>1. i \in 1 .. n /\ i - 1 \in 0 .. n
        BY <1>1, <3>2
      <4>2. f[i] = round[i][f[i - 1]] /\ f[i - 1] \in Rough
        BY <1>6, <2>1, <4>1 DEF Runs
      <4> QED  BY <1>5, <3>2, <4>1, <4>2
    <3> QED  BY <3>1, <3>2
  <2> QED  BY <2>1, <2>2
<1>8. written = [i \in 0 .. n |-> IF i = 0 THEN init ELSE StoredByte(written[i - 1], bytes[i])]
  BY <1>7
<1>9. write_stored_archive_bytes(bytes, total - p, BlockLeft(p, total)) = written[n]
  BY DEF write_stored_archive_bytes, n, init
<1> HIDE DEF written
<1> DEFINE Done == {i \in 0 .. n : Emitted(written[i], z, q \o SubSeq(bytes, 1, i), total)}
<1>10. n \in Done
  <2>1. 0 \in Done
    <3>1. 0 \in 0 .. n /\ written[0] = init
      BY <1>1, <1>8
    <3>2. SubSeq(bytes, 1, 0) = <<>> /\ q \o <<>> = q /\ z \o <<>> = z
      BY SubSeqEmpty, ConcatEmptySeq
    <3>3. Emitted(init, z, q, total)
      BY <3>2, EmptySeq DEF Emitted, init, p
    <3> QED  BY <3>1, <3>2, <3>3
  <2>2. ASSUME NEW i \in 1 .. n, i - 1 \in Done PROVE i \in Done
    <3> DEFINE s == SubSeq(bytes, 1, i - 1)  u == q \o s
    <3>1. i \in 0 .. n /\ i # 0 /\ i \in Nat
      BY <1>1
    <3>2. written[i] = StoredByte(written[i - 1], bytes[i])
      BY <1>8, <3>1
    <3>3. s \in Seq(Content) /\ Len(s) = i - 1
      <4>1. 1 \in Int /\ i - 1 \in Int /\ \A j \in 1 .. i - 1 : bytes[j] \in Content
        BY <1>1, <3>1
      <4>2. s \in Seq(Content) /\ Len(s) = IF 1 <= i - 1 THEN i - 1 - 1 + 1 ELSE 0
        BY <4>1, SubSeqProperties
      <4> QED  BY <3>1, <4>2
    <3>4. SubSeq(bytes, 1, i) = s \o <<bytes[i]>>
      <4>1. 1 \in 1 .. Len(bytes) /\ i \in 1 .. Len(bytes)
        BY <1>1, <3>1 DEF n
      <4> QED  BY <4>1, SubSeqRecursiveSecond
    <3> HIDE DEF s
    <3>5. u \in Seq(Content) /\ Len(u) = p + (i - 1)
      BY <3>3, ConcatProperties DEF p
    <3>6. q \o SubSeq(bytes, 1, i) = u \o <<bytes[i]>>
      <4> DEFINE c == <<bytes[i]>>
      <4>1. c \in Seq(Content)
        BY <1>1
      <4> HIDE DEF c
      <4>2. (q \o s) \o c = q \o (s \o c)
        <5>1. Grouped(q, s, c)
          BY <3>3, <4>1, Regrouped
        <5> QED  BY <5>1 DEF Grouped
      <4> QED  BY <3>4, <4>2 DEF c
    <3>7. Emitted(written[i - 1], z, u, total)
      BY <2>2 DEF s
    <3> HIDE DEF u
    <3>8. Len(u) < total
      BY <1>1, <3>1, <3>5 DEF n, p
    <3>9. bytes[i] \in Content
      BY <1>1
    <3>10. Emitted(StoredByte(written[i - 1], bytes[i]), z, u \o <<bytes[i]>>, total)
      BY <3>5, <3>7, <3>8, <3>9, ByteStored
    <3> QED  BY <3>1, <3>2, <3>6, <3>10
  <2> HIDE DEF Done
  <2> QED  BY <1>1, <2>1, <2>2, UpTo
<1>11. SubSeq(bytes, 1, n) = bytes
  BY SubSeqFull DEF n
<1> QED  BY <1>9, <1>10, <1>11 DEF p

LEMMA StoredNothing ==
    ASSUME NEW total
    PROVE  StoredAs(<<>>, <<>>, total) /\ BlockLeft(0, total) = 0
<1>1. DvzipBlock \in Nat \ {0} /\ 0 \in 0 .. DvzipBlock - 1 /\ 0 \in Nat
  BY BlocksAre
<1>2. 0 * DvzipBlock + 0 = 0 /\ 0 * PerBlock = 0
  BY <1>1, BlocksAre
<1>3. StoredSize(0) = 0 /\ BlockLeft(0, total) = 0
  <2> DEFINE none == 0
  <2>1. /\ none \in Nat /\ none \in 0 .. DvzipBlock - 1 /\ none = none * DvzipBlock + none
        /\ none = 0 /\ none * PerBlock = 0
    BY <1>1, <1>2
  <2> HIDE DEF none
  <2>2. StoredSize(none) = (IF none = 0 THEN none * PerBlock ELSE none * PerBlock + none + 2)
    BY <2>1, StoredSizeIs
  <2>3. BlockLeft(none, total) = 0
    <3>1. (none * DvzipBlock + none) % DvzipBlock = none
      BY <1>1, <2>1, DivideIs
    <3>2. none % DvzipBlock = 0
      BY <2>1, <3>1
    <3> QED  BY <3>2 DEF BlockLeft
  <2> QED  BY <2>1, <2>2, <2>3
<1>4. <<>> \in Seq(Content) /\ Len(<<>>) = 0
  BY EmptySeq
<1> QED  BY <1>3, <1>4 DEF StoredAs

LEMMA StoredWhole ==
    ASSUME NEW archive \in Seq(Content), NEW z, StoredAs(z, archive, Len(archive))
    PROVE  z = StoredBlocks(archive)
<1> DEFINE n == Len(archive) + Ceiling(Len(archive), DvzipBlock) * BlockHeaderBytes
<1>1. z \in Seq(Content) /\ Len(z) = n /\ \A j \in 1 .. n : z[j] = StoredByteAt(archive, Len(archive), j)
  BY DEF StoredAs, StoredSize
<1> HIDE DEF n
<1>2. z = [j \in 1 .. n |-> z[j]]
  BY <1>1
<1>3. z = [j \in 1 .. n |-> StoredByteAt(archive, Len(archive), j)]
  BY <1>1, <1>2
<1>4. StoredBlocks(archive) = [j \in 1 .. n |-> StoredByteAt(archive, Len(archive), j)]
  BY DEF StoredBlocks, StoredByteAt, PerBlock, n
<1> QED  BY <1>3, <1>4

-----------------------------------------------------------------------------
(***************************************************************************)
(* What a request on the wire amounts to.                                  *)
(***************************************************************************)

\* The request m announces n bytes and so far gives a receiver the bytes body.
Sending(m, n, body) ==
    /\ n \in Nat /\ body \in Seq(WireBytes)
    /\ \E c \in Seq(WireBytes) : /\ m = UploadHead(n) \o c /\ IsChunked(c)
                                 /\ Dechunked(c) = body

LEMMA HeadSent ==
    ASSUME NEW n \in Nat
    PROVE  UploadHead(n) \in Seq(WireBytes) /\ Len(UploadHead(n)) = 1
           /\ UploadHead(n)[1] = Byte("head", n) /\ Sending(UploadHead(n), n, <<>>)
<1>1. /\ UploadHead(n) \in Seq(WireBytes) /\ Len(UploadHead(n)) = 1
      /\ UploadHead(n)[1] = Byte("head", n)
  BY WireIs DEF UploadHead
<1>2. UploadHead(n) \o <<>> = UploadHead(n) /\ <<>> \in Seq(WireBytes)
  BY <1>1, ConcatEmptySeq, EmptySeq
<1> QED  BY <1>1, <1>2, DechunkedNothing DEF Sending

LEMMA SentTypes ==
    ASSUME NEW m, NEW n, NEW body, Sending(m, n, body)
    PROVE  m \in Seq(WireBytes) /\ Len(m) >= 1 /\ m[1] = Byte("head", n)
<1>1. PICK c \in Seq(WireBytes) : m = UploadHead(n) \o c
  BY DEF Sending
<1>2. n \in Nat
  BY DEF Sending
<1>3. UploadHead(n) \in Seq(WireBytes) /\ Len(UploadHead(n)) = 1 /\ UploadHead(n)[1] = Byte("head", n)
  BY <1>2, HeadSent
<1> DEFINE h == UploadHead(n)
<1> HIDE DEF h
<1>4. /\ h \o c \in Seq(WireBytes) /\ Len(h \o c) = Len(h) + Len(c) /\ Len(c) \in Nat
      /\ \A j \in 1 .. Len(h) : (h \o c)[j] = h[j]
  BY <1>3, Followed DEF h
<1>5. Len(h) = 1 /\ h[1] = Byte("head", n) /\ m = h \o c
  BY <1>1, <1>3 DEF h
<1> HIDE DEF h
<1> QED  BY <1>4, <1>5

LEMMA SentMore ==
    ASSUME NEW m, NEW n, NEW body, Sending(m, n, body), NEW b \in Seq(WireBytes)
    PROVE  Sending(m \o Chunk(b), n, body \o b)
<1>1. CASE b = <<>>
  <2>1. Chunk(b) = <<>> /\ m \in Seq(WireBytes) /\ body \in Seq(WireBytes)
    BY <1>1, SentTypes DEF Chunk, Sending
  <2>2. m \o <<>> = m /\ body \o <<>> = body
    BY <2>1, ConcatEmptySeq
  <2> QED  BY <1>1, <2>1, <2>2
<1>2. CASE b # <<>>
  <2>1. PICK c \in Seq(WireBytes) : m = UploadHead(n) \o c /\ IsChunked(c) /\ Dechunked(c) = body
    BY DEF Sending
  <2> DEFINE d == Chunk(b)  h == UploadHead(n)  t == c \o d
  <2>2. d \in Seq(WireBytes)
    BY <1>2, SentChunkIs
  <2>3. Extended(t, c, b)
    BY <1>2, ChunkExtends
  <2>4. IsChunked(t) /\ Dechunked(t) = body \o b
    BY <1>2, <2>1, <2>3, DechunkedMore
  <2>5. n \in Nat /\ body \in Seq(WireBytes)
    BY DEF Sending
  <2>6. h \in Seq(WireBytes)
    BY <2>5, HeadSent
  <2> HIDE DEF d, h
  <2>7. (h \o c) \o d = h \o t /\ t \in Seq(WireBytes)
    <3>1. Grouped(h, c, d)
      BY <2>1, <2>2, <2>6, Regrouped
    <3>2. c \o d \in Seq(WireBytes)
      BY <2>1, <2>2, Followed
    <3> QED  BY <3>1, <3>2 DEF Grouped
  <2>8. body \o b \in Seq(WireBytes)
    BY <2>5, ConcatProperties
  <2>9. m \o d = h \o t
    BY <2>1, <2>7 DEF h
  <2> HIDE DEF t
  <2> QED  BY <2>4, <2>5, <2>7, <2>8, <2>9 DEF Sending, d, h
<1> QED  BY <1>1, <1>2

Ended(l, m) == l = m \o Terminator

\* A request that is written to its end, as a receiver reads it.
LEMMA SentRead ==
    ASSUME NEW m, NEW n, NEW body, Sending(m, n, body), NEW l, Ended(l, m)
    PROVE  /\ Dechunked(SubSeq(l, 2, Len(l) - 1)) = body /\ Value(l[1]) = n
           /\ l # <<>> /\ Last(l) = Byte("end", 0)
<1> DEFINE S == WireBytes \cup {Terminator[1]}
<1>1. PICK c \in Seq(WireBytes) : m = UploadHead(n) \o c /\ Dechunked(c) = body
  BY DEF Sending
<1>2. n \in Nat
  BY DEF Sending
<1> DEFINE h == UploadHead(n)  t == Terminator
<1>3. h \in Seq(WireBytes) /\ Len(h) = 1 /\ h[1] = Byte("head", n)
  BY <1>2, HeadSent
<1>4. t \in Seq(S) /\ Len(t) = 1 /\ t[1] = Byte("end", 0)
  BY DEF Terminator
<1>5. h \in Seq(S) /\ c \in Seq(S)
  <2>1. WireBytes \subseteq S
    OBVIOUS
  <2> HIDE DEF S, h
  <2> QED  BY <1>3, <2>1, SeqMonotonic
<1> HIDE DEF h, t, S
<1>6. /\ h \o c \in Seq(S) /\ Len(c) \in Nat /\ Len(h \o c) = 1 + Len(c)
      /\ \A j \in 1 .. 1 : (h \o c)[j] = h[j]
      /\ \A j \in 1 .. Len(c) : (h \o c)[1 + j] = c[j]
  <2>1. /\ h \o c \in Seq(S) /\ Len(c) \in Nat /\ Len(h \o c) = Len(h) + Len(c)
        /\ \A j \in 1 .. Len(h) : (h \o c)[j] = h[j]
        /\ \A j \in 1 .. Len(c) : (h \o c)[Len(h) + j] = c[j]
    BY <1>5, Followed
  <2> QED  BY <1>3, <2>1
<1> DEFINE u == h \o c
<1> HIDE DEF u
<1>7. /\ u \o t \in Seq(S) /\ Len(u \o t) = 1 + Len(c) + 1
      /\ \A j \in 1 .. 1 + Len(c) : (u \o t)[j] = u[j]
      /\ \A j \in 1 .. 1 : (u \o t)[1 + Len(c) + j] = t[j]
  <2>1. u \in Seq(S) /\ Len(u) = 1 + Len(c)
    BY <1>6 DEF u
  <2>3. u \in Seq(S) /\ t \in Seq(S)
    BY <1>4, <2>1
  <2>2. /\ u \o t \in Seq(S) /\ Len(u \o t) = Len(u) + Len(t)
        /\ \A j \in 1 .. Len(u) : (u \o t)[j] = u[j]
        /\ \A j \in 1 .. Len(t) : (u \o t)[Len(u) + j] = t[j]
    BY <2>3, Followed
  <2> QED  BY <1>4, <2>1, <2>2
<1>8. l = u \o t
  BY <1>1 DEF u, h, t, Ended
<1>9. /\ Len(l) = Len(c) + 2 /\ l \in Seq(S) /\ l[1] = Byte("head", n) /\ l[Len(c) + 2] = Byte("end", 0)
      /\ \A j \in 1 .. Len(c) : l[1 + j] = c[j]
  <2>1. l \in Seq(S) /\ Len(l) = Len(c) + 2
    BY <1>6, <1>7, <1>8
  <2>2. l[1] = h[1]
    <3>1. 1 \in 1 .. 1 /\ 1 \in 1 .. 1 + Len(c)
      BY <1>6
    <3> QED  BY <1>6, <1>7, <1>8, <3>1 DEF u
  <2>3. l[Len(c) + 2] = t[1]
    <3>1. 1 \in 1 .. 1 /\ 1 + Len(c) + 1 = Len(c) + 2
      BY <1>6
    <3> QED  BY <1>7, <1>8, <3>1
  <2>4. \A j \in 1 .. Len(c) : l[1 + j] = c[j]
    <3>1. \A j \in 1 .. Len(c) : 1 + j \in 1 .. 1 + Len(c)
      BY <1>6
    <3> QED  BY <1>6, <1>7, <1>8, <3>1 DEF u
  <2> QED  BY <1>3, <1>4, <2>1, <2>2, <2>3, <2>4
<1>10. SubSeq(l, 2, Len(l) - 1) = c
  <2> DEFINE v == SubSeq(l, 2, Len(c) + 1)
  <2>1. \A i \in 2 .. Len(c) + 1 : l[i] = c[i - 1] /\ c[i - 1] \in WireBytes
    <3> TAKE i \in 2 .. Len(c) + 1
    <3>1. i - 1 \in 1 .. Len(c) /\ 1 + (i - 1) = i
      BY <1>6
    <3>2. l[1 + (i - 1)] = c[i - 1]
      BY <1>9, <3>1
    <3> QED  BY <3>1, <3>2
  <2>2. 2 \in Int /\ Len(c) + 1 \in Int /\ Len(c) + 1 - 2 + 1 = Len(c)
    BY <1>6
  <2>3. /\ v \in Seq(WireBytes) /\ Len(v) = IF 2 <= Len(c) + 1 THEN Len(c) + 1 - 2 + 1 ELSE 0
        /\ \A i \in 1 .. Len(c) + 1 - 2 + 1 : v[i] = l[2 + i - 1]
    <3>1. \A i \in 2 .. Len(c) + 1 : l[i] \in WireBytes
      BY <2>1
    <3> QED  BY <2>2, <3>1, SubSeqProperties
  <2> HIDE DEF v
  <2>4. Len(v) = Len(c)
    BY <1>6, <2>2, <2>3
  <2>5. \A i \in 1 .. Len(c) : v[i] = c[i]
    <3>1. \A i \in 1 .. Len(c) : 2 + i - 1 = 1 + i
      BY <1>6
    <3> QED  BY <1>9, <2>2, <2>3, <3>1
  <2>6. v = c
    BY <2>3, <2>4, <2>5, SeqEqual
  <2>7. Len(l) - 1 = Len(c) + 1
    BY <1>6, <1>9
  <2> QED  BY <2>6, <2>7 DEF v
<1>11. l # <<>> /\ Last(l) = Byte("end", 0)
  BY <1>6, <1>9, EmptySeq DEF Last
<1>12. Value(l[1]) = n
  BY <1>9 DEF Value, Byte
<1> QED  BY <1>1, <1>10, <1>11, <1>12

\* A part of it that was written does not end like that.
LEMMA NotTheEnd ==
    ASSUME NEW w \in Seq(WireBytes), w # <<>>
    PROVE  Last(w) # Byte("end", 0)
<1>1. Len(w) \in Nat \ {0}
  BY EmptySeq
<1>2. w[Len(w)] \in WireBytes
  BY <1>1
<1> QED  BY <1>2, WireIs DEF Last, Terminator

-----------------------------------------------------------------------------
(***************************************************************************)
(* What an Upload has sent of its source.                                  *)
(***************************************************************************)

ArchiveBytes == Plan(FileBytes).archive_bytes

\* A pass p that has made the bytes q of the archive of what it has read.
PassIs(p, q) ==
    /\ p = [part |-> p.part, file |-> p.file, workspace |-> p.workspace, fed |-> p.fed,
            left |-> p.left, block |-> p.block]
    /\ p.part \in {"header", "file", "trailer", "padding", "compressed"}
    /\ p.file \in Seq(ToSet(source.bytes)) /\ p.workspace \in Seq(ToSet(source.bytes))
    /\ Len(p.file) + Len(p.workspace) <= FileBytes
    /\ ArchiveStart(q, p.file, FileBytes)
    /\ p.left \in Nat /\ Len(q) + p.left = ArchiveBytes
    /\ p.part = "header" => q = <<>> /\ p.file = <<>> /\ p.workspace = <<>>
    /\ p.part \in {"file", "trailer"} => Len(q) = Len(p.file) + 2
    /\ p.part \in {"trailer", "padding", "compressed"} =>
            Len(p.file) = FileBytes /\ p.workspace = <<>>
    /\ p.part \in {"padding", "compressed"} => Len(q) >= FileBytes + 4
    /\ p.part = "compressed" => p.left = 0

\* What the sink was given of it.
Gives(p, q, g) ==
    IF sizing.zlib
    THEN /\ p.fed = q
         /\ g = BlockHeader(sizing.bytes, FALSE)
                \o (IF p.part = "compressed" THEN Deflate(q) ELSE <<>>)
    ELSE StoredAs(g, q, ArchiveBytes) /\ p.block = BlockLeft(Len(q), ArchiveBytes)

\* The source has given g, and body of it is in requests that are written or
\* being written.
InBody(q, g, body) ==
    /\ IF source.kind = "prepared"
       THEN at \in 0 .. Len(source.payload) /\ g = SubSeq(source.payload, 1, at)
       ELSE PassIs(pass, q) /\ Gives(pass, q, g)
    /\ Sending(wire \o out, payload_bytes, body)
    /\ g = body \o (sink \o data)

\* The body is the one that RequestDecodes asks for.
Right(body) ==
    /\ Len(body) = payload_bytes
    /\ IF source.kind = "prepared" THEN body = source.payload
       ELSE /\ Len(pass.file) = FileBytes
            /\ body = IF sizing.zlib
                      THEN BlockHeader(Len(body) - BlockHeaderBytes, FALSE)
                           \o Deflate(Archive(pass.file))
                      ELSE StoredBlocks(Archive(pass.file))
            /\ sizing.zlib =>
                    /\ crc32(pass.file) = sizing.crc
                    /\ Len(body) < Len(Archive(pass.file)) + BlockHeaderBytes

\* The bytes l are a whole request.
Sent(l) == \E m, body : Sending(m, payload_bytes, body) /\ Ended(l, m) /\ Right(body)

Phases == {"idle", "handshake", "question", "reading", "sizing", "head", "body", "last",
           "done"}

\* Where the task is, and what it has with it there.
Located ==
    /\ phase \in Phases /\ source \in Sources \cup {NoSource}
    /\ phase # "idle" => source \in Sources
    /\ phase \in {"idle", "handshake", "question"} => request # "upload"
    /\ phase \in {"sizing", "head", "body", "last"} => request = "upload"
    /\ phase = "sizing" => source.kind = "spool"
    /\ phase \notin {"question", "head", "body", "last"} => out = <<>>
    /\ phase # "body" => data = <<>> /\ sink = <<>>
    /\ at \in Nat
    /\ request # "upload" \/ (phase = "head" /\ source.kind = "prepared") => at = 0
    /\ phase = "done" /\ result.stage = "upload" => request = "upload"

\* What the sizing pass found.
Announced ==
    /\ phase = "idle" => ~sizing.zlib
    /\ sizing.zlib \in BOOLEAN
    /\ sizing.zlib => source.kind = "spool" /\ sizing.bytes \in 1 .. ArchiveBytes - 1

\* The request in hand, in each phase.
SizingSent == wire = <<>> /\ \E q : PassIs(pass, q) /\ pass.fed = q
HeadGoing ==
    /\ pass = NewPass(ArchiveBytes)
    /\ wire \in Seq(WireBytes) /\ out \in Seq(WireBytes)
    /\ (wire = <<>> /\ out = <<>>) \/ Sending(wire \o out, payload_bytes, <<>>)
BodySent ==
    /\ wire \in Seq(WireBytes) /\ out \in Seq(WireBytes)
    /\ data \in Seq(WireBytes) /\ sink \in Seq(WireBytes) /\ Len(sink) <= NetworkBuffer
    /\ \E q, g, body : InBody(q, g, body)
AllBytes == WireBytes \cup {Terminator[1]}
LastSent ==
    /\ wire \in Seq(AllBytes) /\ out \in Seq(AllBytes)
    /\ Sent(wire \o out)
DoneSent ==
    Sent(wire) \/ (result.error # "none" /\ (wire = <<>> \/ Last(wire) # Byte("end", 0)))

Progress ==
    /\ phase = "sizing" => SizingSent
    /\ phase = "head" => HeadGoing
    /\ phase = "body" => BodySent
    /\ phase = "last" => LastSent
    /\ phase = "reading" /\ request = "upload" => Sent(wire)
    /\ phase = "done" /\ request = "upload" => DoneSent

\* The inductive invariant: the chunks written so far, the bytes in the buffer
\* and those on their way to it are what the source has given; this is the
\* beginning of a payload, or in blocks or through the compressor the beginning
\* of the archive of what was read; and a request is written to its end only
\* when that is all of it.
SentInv == Located /\ Announced /\ Progress

LEMMA SourceIs ==
    ASSUME source \in Sources \cup {NoSource}
    PROVE  /\ source.bytes \in Seq(Nat) /\ source.payload \in Seq(Content)
           /\ FileBytes \in Nat /\ ArchiveBytes \in Nat /\ ArchiveBytes >= FileBytes + 4
           /\ ToSet(source.bytes) \subseteq Nat
<1>1. source.bytes \in Seq(Nat) /\ source.payload \in Seq(Content)
  <2>1. CASE source \in Sources
    BY <2>1, ExchangeAssumption
  <2>2. CASE source = NoSource
    <3>1. source.bytes = <<>> /\ source.payload = <<>>
      BY <2>2 DEF NoSource
    <3> QED  BY <3>1, EmptySeq
  <2> QED  BY <2>1, <2>2
<1>2. FileBytes \in Nat
  BY <1>1 DEF FileBytes
<1>3. ArchiveBytes \in Nat /\ ArchiveBytes >= FileBytes + 4
  BY <1>2, ArchiveSize DEF ArchiveBytes
<1>4. ToSet(source.bytes) \subseteq Nat
  BY <1>1 DEF ToSet
<1> QED  BY <1>1, <1>2, <1>3, <1>4

\* How many bytes a request announces.
LEMMA PayloadIs ==
    ASSUME source \in Sources \cup {NoSource}, Announced
    PROVE  payload_bytes \in Nat
<1>1. /\ Len(source.payload) \in Nat /\ FileBytes \in Nat /\ ArchiveBytes \in Nat
  BY SourceIs
<1>2. sizing.zlib => BlockHeaderBytes + sizing.bytes \in Nat
  BY <1>1 DEF Announced, BlockHeaderBytes
<1>3. Plan(FileBytes).payload_bytes \in Nat
  <2>1. Plan(FileBytes).payload_bytes = ArchiveBytes + Ceiling(ArchiveBytes, DvzipBlock) * BlockHeaderBytes
    BY <1>1, ArchiveSize DEF ArchiveBytes
  <2>2. Ceiling(ArchiveBytes, DvzipBlock) \in Nat
    BY <1>1, BlocksAre, CeilingIs
  <2> HIDE DEF ArchiveBytes
  <2> QED  BY <1>1, <2>1, <2>2 DEF BlockHeaderBytes
<1> QED  BY <1>1, <1>2, <1>3 DEF payload_bytes

\* None of this changes while the source and what was found of it stay.
LEMMA SameSource ==
    ASSUME UNCHANGED <<source, sizing>>
    PROVE  /\ FileBytes' = FileBytes /\ ArchiveBytes' = ArchiveBytes
           /\ payload_bytes' = payload_bytes
BY DEF FileBytes, ArchiveBytes, payload_bytes

LEMMA AnnouncedKept ==
    ASSUME Announced, UNCHANGED <<source, sizing>>, phase' # "idle"
    PROVE  Announced'
BY SameSource DEF Announced

\* A sequence and its two pieces.
TwoPieces(v, n, a, b, S) ==
    /\ v \in Seq(S) /\ n \in 0 .. Len(v) /\ a \in Seq(S) /\ b \in Seq(S)
    /\ Len(a) = n /\ Len(b) = Len(v) - n /\ \A i \in 1 .. n : a[i] = v[i]
    /\ \A i \in 1 .. Len(v) - n : b[i] = v[n + i]

LEMMA PiecesJoin ==
    ASSUME NEW S, NEW v, NEW n, NEW a, NEW b, TwoPieces(v, n, a, b, S)
    PROVE  a \o b = v
<1>1. a \in Seq(S) /\ b \in Seq(S)
  BY DEF TwoPieces
<1>2. /\ a \o b \in Seq(S) /\ Len(a \o b) = Len(a) + Len(b)
      /\ \A i \in 1 .. Len(a) : (a \o b)[i] = a[i]
      /\ \A i \in 1 .. Len(b) : (a \o b)[Len(a) + i] = b[i]
  BY <1>1, Followed
<1> DEFINE w == a \o b
<1> HIDE DEF w
<1>3. v \in Seq(S) /\ Len(v) \in Nat /\ n \in Nat
  BY DEF TwoPieces
<1>4. /\ w \in Seq(S) /\ Len(w) = Len(v)
      /\ \A i \in 1 .. n : w[i] = v[i]
      /\ \A i \in 1 .. Len(v) - n : w[n + i] = v[n + i]
  BY <1>2, <1>3 DEF w, TwoPieces
<1>5. ASSUME NEW i \in 1 .. Len(v) PROVE w[i] = v[i]
  <2>1. CASE i <= n
    <3>1. i \in 1 .. n
      BY <1>3, <2>1
    <3> QED  BY <1>4, <3>1
  <2>2. CASE i > n
    <3>1. i - n \in 1 .. Len(v) - n /\ n + (i - n) = i
      BY <1>3, <2>2
    <3> QED  BY <1>4, <3>1
  <2>3. i <= n \/ i > n
    BY <1>3
  <2> QED  BY <2>1, <2>2, <2>3
<1>6. w = v
  BY <1>3, <1>4, <1>5, SeqEqual
<1> QED  BY <1>6 DEF w

LEMMA Middle ==
    ASSUME NEW S, NEW v \in Seq(S), NEW k \in Nat, NEW n \in Nat, k + n <= Len(v)
    PROVE  /\ SubSeq(v, k + 1, k + n) \in Seq(S) /\ Len(SubSeq(v, k + 1, k + n)) = n
           /\ \A i \in 1 .. n : SubSeq(v, k + 1, k + n)[i] = v[k + i]
OBVIOUS

\* The first piece of a sequence v, which is a \o b, has joined u.
Passed(S, u, v, a, b) == u \o a \in Seq(S) /\ b \in Seq(S) /\ (u \o a) \o b = u \o v

LEMMA Passing ==
    ASSUME NEW S, NEW u, NEW v, NEW n, NEW a, NEW b, TwoPieces(v, n, a, b, S), u \in Seq(S)
    PROVE  Passed(S, u, v, a, b)
<1>1. u \in Seq(S) /\ a \in Seq(S) /\ b \in Seq(S)
  BY DEF TwoPieces
<1>2. (u \o a) \o b = u \o (a \o b)
  BY <1>1, ConcatAssociative
<1>3. u \o a \in Seq(S)
  BY <1>1, Followed
<1>4. a \o b = v
  BY PiecesJoin
<1> QED  BY <1>1, <1>2, <1>3, <1>4 DEF Passed

\* A sequence that is passed on in pieces.
LEMMA Parted ==
    ASSUME NEW S, NEW u \in Seq(S), NEW v \in Seq(S), NEW n \in 1 .. Len(v)
    PROVE  Passed(S, u, v, SubSeq(v, 1, n), SubSeq(v, n + 1, Len(v)))
<1> DEFINE a == SubSeq(v, 1, n)  b == SubSeq(v, n + 1, Len(v))
<1>1. Len(v) \in Nat /\ n \in Nat
  OBVIOUS
<1>2. a \in Seq(S) /\ b \in Seq(S) /\ Len(a) = n /\ Len(b) = Len(v) - n
  BY <1>1
<1>3. \A i \in 1 .. n : a[i] = v[i]
  BY <1>1
<1>4. \A i \in 1 .. Len(v) - n : b[i] = v[n + i]
  BY <1>1
<1> HIDE DEF a, b
<1>5. TwoPieces(v, n, a, b, S)
  BY <1>2, <1>3, <1>4 DEF TwoPieces
<1>6. Passed(S, u, v, a, b)
  BY <1>5, Passing
<1> QED  BY <1>6 DEF a, b

LEMMA Nothing ==
    ASSUME NEW S, NEW u \in Seq(S)
    PROVE  u \o <<>> = u /\ <<>> \o u = u /\ <<>> \in Seq(S)
BY ConcatEmptySeq, EmptySeq

LEMMA SentStays ==
    ASSUME UNCHANGED <<source, sizing, wire>>, pass'.file = pass.file
    PROVE  Sent(wire)' <=> Sent(wire)
<1>1. payload_bytes' = payload_bytes /\ FileBytes' = FileBytes
  BY SameSource
<1>2. \A body : Right(body)' <=> Right(body)
  BY <1>1 DEF Right
<1> QED  BY <1>1, <1>2 DEF Sent

\* A request that was cut short.
LEMMA CutShort ==
    ASSUME LastSent, out # <<>>
    PROVE  wire = <<>> \/ Last(wire) # Byte("end", 0)
<1>1. PICK m, body : Sending(m, payload_bytes, body) /\ Ended(wire \o out, m)
  BY DEF LastSent, Sent
<1> DEFINE t == Terminator
<1>2. m \in Seq(WireBytes) /\ t \in Seq(AllBytes) /\ Len(t) = 1
  BY <1>1, SentTypes DEF AllBytes, Terminator
<1>3. m \in Seq(AllBytes)
  <2>1. WireBytes \subseteq AllBytes
    BY DEF AllBytes
  <2> QED  BY <1>2, <2>1, SeqMonotonic
<1>4. wire \in Seq(AllBytes) /\ out \in Seq(AllBytes)
  BY DEF LastSent
<1> SUFFICES ASSUME wire # <<>> PROVE Last(wire) # Byte("end", 0)
  OBVIOUS
<1>5. Len(wire) \in Nat \ {0} /\ Len(out) \in Nat \ {0} /\ Len(m) \in Nat
  BY <1>2, <1>4, EmptySeq
<1> HIDE DEF t
<1>6. Len(wire \o out) = Len(wire) + Len(out) /\ \A j \in 1 .. Len(wire) : (wire \o out)[j] = wire[j]
  BY <1>4, Followed
<1>7. Len(m \o t) = Len(m) + Len(t) /\ \A j \in 1 .. Len(m) : (m \o t)[j] = m[j]
  BY <1>2, <1>3, Followed, ZenonT(60)
<1>8. wire \o out = m \o t
  BY <1>1 DEF Ended, t
<1>9. Len(wire) \in 1 .. Len(wire) /\ Len(wire) \in 1 .. Len(m)
  BY <1>2, <1>5, <1>6, <1>7, <1>8
<1>10. wire[Len(wire)] = m[Len(wire)] /\ m[Len(wire)] \in WireBytes
  BY <1>2, <1>6, <1>7, <1>8, <1>9
<1> QED  BY <1>10, WireIs DEF Last, Terminator

\* However a connection ends.
LEMMA EndsSent ==
    ASSUME SentInv, phase \notin {"idle", "done"}, NEW stage, NEW error, NEW status, NEW body,
           Ends(Result(stage, error, status, body)), stage = "upload" => request = "upload",
           error # "none" \/ phase = "reading", phase = "last" => out # <<>>
    PROVE  SentInv'
<1>1. /\ phase' = "done" /\ result'.error = error /\ result'.stage = stage
      /\ out' = <<>> /\ data' = <<>> /\ sink' = <<>>
      /\ UNCHANGED <<source, request, wire, at, pass, sizing>>
  BY ResultIs DEF Ends
<1>2. Located'
  BY <1>1 DEF SentInv, Located, Phases
<1>3. Announced'
  BY <1>1, AnnouncedKept DEF SentInv
<1>4. ASSUME request = "upload" PROVE DoneSent'
  <2>1. phase \in {"reading", "sizing", "head", "body", "last"}
    BY <1>4 DEF SentInv, Located, Phases
  <2>2. CASE phase = "reading"
    <3>1. Sent(wire)
      BY <1>4, <2>2 DEF SentInv, Progress
    <3>2. Sent(wire)'
      BY <1>1, <3>1, SentStays
    <3> QED  BY <3>2 DEF DoneSent
  <2>3. CASE phase # "reading"
    <3>1. wire = <<>> \/ Last(wire) # Byte("end", 0)
      <4>1. CASE phase = "sizing"
        BY <4>1 DEF SentInv, Progress, SizingSent
      <4>2. CASE phase \in {"head", "body"}
        <5>1. wire \in Seq(WireBytes)
          BY <4>2 DEF SentInv, Progress, HeadGoing, BodySent
        <5> QED  BY <5>1, NotTheEnd
      <4>3. CASE phase = "last"
        BY <4>3, CutShort DEF SentInv, Progress
      <4> QED  BY <2>1, <2>3, <4>1, <4>2, <4>3
    <3>2. wire' = wire /\ result'.error # "none"
      BY <1>1, <2>3
    <3> QED  BY <3>1, <3>2 DEF DoneSent
  <2> QED  BY <2>2, <2>3
<1>5. Progress'
  BY <1>1, <1>4 DEF Progress
<1> QED  BY <1>2, <1>3, <1>5 DEF SentInv

LEMMA FailureSent ==
    ASSUME SentInv, phase \notin {"idle", "done"}, NEW error, error # "none", Fails(error),
           phase = "last" => out # <<>>
    PROVE  SentInv'
<1>1. StageOf = "upload" => request = "upload"
  BY DEF StageOf
<1> QED  BY <1>1, EndsSent DEF Fails

\* Steps that have nothing to do with a request in hand.
LEMMA Untouched ==
    ASSUME SentInv, UNCHANGED <<source, phase, request, out, wire, at, pass, sizing, data, sink,
                                result>>
    PROVE  SentInv'
<1>1. payload_bytes' = payload_bytes /\ FileBytes' = FileBytes /\ ArchiveBytes' = ArchiveBytes
  BY SameSource
<1>2. Located' /\ Announced'
  BY <1>1 DEF SentInv, Located, Announced
<1>3. \A q : PassIs(pass, q)' <=> PassIs(pass, q)
  BY <1>1 DEF PassIs
<1>4. \A q, g : Gives(pass, q, g)' <=> Gives(pass, q, g)
  BY <1>1 DEF Gives
<1>5. \A q, g, body : InBody(q, g, body)' <=> InBody(q, g, body)
  BY <1>1, <1>3, <1>4 DEF InBody
<1>6. Sent(wire)' <=> Sent(wire)
  BY SentStays
<1>7. Sent(wire \o out)' <=> Sent(wire \o out)
  <2>1. \A body : Right(body)' <=> Right(body)
    BY <1>1 DEF Right
  <2> QED  BY <1>1, <2>1 DEF Sent
<1>8. Progress'
  <2>1. SizingSent' <=> SizingSent
    BY <1>3 DEF SizingSent
  <2>2. HeadGoing' <=> HeadGoing
    BY <1>1 DEF HeadGoing
  <2>3. BodySent' <=> BodySent
    BY <1>5 DEF BodySent
  <2>4. LastSent' <=> LastSent
    BY <1>7 DEF LastSent
  <2>5. DoneSent' <=> DoneSent
    BY <1>6 DEF DoneSent
  <2> QED  BY <1>6, <2>1, <2>2, <2>3, <2>4, <2>5 DEF SentInv, Progress
<1> QED  BY <1>2, <1>8 DEF SentInv

\* Steps of a connection that is not in an Upload before or afterwards.
LEMMA Elsewhere ==
    ASSUME Located', Announced', request' # "upload"
    PROVE  SentInv'
<1>1. phase' \notin {"sizing", "head", "body", "last"}
  BY DEF Located
<1> QED  BY <1>1 DEF SentInv, Progress

-----------------------------------------------------------------------------
(***************************************************************************)
(* The steps of an Upload.                                                 *)
(***************************************************************************)

\* A pass begins.
LEMMA PassNew ==
    ASSUME source \in Sources
    PROVE  /\ PassIs(NewPass(ArchiveBytes), <<>>) /\ NewPass(ArchiveBytes).fed = <<>>
           /\ NewPass(ArchiveBytes).block = BlockLeft(Len(<<>>), ArchiveBytes)
           /\ NewPass(ArchiveBytes).part = "header"
<1>1. FileBytes \in Nat /\ ArchiveBytes \in Nat
  BY SourceIs
<1>2. ArchiveStart(<<>>, <<>>, FileBytes) /\ Len(<<>>) = 0 /\ BlockLeft(0, ArchiveBytes) = 0
  BY StartNothing, StoredNothing
<1>3. <<>> \in Seq(ToSet(source.bytes))
  BY EmptySeq
<1> DEFINE a == ArchiveBytes
<1> HIDE DEF a
<1>4. a \in Nat /\ 0 + a = a
  BY <1>1 DEF a
<1> QED  BY <1>1, <1>2, <1>3, <1>4 DEF PassIs, NewPass, a

LEMMA UploadSent ==
    ASSUME SentInv, phase = "reading", request # "upload", UploadBegins
    PROVE  SentInv'
<1>1. /\ request' = "upload" /\ wire' = <<>> /\ pass' = NewPass(Plan(FileBytes).archive_bytes)
      /\ UNCHANGED <<source, out, at, sizing, data, sink>>
      /\ out = <<>> /\ data = <<>> /\ sink = <<>> /\ at = 0
      /\ source \in Sources
      /\ \/ phase' = "sizing" /\ source.kind = "spool"
         \/ phase' = "head" /\ source.kind # "spool"
         \/ phase' = "done" /\ result' = Result("upload", "archive", 0, 0)
  BY DEF UploadBegins, SentInv, Located
<1>2. Located'
  BY <1>1 DEF SentInv, Located, Phases
<1>3. Announced'
  BY <1>1, AnnouncedKept DEF SentInv
<1>4. pass' = NewPass(ArchiveBytes)' /\ ArchiveBytes' = ArchiveBytes
  BY <1>1, SameSource DEF ArchiveBytes
<1>5. CASE phase' = "sizing"
  <2> DEFINE p == NewPass(ArchiveBytes)
  <2>1. PassIs(p, <<>>) /\ p.fed = <<>>
    BY <1>1, PassNew
  <2> HIDE DEF p
  <2>2. pass' = p
    BY <1>4 DEF p, NewPass
  <2>3. PassIs(pass, <<>>)' /\ pass'.fed = <<>>
    <3>1. FileBytes' = FileBytes
      BY <1>1, SameSource
    <3> QED  BY <1>1, <1>4, <2>1, <2>2, <3>1 DEF PassIs
  <2>4. SizingSent'
    BY <1>1, <2>3 DEF SizingSent
  <2> QED  BY <1>2, <1>3, <1>5, <2>4 DEF SentInv, Progress
<1>6. CASE phase' = "head"
  <2>1. <<>> \in Seq(WireBytes)
    BY EmptySeq
  <2>2. HeadGoing'
    BY <1>1, <1>4, <2>1 DEF HeadGoing
  <2> QED  BY <1>2, <1>3, <1>6, <2>2 DEF SentInv, Progress
<1>7. CASE phase' = "done" /\ result' = Result("upload", "archive", 0, 0)
  <2>1. DoneSent'
    BY <1>1, <1>7, ResultIs DEF DoneSent
  <2> QED  BY <1>2, <1>3, <1>7, <2>1 DEF SentInv, Progress
<1> QED  BY <1>1, <1>5, <1>6, <1>7

\* write_tls_request in pieces.
LEMMA WrittenSent ==
    ASSUME SentInv, NEW n, WriteSome(n)
    PROVE  SentInv'
<1>1. /\ n \in 1 .. Len(out) /\ wire' = wire \o SubSeq(out, 1, n)
      /\ out' = SubSeq(out, n + 1, Len(out)) /\ phase \in {"question", "head", "body", "last"}
      /\ UNCHANGED <<source, phase, request, at, pass, sizing, data, sink, result>>
  BY DEF WriteSome, Writing, sourceVars
<1>2. Located' /\ Announced'
  <2>1. Announced'
    <3>1. phase' # "idle"
      BY <1>1
    <3> QED  BY <1>1, <3>1, AnnouncedKept DEF SentInv
  <2> QED  BY <1>1, <2>1 DEF SentInv, Located
<1>3. payload_bytes' = payload_bytes /\ FileBytes' = FileBytes /\ ArchiveBytes' = ArchiveBytes
  BY <1>1, SameSource
<1>4. ASSUME NEW S, wire \in Seq(S), out \in Seq(S)
      PROVE  wire' \in Seq(S) /\ out' \in Seq(S) /\ wire' \o out' = wire \o out
  <2>1. Passed(S, wire, out, SubSeq(out, 1, n), SubSeq(out, n + 1, Len(out)))
    BY <1>1, <1>4, Parted
  <2> QED  BY <1>1, <2>1 DEF Passed
<1>5. CASE phase = "question"
  <2>1. request' # "upload"
    BY <1>1, <1>5 DEF SentInv, Located
  <2> QED  BY <1>2, <2>1, Elsewhere
<1>6. CASE phase = "head"
  <2>1. HeadGoing
    BY <1>6 DEF SentInv, Progress
  <2>2. out # <<>>
    BY DEF WriteSome, Writing
  <2>3. HeadGoing'
    BY <1>1, <1>3, <1>4, <2>1, <2>2 DEF HeadGoing
  <2> QED  BY <1>1, <1>2, <1>6, <2>3 DEF SentInv, Progress
<1>7. CASE phase = "body"
  <2>1. BodySent
    BY <1>7 DEF SentInv, Progress
  <2>2. wire' \in Seq(WireBytes) /\ out' \in Seq(WireBytes) /\ wire' \o out' = wire \o out
    BY <1>4, <2>1 DEF BodySent
  <2>3. PICK q, g, body : InBody(q, g, body)
    BY <2>1 DEF BodySent
  <2>4. (PassIs(pass, q)' <=> PassIs(pass, q)) /\ (Gives(pass, q, g)' <=> Gives(pass, q, g))
    BY <1>1, <1>3 DEF PassIs, Gives
  <2>5. InBody(q, g, body)'
    BY <1>1, <1>3, <2>2, <2>3, <2>4 DEF InBody
  <2>6. BodySent'
    BY <1>1, <2>1, <2>2, <2>5 DEF BodySent
  <2> QED  BY <1>1, <1>2, <1>7, <2>6 DEF SentInv, Progress
<1>8. CASE phase = "last"
  <2>1. LastSent
    BY <1>8 DEF SentInv, Progress
  <2>2. wire' \in Seq(AllBytes) /\ out' \in Seq(AllBytes) /\ wire' \o out' = wire \o out
    BY <1>4, <2>1 DEF LastSent
  <2>3. \A body : Right(body)' <=> Right(body)
    BY <1>1, <1>3 DEF Right
  <2>4. Sent(wire \o out)'
    BY <1>3, <2>1, <2>2, <2>3 DEF LastSent, Sent
  <2>5. LastSent'
    BY <2>2, <2>4 DEF LastSent
  <2> QED  BY <1>1, <1>2, <1>8, <2>5 DEF SentInv, Progress
<1> QED  BY <1>1, <1>5, <1>6, <1>7, <1>8

LEMMA HeadBuiltSent ==
    ASSUME SentInv, HeadBuilt
    PROVE  SentInv'
<1>1. /\ phase = "head" /\ phase' = "head" /\ out = <<>> /\ wire = <<>> /\ wire' = wire
      /\ out' = UploadHead(payload_bytes)
      /\ UNCHANGED <<source, request, at, pass, sizing, data, sink, result>>
  BY DEF HeadBuilt, sourceVars
<1>2. payload_bytes \in Nat /\ payload_bytes' = payload_bytes /\ ArchiveBytes' = ArchiveBytes
  BY <1>1, PayloadIs, SameSource DEF SentInv, Located
<1> DEFINE h == UploadHead(payload_bytes)
<1>3. h \in Seq(WireBytes) /\ Sending(h, payload_bytes, <<>>)
  BY <1>2, HeadSent
<1> HIDE DEF h
<1>4. wire' = <<>> /\ <<>> \o h = h /\ <<>> \in Seq(WireBytes) /\ out' = h
  BY <1>1, <1>3, Nothing DEF h
<1>5. Located' /\ Announced'
  <2>1. Announced'
    BY <1>1, AnnouncedKept DEF SentInv
  <2> QED  BY <1>1, <2>1 DEF SentInv, Located
<1>6. HeadGoing'
  <2>1. HeadGoing
    BY <1>1 DEF SentInv, Progress
  <2> QED  BY <1>1, <1>2, <1>3, <1>4, <2>1 DEF HeadGoing
<1> QED  BY <1>1, <1>5, <1>6 DEF SentInv, Progress

LEMMA BodyBeginsSent ==
    ASSUME SentInv, BodyBegins
    PROVE  SentInv'
<1>1. /\ phase = "head" /\ phase' = "body" /\ out = <<>> /\ wire # <<>>
      /\ data' = (IF sizing.zlib THEN BlockHeader(sizing.bytes, FALSE) ELSE <<>>)
      /\ UNCHANGED <<source, request, out, wire, at, pass, sizing, sink, result>>
      /\ sink = <<>> /\ source \in Sources /\ (source.kind = "prepared" => at = 0)
  BY DEF BodyBegins, SentInv, Located
<1>2. /\ ArchiveBytes' = ArchiveBytes /\ payload_bytes' = payload_bytes /\ FileBytes' = FileBytes
  BY <1>1, SameSource
<1>3. Located' /\ Announced'
  <2>1. Announced'
    BY <1>1, AnnouncedKept DEF SentInv
  <2> QED  BY <1>1, <2>1 DEF SentInv, Located, Phases
<1>4. /\ pass = NewPass(ArchiveBytes) /\ wire \in Seq(WireBytes) /\ out \in Seq(WireBytes)
      /\ Sending(wire \o out, payload_bytes, <<>>)
  BY <1>1 DEF SentInv, Progress, HeadGoing
<1>0. PICK d : d = data'
  OBVIOUS
<1>5. d \in Seq(WireBytes) /\ <<>> \in Seq(WireBytes) /\ <<>> \o (<<>> \o d) = d
  <2>1. d \in Seq(Content)
    <3>1. CASE sizing.zlib
      <4>1. sizing.bytes \in Nat
        <5>1. ArchiveBytes \in Nat
          BY <1>1, SourceIs
        <5> QED  BY <3>1, <5>1 DEF SentInv, Announced
      <4> QED  BY <1>0, <1>1, <3>1, <4>1, BlockHeaderIs
    <3>2. CASE ~sizing.zlib
      BY <1>0, <1>1, <3>2, EmptySeq
    <3> QED  BY <3>1, <3>2
  <2>2. d \in Seq(WireBytes)
    BY <2>1, WireIs, SeqMonotonic
  <2> QED  BY <2>2, Nothing
<1>6. PassIs(pass, <<>>) /\ pass.fed = <<>> /\ pass.block = BlockLeft(Len(<<>>), ArchiveBytes)
      /\ pass.part = "header"
  BY <1>1, <1>4, PassNew
<1>9. Len(sink') <= NetworkBuffer
  BY <1>1, ExchangeAssumption, EmptySeq
<1>7. CASE source.kind = "prepared"
  <2>1. d = <<>>
    BY <1>0, <1>1, <1>7 DEF SentInv, Announced
  <2>2. SubSeq(source.payload, 1, 0) = <<>> /\ 0 \in 0 .. Len(source.payload)
    <3>1. source.payload \in Seq(Content)
      BY <1>1, SourceIs
    <3> QED  BY <3>1, SubSeqEmpty
  <2>3. InBody(<<>>, d, <<>>)'
    BY <1>0, <1>1, <1>2, <1>4, <1>5, <1>7, <2>1, <2>2 DEF InBody
  <2>4. BodySent'
    BY <1>0, <1>1, <1>4, <1>5, <1>9, <2>3 DEF BodySent
  <2> QED  BY <1>1, <1>3, <2>4 DEF SentInv, Progress
<1>8. CASE source.kind # "prepared"
  <2>1. Gives(pass, <<>>, d)
    <3>1. CASE sizing.zlib
      <4>1. d \o <<>> = d /\ d = BlockHeader(sizing.bytes, FALSE)
        BY <1>0, <1>1, <1>5, <3>1, Nothing
      <4> QED  BY <1>6, <3>1, <4>1 DEF Gives
    <3>2. CASE ~sizing.zlib
      <4>1. d = <<>>
        BY <1>0, <1>1, <3>2
      <4> QED  BY <1>6, <3>2, <4>1, StoredNothing DEF Gives
    <3> QED  BY <3>1, <3>2
  <2>2. PassIs(pass, <<>>)' /\ Gives(pass, <<>>, d)'
    BY <1>0, <1>1, <1>2, <1>6, <2>1 DEF PassIs, Gives
  <2>3. InBody(<<>>, d, <<>>)'
    BY <1>0, <1>1, <1>2, <1>4, <1>5, <1>8, <2>2 DEF InBody
  <2>4. BodySent'
    BY <1>0, <1>1, <1>4, <1>5, <1>9, <2>3 DEF BodySent
  <2> QED  BY <1>1, <1>3, <2>4 DEF SentInv, Progress
<1> QED  BY <1>7, <1>8

\* g is made of what was sent as body, what is in the buffer and d.
Made(g, body, buffer, d) == g = body \o (buffer \o d)

\* What is given next goes behind what is in the buffer.
LEMMA GivenNext ==
    ASSUME NEW g, NEW body \in Seq(WireBytes), NEW buffer \in Seq(WireBytes),
           Made(g, body, buffer, <<>>), NEW d \in Seq(WireBytes)
    PROVE  Made(g \o d, body, buffer, d)
<1>1. g = body \o buffer
  BY Nothing DEF Made
<1>2. (body \o buffer) \o d = body \o (buffer \o d)
  BY ConcatAssociative
<1> QED  BY <1>1, <1>2 DEF Made

\* A step that gives the bytes d to the sink.
LEMMA BodyMore ==
    ASSUME SentInv, phase = "body", data = <<>>, out = <<>>,
           UNCHANGED <<source, phase, request, out, wire, sizing, sink, result>>,
           at' \in Nat, data' \in Seq(WireBytes),
           NEW q, NEW g, NEW body, InBody(q, g, body), NEW r,
           IF source.kind = "prepared"
           THEN at' \in 0 .. Len(source.payload) /\ g \o data' = SubSeq(source.payload, 1, at')
           ELSE PassIs(pass', r) /\ Gives(pass', r, g \o data')
    PROVE  SentInv'
<1>0. PICK d : d = data'
  OBVIOUS
<1>1. /\ ArchiveBytes' = ArchiveBytes /\ payload_bytes' = payload_bytes /\ FileBytes' = FileBytes
  BY SameSource
<1>2. Announced'
  BY AnnouncedKept DEF SentInv
<1>3. Located'
  BY DEF SentInv, Located, Phases
<1>4. Sending(wire \o out, payload_bytes, body) /\ g = body \o (sink \o <<>>)
  BY DEF InBody
<1>5. body \in Seq(WireBytes) /\ sink \in Seq(WireBytes) /\ wire \in Seq(WireBytes)
      /\ out \in Seq(WireBytes) /\ Len(sink) <= NetworkBuffer
  BY <1>4 DEF Sending, SentInv, Progress, BodySent
<1>6. d \in Seq(WireBytes)
  BY <1>0
<1>7. g \o d = body \o (sink \o d)
  <2>1. Made(g, body, sink, <<>>)
    BY <1>4 DEF Made
  <2>2. Made(g \o d, body, sink, d)
    BY <1>5, <1>6, <2>1, GivenNext
  <2> QED  BY <2>2 DEF Made
<1>8. InBody(r, g \o d, body)'
  <2>1. CASE source.kind = "prepared"
    BY <1>0, <1>1, <1>4, <1>7, <2>1 DEF InBody
  <2>2. CASE source.kind # "prepared"
    <3>1. PassIs(pass, r)' /\ Gives(pass, r, g \o d)'
      BY <1>0, <1>1, <2>2 DEF PassIs, Gives
    <3> QED  BY <1>0, <1>1, <1>4, <1>7, <2>2, <3>1 DEF InBody
  <2> QED  BY <2>1, <2>2
<1>9. BodySent'
  BY <1>0, <1>5, <1>6, <1>8 DEF BodySent
<1> QED  BY <1>2, <1>3, <1>9 DEF SentInv, Progress

LEMMA PreparedSent ==
    ASSUME SentInv, NEW n, PreparedReads(n)
    PROVE  SentInv'
<1> DEFINE p == source.payload
<1>1. /\ phase = "body" /\ source.kind = "prepared" /\ data = <<>> /\ out = <<>>
      /\ n \in 1 .. Min({Workspace, Len(p) - at})
      /\ data' = SubSeq(p, at + 1, at + n) /\ at' = at + n
      /\ UNCHANGED <<source, phase, request, out, wire, sizing, sink, result>>
  BY DEF PreparedReads, SinkTook, OnlyPass
<1>2. PICK q, g, body : InBody(q, g, body)
  BY <1>1 DEF SentInv, Progress, BodySent
<1>3. p \in Seq(Content) /\ at \in 0 .. Len(p) /\ g = SubSeq(p, 1, at)
  BY <1>1, <1>2, SourceIs DEF InBody, SentInv, Located
<1> HIDE DEF p
<1>4. Len(p) \in Nat /\ at \in Nat /\ at <= Len(p) /\ Workspace \in Nat \ {0}
  BY <1>3, ExchangeAssumption
<1>5. n \in Nat /\ n >= 1 /\ at + n <= Len(p)
  <2> DEFINE k == Len(p) - at
  <2>1. k \in Nat /\ k + at = Len(p)
    BY <1>4
  <2> HIDE DEF k
  <2>2. Min({Workspace, k}) = IF Workspace <= k THEN Workspace ELSE k
    BY <1>4, <2>1, LesserIs
  <2>3. n \in 1 .. Min({Workspace, k})
    BY <1>1 DEF k
  <2> QED  BY <1>4, <2>1, <2>2, <2>3
<1> DEFINE d == SubSeq(p, at + 1, at + n)
<1>6. d \in Seq(Content) /\ Len(d) = n /\ \A i \in 1 .. n : d[i] = p[at + i]
  BY <1>3, <1>4, <1>5, Middle
<1>7. g \in Seq(Content) /\ Len(g) = at /\ \A i \in 1 .. at : g[i] = p[i]
  BY <1>3, <1>4
<1> DEFINE u == SubSeq(p, 1, at + n)
<1>8. u \in Seq(Content) /\ Len(u) = at + n /\ \A i \in 1 .. at + n : u[i] = p[i]
  BY <1>3, <1>4, <1>5
<1>9. g \o d = u
  <2> HIDE DEF d, u
  <2>1. at \in 0 .. Len(u) /\ Len(d) = Len(u) - at
    BY <1>4, <1>5, <1>6, <1>8
  <2>2. \A i \in 1 .. at : g[i] = u[i]
    <3>1. \A i \in 1 .. at : i \in 1 .. at + n
      BY <1>4, <1>5
    <3> QED  BY <1>7, <1>8, <3>1
  <2>3. \A i \in 1 .. n : d[i] = u[at + i]
    <3>1. \A i \in 1 .. n : at + i \in 1 .. at + n
      BY <1>4, <1>5
    <3> QED  BY <1>6, <1>8, <3>1
  <2>4. Len(u) - at = n
    BY <1>4, <1>5, <1>8
  <2>5. TwoPieces(u, at, g, d, Content)
    BY <1>6, <1>7, <1>8, <2>1, <2>2, <2>3, <2>4 DEF TwoPieces
  <2> QED  BY <2>5, PiecesJoin
<1>10. data' = d /\ d \in Seq(WireBytes)
  BY <1>1, <1>6, WireIs, SeqMonotonic DEF p
<1>11. at' \in Nat /\ at' \in 0 .. Len(p)
  BY <1>1, <1>4, <1>5
<1>12. data' \in Seq(WireBytes) /\ g \o data' = SubSeq(p, 1, at')
  BY <1>1, <1>9, <1>10
<1> QED  BY <1>1, <1>2, <1>11, <1>12, BodyMore DEF p

LEMMA BufferSent ==
    ASSUME SentInv, buffer_upload_chunk
    PROVE  SentInv'
<1>1. /\ phase = "body" /\ out = <<>> /\ data # <<>>
      /\ UNCHANGED <<source, phase, request, wire, at, pass, sizing, result>>
  BY DEF buffer_upload_chunk
<1>2. /\ ArchiveBytes' = ArchiveBytes /\ payload_bytes' = payload_bytes /\ FileBytes' = FileBytes
  BY <1>1, SameSource
<1>3. Located' /\ Announced'
  <2>1. Announced'
    BY <1>1, AnnouncedKept DEF SentInv
  <2> QED  BY <1>1, <2>1 DEF SentInv, Located
<1>4. BodySent
  BY <1>1 DEF SentInv, Progress
<1>5. PICK q, g, body : InBody(q, g, body)
  BY <1>4 DEF BodySent
<1>6. /\ Sending(wire \o out, payload_bytes, body) /\ g = body \o (sink \o data)
      /\ body \in Seq(WireBytes) /\ wire \in Seq(WireBytes) /\ sink \in Seq(WireBytes)
      /\ data \in Seq(WireBytes)
  BY <1>4, <1>5 DEF InBody, BodySent, Sending
<1>7. ASSUME NEW body1, Sending(wire' \o out', payload_bytes, body1), g = body1 \o (sink' \o data'),
             out' \in Seq(WireBytes), sink' \in Seq(WireBytes), data' \in Seq(WireBytes),
             Len(sink') <= NetworkBuffer
      PROVE  SentInv'
  <2>1. (PassIs(pass, q)' <=> PassIs(pass, q)) /\ (Gives(pass, q, g)' <=> Gives(pass, q, g))
    BY <1>1, <1>2 DEF PassIs, Gives
  <2>2. InBody(q, g, body1)'
    BY <1>1, <1>2, <1>5, <1>7, <2>1 DEF InBody
  <2>3. BodySent'
    BY <1>1, <1>6, <1>7, <2>2 DEF BodySent
  <2> QED  BY <1>1, <1>3, <2>3 DEF SentInv, Progress
<1>8. CASE Len(sink) = NetworkBuffer
  <2>1. out' = Chunk(sink) /\ sink' = <<>> /\ data' = data
    BY <1>8 DEF buffer_upload_chunk
  <2>2. sink # <<>>
    BY <1>8, ExchangeAssumption, EmptySeq
  <2> DEFINE c == Chunk(sink)
  <2>3. c \in Seq(WireBytes)
    BY <1>6, <2>2, SentChunkIs
  <2>4. wire \o out = wire /\ <<>> \in Seq(WireBytes)
    BY <1>1, <1>6, Nothing
  <2>5. Sending(wire \o c, payload_bytes, body \o sink)
    BY <1>6, <2>4, SentMore
  <2>6. body \o (sink \o data) = (body \o sink) \o (<<>> \o data)
    <3>1. <<>> \o data = data
      BY <1>6, Nothing
    <3>2. Grouped(body, sink, data)
      BY <1>6, Regrouped
    <3> QED  BY <3>1, <3>2 DEF Grouped
  <2>7. Len(sink') <= NetworkBuffer
    BY <2>1, ExchangeAssumption, EmptySeq
  <2> HIDE DEF c
  <2> QED  BY <1>1, <1>6, <1>7, <2>1, <2>3, <2>4, <2>5, <2>6, <2>7 DEF c
<1>9. CASE Len(sink) # NetworkBuffer
  <2> DEFINE n == Min({Len(data), NetworkBuffer - Len(sink)})
  <2>1. out' = out /\ sink' = sink \o SubSeq(data, 1, n) /\ data' = SubSeq(data, n + 1, Len(data))
    BY <1>9 DEF buffer_upload_chunk
  <2>2. n \in 1 .. Len(data)
    <3> DEFINE k == NetworkBuffer - Len(sink)
    <3>1. Len(data) \in Nat \ {0} /\ Len(sink) \in Nat /\ NetworkBuffer \in Nat
      BY <1>1, <1>6, ExchangeAssumption, EmptySeq
    <3>2. k \in Nat \ {0}
      BY <1>4, <1>9, <3>1 DEF BodySent
    <3> HIDE DEF k
    <3>3. Min({Len(data), k}) = IF Len(data) <= k THEN Len(data) ELSE k
      BY <3>1, <3>2, LesserIs
    <3> QED  BY <3>1, <3>2, <3>3 DEF k
  <2>4. Len(sink') <= NetworkBuffer
    <3> DEFINE k == NetworkBuffer - Len(sink)
    <3>1. Len(data) \in Nat \ {0} /\ Len(sink) \in Nat /\ NetworkBuffer \in Nat
      BY <1>1, <1>6, ExchangeAssumption, EmptySeq
    <3>2. k \in Nat
      BY <1>4, <3>1 DEF BodySent
    <3> HIDE DEF k
    <3>3. Min({Len(data), k}) = IF Len(data) <= k THEN Len(data) ELSE k
      BY <3>1, <3>2, LesserIs
    <3>4. n <= k
      BY <3>1, <3>2, <3>3 DEF k
    <3> HIDE DEF n
    <3> DEFINE a == SubSeq(data, 1, n)
    <3>5. a \in Seq(WireBytes) /\ Len(a) = n
      BY <1>6, <2>2
    <3> HIDE DEF a
    <3>6. Len(sink \o a) = Len(sink) + n
      BY <1>6, <3>5, Followed
    <3> QED  BY <2>1, <2>2, <3>1, <3>4, <3>6 DEF a, k
  <2> HIDE DEF n
  <2>3. sink' \in Seq(WireBytes) /\ data' \in Seq(WireBytes) /\ sink' \o data' = sink \o data
    <3>1. Passed(WireBytes, sink, data, SubSeq(data, 1, n), SubSeq(data, n + 1, Len(data)))
      BY <1>6, <2>2, Parted
    <3> QED  BY <2>1, <3>1 DEF Passed
  <2> QED  BY <1>1, <1>4, <1>6, <1>7, <2>1, <2>3, <2>4 DEF BodySent
<1> QED  BY <1>8, <1>9

\* A pass that has come to its end has made the archive of what it has read.
LEMMA WholeArchive ==
    ASSUME source \in Sources, NEW q, PassIs(pass, q), pass.left = 0,
           pass.part \in {"padding", "compressed"}
    PROVE  /\ q = Archive(pass.file) /\ Len(q) = ArchiveBytes
           /\ Deflate(q) \in Seq(Content) /\ Len(Deflate(q)) \in Nat
<1>1. FileBytes \in Nat /\ ArchiveBytes \in Nat /\ source.bytes \in Seq(Nat)
  BY SourceIs
<1>2. Len(pass.file) = FileBytes /\ pass.file \in Seq(Nat)
  <2>1. pass.file \in Seq(ToSet(source.bytes)) /\ Len(pass.file) = FileBytes
    BY DEF PassIs
  <2> QED  BY <2>1, SourceIs, SeqMonotonic
<1>3. q = Archive(pass.file) /\ Len(q) = ArchiveBytes
  <2>1. ArchiveStart(q, pass.file, FileBytes) /\ Len(q) + 0 = ArchiveBytes
    BY DEF PassIs
  <2>2. Len(q) = ArchiveBytes
    <3>1. Len(q) \in Nat
      BY <2>1 DEF ArchiveStart
    <3> QED  BY <2>1, <3>1
  <2> QED  BY <1>2, <2>1, <2>2, StartWhole DEF ArchiveBytes
<1>4. Deflate(q) \in Seq(Content)
  <2>1. pass.file \in Seq(ToSet(source.bytes)) /\ Len(pass.file) = Len(source.bytes)
    BY <1>2 DEF PassIs, FileBytes
  <2>2. pass.file \in [1 .. Len(pass.file) -> ToSet(source.bytes)]
    BY <2>1, LenProperties
  <2>3. DOMAIN source.bytes = 1 .. Len(source.bytes)
    BY <1>1, LenProperties
  <2>4. pass.file \in [DOMAIN source.bytes -> ToSet(source.bytes)]
    BY <2>1, <2>2, <2>3
  <2> QED  BY <1>3, <2>4, CompressorAssumption
<1>5. Len(Deflate(q)) \in Nat
  BY <1>4, LenProperties
<1> QED  BY <1>3, <1>4, <1>5

\* What the sink was given of a whole source is the body that was announced.
LEMMA RightBody ==
    ASSUME source \in Sources, Announced, BodyGiven, sizing.zlib => SameAsSized,
           NEW q, NEW g, NEW body, InBody(q, g, body), g \in Seq(WireBytes)
    PROVE  Right(g)
<1>1. source.payload \in Seq(Content) /\ FileBytes \in Nat /\ ArchiveBytes \in Nat
  BY SourceIs
<1>2. CASE source.kind = "prepared"
  <2>1. g = SubSeq(source.payload, 1, at) /\ at = Len(source.payload)
    BY <1>2 DEF BodyGiven, InBody
  <2>2. g = source.payload
    BY <1>1, <2>1, SubSeqFull
  <2> QED  BY <1>2, <2>2 DEF Right, payload_bytes
<1>3. CASE source.kind # "prepared"
  <2>1. /\ PassIs(pass, q) /\ Gives(pass, q, g) /\ pass.left = 0
        /\ pass.part = (IF sizing.zlib THEN "compressed" ELSE "padding")
    BY <1>3 DEF BodyGiven, InBody
  <2>2. Len(pass.file) = FileBytes /\ pass.file \in Seq(Nat)
    <3>1. pass.file \in Seq(ToSet(source.bytes)) /\ Len(pass.file) = FileBytes
      BY <2>1 DEF PassIs
    <3> QED  BY <3>1, SourceIs, SeqMonotonic
  <2>3. /\ q = Archive(pass.file) /\ Len(q) = ArchiveBytes
        /\ Deflate(q) \in Seq(Content)
    <3>1. pass.part \in {"padding", "compressed"}
      BY <2>1
    <3> QED  BY <2>1, <3>1, WholeArchive
  <2>4. CASE ~sizing.zlib
    <3>1. StoredAs(g, q, Len(q)) /\ q \in Seq(Content)
      BY <2>1, <2>3, <2>4 DEF Gives, PassIs, ArchiveStart
    <3>2. g = StoredBlocks(q)
      BY <3>1, StoredWhole
    <3>3. Len(g) = payload_bytes
      <4>1. Len(g) = ArchiveBytes + Ceiling(ArchiveBytes, DvzipBlock) * BlockHeaderBytes
        BY <2>3, <3>1 DEF StoredAs, StoredSize
      <4> QED  BY <1>1, <1>3, <2>4, <4>1, ArchiveSize DEF payload_bytes, ArchiveBytes
    <3> QED  BY <1>3, <2>2, <2>3, <2>4, <3>2, <3>3 DEF Right
  <2>5. CASE sizing.zlib
    <3> DEFINE z == Deflate(q)  h == BlockHeader(sizing.bytes, FALSE)
    <3>1. pass.fed = q /\ g = h \o z
      BY <2>1, <2>5 DEF Gives
    <3>2. Len(z) = sizing.bytes /\ crc32(pass.file) = sizing.crc
      BY <2>5, <3>1 DEF SameAsSized
    <3>3. sizing.bytes \in Nat /\ sizing.bytes < ArchiveBytes
      BY <1>1, <2>5 DEF Announced
    <3>4. z \in Seq(Content)
      BY <2>3
    <3>5. h \in Seq(Content) /\ Len(h) = 2
      BY <3>3, BlockHeaderIs
    <3> HIDE DEF h, z
    <3>6. Len(h \o z) = Len(h) + Len(z)
      BY <3>4, <3>5, Followed
    <3>7. Len(g) = 2 + sizing.bytes /\ Len(g) - 2 = sizing.bytes
      BY <3>1, <3>2, <3>3, <3>5, <3>6
    <3>8. Len(g) = payload_bytes
      BY <1>3, <2>5, <3>7 DEF payload_bytes, BlockHeaderBytes
    <3>9. Len(g) < Len(q) + 2
      BY <1>1, <2>3, <3>3, <3>7
    <3>10. g = BlockHeader(Len(g) - 2, FALSE) \o Deflate(q)
      BY <3>1, <3>7 DEF h, z
    <3> QED  BY <1>3, <2>2, <2>3, <2>5, <3>2, <3>8, <3>9, <3>10 DEF Right, BlockHeaderBytes
  <2> QED  BY <2>4, <2>5
<1> QED  BY <1>2, <1>3

LEMMA BodyEndsSent ==
    ASSUME SentInv, BodyEnds
    PROVE  SentInv'
<1>1. /\ phase = "body" /\ phase' = "last" /\ out = <<>> /\ data = <<>>
      /\ out' = Chunk(sink) \o Terminator /\ sink' = <<>>
      /\ UNCHANGED <<source, request, wire, at, pass, sizing, data, result>>
      /\ BodyGiven /\ (sizing.zlib => SameAsSized) /\ source \in Sources
  BY DEF BodyEnds, BodyGiven, SinkTook, SentInv, Located
<1>2. /\ ArchiveBytes' = ArchiveBytes /\ payload_bytes' = payload_bytes /\ FileBytes' = FileBytes
  BY <1>1, SameSource
<1>3. Located' /\ Announced'
  <2>1. Announced'
    BY <1>1, AnnouncedKept DEF SentInv
  <2> QED  BY <1>1, <2>1 DEF SentInv, Located, Phases
<1>4. BodySent
  BY <1>1 DEF SentInv, Progress
<1>5. PICK q, g, body : InBody(q, g, body)
  BY <1>4 DEF BodySent
<1>6. /\ Sending(wire \o out, payload_bytes, body) /\ g = body \o (sink \o data)
      /\ body \in Seq(WireBytes) /\ wire \in Seq(WireBytes) /\ sink \in Seq(WireBytes)
  BY <1>4, <1>5 DEF InBody, BodySent, Sending
<1>7. g = body \o sink /\ wire \o out = wire
  BY <1>1, <1>6, Nothing
<1>8. g \in Seq(WireBytes)
  BY <1>6, <1>7, Followed
<1> DEFINE c == Chunk(sink)  m == wire \o c  t == Terminator
<1>9. Sending(m, payload_bytes, g)
  BY <1>6, <1>7, SentMore
<1>10. Right(g)
  BY <1>1, <1>5, <1>8, RightBody DEF SentInv
<1>11. Right(g)'
  BY <1>1, <1>2, <1>10 DEF Right
<1>12. c \in Seq(WireBytes)
  <2>1. CASE sink = <<>>
    BY <2>1, EmptySeq DEF Chunk
  <2>2. CASE sink # <<>>
    BY <1>6, <2>2, SentChunkIs
  <2> QED  BY <2>1, <2>2
<1>13. t \in Seq(AllBytes)
  BY DEF AllBytes, Terminator
<1>14. wire \in Seq(AllBytes) /\ c \in Seq(AllBytes)
  <2>1. WireBytes \subseteq AllBytes
    BY DEF AllBytes
  <2> HIDE DEF c
  <2> QED  BY <1>6, <1>12, <2>1, SeqMonotonic
<1>15. m \o t = wire \o (c \o t) /\ c \o t \in Seq(AllBytes)
  <2> HIDE DEF c, t
  <2>1. wire \in Seq(AllBytes) /\ c \in Seq(AllBytes) /\ t \in Seq(AllBytes)
    BY <1>13, <1>14
  <2>2. (wire \o c) \o t = wire \o (c \o t)
    <3>1. Grouped(wire, c, t)
      BY <2>1, Regrouped
    <3> QED  BY <3>1 DEF Grouped
  <2>3. c \o t \in Seq(AllBytes)
    BY <2>1, Followed
  <2> QED  BY <2>2, <2>3
<1>16. PICK l : l = wire \o (c \o t)
  OBVIOUS
<1>17. Ended(l, m)
  BY <1>15, <1>16 DEF Ended
<1>18. (wire \o out)' = l /\ out' \in Seq(AllBytes)
  BY <1>1, <1>15, <1>16
<1>19. PICK k : k = m
  OBVIOUS
<1>20. Sending(k, payload_bytes', g) /\ Ended(l, k)
  BY <1>2, <1>9, <1>17, <1>19
<1> HIDE DEF m, c, t
<1>21. Sent(wire \o out)'
  BY <1>11, <1>18, <1>20 DEF Sent
<1>22. LastSent'
  BY <1>1, <1>14, <1>18, <1>21 DEF LastSent
<1> QED  BY <1>1, <1>3, <1>22 DEF SentInv, Progress

\* Where a pass is, while it is read for its size and while it is sent.
Held(q) ==
    /\ source \in Sources /\ PassIs(pass, q)
    /\ phase = "sizing" => pass.fed = q /\ wire = <<>>
    /\ phase = "body" => \E g, body : InBody(q, g, body)

LEMMA PassHeld ==
    ASSUME SentInv, NEW part, InPass(part)
    PROVE  \E q : Held(q)
<1>1. phase \in {"sizing", "body"} /\ source.kind # "prepared" /\ source \in Sources
  BY DEF InPass, SentInv, Located
<1>2. CASE phase = "sizing"
  <2>1. PICK q : PassIs(pass, q) /\ pass.fed = q
    BY <1>2 DEF SentInv, Progress, SizingSent
  <2>2. wire = <<>>
    BY <1>2 DEF SentInv, Progress, SizingSent
  <2> QED  BY <1>1, <1>2, <2>1, <2>2 DEF Held
<1>3. CASE phase = "body"
  <2>1. PICK q, g, body : InBody(q, g, body)
    BY <1>3 DEF SentInv, Progress, BodySent
  <2>2. PassIs(pass, q)
    BY <1>1, <2>1 DEF InBody
  <2> QED  BY <1>1, <1>3, <2>1, <2>2 DEF Held
<1> QED  BY <1>1, <1>2, <1>3

\* A step of a pass, after which it has made r.
LEMMA PassGoes ==
    ASSUME SentInv, NEW part, InPass(part), OnlyPass, at' \in Nat, NEW q, Held(q),
           NEW r, PassIs(pass', r),
           phase = "sizing" => pass'.fed = r /\ data' = <<>>,
           phase = "body" => /\ data' \in Seq(WireBytes)
                             /\ \A g : Gives(pass, q, g) => Gives(pass', r, g \o data')
    PROVE  SentInv'
<1>1. /\ phase \in {"sizing", "body"} /\ source.kind # "prepared" /\ data = <<>> /\ out = <<>>
      /\ UNCHANGED <<source, phase, request, out, wire, sizing, sink, result>>
  BY DEF InPass, SinkTook, OnlyPass
<1>2. CASE phase = "sizing"
  <2>1. /\ ArchiveBytes' = ArchiveBytes /\ FileBytes' = FileBytes
    BY <1>1, SameSource
  <2>2. Located' /\ Announced'
    <3>1. Announced'
      BY <1>1, <1>2, AnnouncedKept DEF SentInv
    <3> QED  BY <1>1, <1>2, <3>1 DEF SentInv, Located
  <2>3. PassIs(pass, r)'
    BY <1>1, <2>1 DEF PassIs
  <2>4. SizingSent'
    BY <1>1, <1>2, <2>3 DEF SizingSent, Held
  <2> QED  BY <1>1, <1>2, <2>2, <2>4 DEF SentInv, Progress
<1>3. CASE phase = "body"
  <2>1. PICK g, body : InBody(q, g, body)
    BY <1>3 DEF Held
  <2>2. Gives(pass, q, g)
    BY <1>1, <2>1 DEF InBody
  <2>3. Gives(pass', r, g \o data') /\ data' \in Seq(WireBytes)
    BY <1>3, <2>2
  <2> QED  BY <1>1, <1>3, <2>1, <2>3, BodyMore
<1> QED  BY <1>1, <1>2, <1>3

\* The pass, in another part, with other bytes of the file behind it and in
\* the workspace.
At(part, file, workspace, fed, left, block) ==
    [part |-> part, file |-> file, workspace |-> workspace, fed |-> fed, left |-> left,
     block |-> block]

IsAt(p, part, file, workspace, fed, left, block) ==
    p = At(part, file, workspace, fed, left, block)
WithFed(s, p, f, l) == s = [p EXCEPT !.fed = f, !.left = l]
WithBlock(s, p, l, b) == s = [p EXCEPT !.left = l, !.block = b]

LEMMA AtIs ==
    ASSUME NEW part, NEW file, NEW workspace, NEW fed, NEW left, NEW block, NEW p,
           IsAt(p, part, file, workspace, fed, left, block)
    PROVE  /\ p.part = part /\ p.file = file /\ p.workspace = workspace
           /\ p.fed = fed /\ p.left = left /\ p.block = block
BY DEF At, IsAt

LEMMA FedIs ==
    ASSUME NEW part, NEW file, NEW workspace, NEW fed, NEW left, NEW block, NEW p,
           IsAt(p, part, file, workspace, fed, left, block), NEW f, NEW l, NEW s,
           WithFed(s, p, f, l)
    PROVE  IsAt(s, part, file, workspace, f, l, block)
BY DEF At, IsAt, WithFed

LEMMA BlockIs ==
    ASSUME NEW part, NEW file, NEW workspace, NEW fed, NEW left, NEW block, NEW p,
           IsAt(p, part, file, workspace, fed, left, block), NEW l, NEW b, NEW s,
           WithBlock(s, p, l, b)
    PROVE  IsAt(s, part, file, workspace, fed, l, b)
BY DEF At, IsAt, WithBlock

LEMMA LeftIs ==
    ASSUME NEW made \in Nat, NEW left \in Nat, NEW total \in Nat, made + left = total,
           NEW n \in Nat, NEW now, now = made + n
    PROVE  total - now = left - n
OBVIOUS

\* write_odc_bytes, into the compressor or into blocks.
LEMMA Emits ==
    ASSUME SentInv, NEW now, InPass(now), now # "compressed", OnlyPass, UNCHANGED at,
           NEW q, Held(q), NEW part, NEW file, NEW workspace, part # "compressed",
           NEW bytes \in Seq(Content),
           Emit(At(part, file, workspace, pass.fed, pass.left, pass.block), bytes),
           \A fed, block : PassIs(At(part, file, workspace, fed, pass.left - Len(bytes), block),
                                  q \o bytes)
    PROVE  SentInv'
<1> DEFINE r == q \o bytes  left == pass.left - Len(bytes)
           next == At(part, file, workspace, pass.fed, pass.left, pass.block)
<1>1. /\ PassIs(pass, q) /\ source \in Sources /\ phase \in {"sizing", "body"} /\ data = <<>>
      /\ pass.part # "compressed" /\ at' \in Nat
  BY DEF Held, InPass, SinkTook, SentInv, Located
<1>2. /\ q \in Seq(Content) /\ pass.left \in Nat /\ ArchiveBytes \in Nat
      /\ Len(q) + pass.left = ArchiveBytes
  BY <1>1, SourceIs DEF PassIs, ArchiveStart
<1>3. Len(r) = Len(q) + Len(bytes) /\ r \in Seq(Content) /\ Len(q) \in Nat /\ Len(bytes) \in Nat
  BY <1>2, Followed
<1>4. left \in Nat
  <2>1. PassIs(At(part, file, workspace, 0, left, 0), r)
    OBVIOUS
  <2>2. At(part, file, workspace, 0, left, 0).left = left
    BY DEF At
  <2> HIDE DEF left, r
  <2> QED  BY <2>1, <2>2 DEF PassIs
<1>5. next.fed = pass.fed /\ next.left = pass.left /\ next.block = pass.block
  BY DEF At
<1>6. PICK p, fed, now_left, block :
        p = next /\ fed = pass.fed /\ now_left = pass.left /\ block = pass.block
  OBVIOUS
<1>7. IsAt(p, part, file, workspace, fed, now_left, block)
  BY <1>6 DEF IsAt
<1> HIDE DEF next
<1>8. CASE Compressing
  <2>1. /\ pass' = [next EXCEPT !.fed = next.fed \o bytes, !.left = next.left - Len(bytes)]
        /\ data' = data
    BY <1>8 DEF Emit, next
  <2>2. /\ pass' = At(part, file, workspace, pass.fed \o bytes, left, pass.block)
        /\ pass'.fed = pass.fed \o bytes /\ pass'.part = part
    <3>1. PICK s, f, l : s = pass' /\ f = pass.fed \o bytes /\ l = left
      OBVIOUS
    <3>2. WithFed(s, p, f, l)
      BY <1>5, <1>6, <2>1, <3>1 DEF WithFed
    <3>3. IsAt(s, part, file, workspace, f, l, block)
      BY <1>7, <3>2, FedIs
    <3>4. s = At(part, file, workspace, f, l, block) /\ s.fed = f /\ s.part = part
      BY <3>3, AtIs DEF IsAt
    <3> QED  BY <1>6, <3>1, <3>4
  <2>3. PassIs(pass', r)
    BY <2>2
  <2>4. pass'.fed = pass.fed \o bytes /\ pass'.part = part
    BY <2>2
  <2>5. phase = "sizing" => pass'.fed = r /\ data' = <<>>
    BY <1>1, <2>1, <2>4 DEF Held
  <2>6. phase = "body" => /\ data' \in Seq(WireBytes)
                          /\ \A g : Gives(pass, q, g) => Gives(pass', r, g \o data')
    <3>1. SUFFICES ASSUME phase = "body", NEW g, Gives(pass, q, g)
                   PROVE  data' \in Seq(WireBytes) /\ Gives(pass', r, g \o data')
      BY <1>1, <2>1, EmptySeq
    <3>2. sizing.zlib
      BY <1>8, <3>1 DEF Compressing
    <3> DEFINE h == BlockHeader(sizing.bytes, FALSE)
    <3>3. h \in Seq(Content)
      <4>1. sizing.bytes \in Nat
        BY <1>2, <3>2 DEF SentInv, Announced
      <4> QED  BY <4>1, BlockHeaderIs
    <3>4. g = h \o <<>> /\ pass.fed = q
      BY <1>1, <3>1, <3>2 DEF Gives
    <3> HIDE DEF h
    <3>5. g = h /\ h \o <<>> = h
      BY <3>3, <3>4, Nothing
    <3>6. g \o data' = h \o <<>>
      BY <1>1, <2>1, <3>5
    <3>7. pass'.fed = r
      BY <2>4, <3>4
    <3>8. Gives(pass', r, g \o data')
      BY <2>4, <3>2, <3>6, <3>7 DEF Gives, h
    <3> QED  BY <1>1, <2>1, <3>8, EmptySeq
  <2> HIDE DEF r
  <2> QED  BY <1>1, <2>3, <2>5, <2>6, PassGoes
<1>9. CASE ~Compressing
  <2> DEFINE w == write_stored_archive_bytes(bytes, pass.left, pass.block)
  <2>1. pass' = [next EXCEPT !.left = w.left, !.block = w.block] /\ data' = w.out
    BY <1>5, <1>9 DEF Emit, next
  <2>2. phase = "body" /\ ~sizing.zlib
    BY <1>1, <1>9 DEF Compressing
  <2>3. pass.block = BlockLeft(Len(q), ArchiveBytes)
        /\ \A g : Gives(pass, q, g) => StoredAs(g, q, ArchiveBytes) /\ g \in Seq(Content)
    <3>1. \E g : Gives(pass, q, g)
      BY <2>2 DEF Held, InBody, InPass
    <3> QED  BY <2>2, <3>1 DEF Gives, StoredAs
  <2>4. pass.left = ArchiveBytes - Len(q) /\ Len(q) + Len(bytes) <= ArchiveBytes
    BY <1>2, <1>3, <1>4
  <2>5. ASSUME NEW g, Gives(pass, q, g) PROVE Emitted(w, g, r, ArchiveBytes)
    <3>1. StoredAs(g, q, ArchiveBytes) /\ g \in Seq(Content)
      BY <2>3, <2>5
    <3>2. Emitted(write_stored_archive_bytes(bytes, ArchiveBytes - Len(q),
                    BlockLeft(Len(q), ArchiveBytes)), g, r, ArchiveBytes)
      BY <1>2, <2>4, <3>1, StoredEmits
    <3> QED  BY <2>3, <2>4, <3>2
  <2>6. \E g : Gives(pass, q, g)
    BY <2>2 DEF Held, InBody, InPass
  <2> HIDE DEF w
  <2>7. w.left = ArchiveBytes - Len(r) /\ w.block = BlockLeft(Len(r), ArchiveBytes)
        /\ w.out \in Seq(Content)
    BY <2>5, <2>6 DEF Emitted
  <2>8. w.left = left
    <3>1. /\ Len(q) \in Nat /\ Len(bytes) \in Nat /\ pass.left \in Nat /\ ArchiveBytes \in Nat
          /\ Len(q) + pass.left = ArchiveBytes /\ Len(r) = Len(q) + Len(bytes)
      BY <1>2, <1>3
    <3>2. ArchiveBytes - Len(r) = left
      BY <3>1, LeftIs
    <3> QED  BY <2>7, <3>2
  <2>9. pass' = At(part, file, workspace, pass.fed, left, w.block) /\ pass'.block = w.block
    <3>1. PICK s, l, b : s = pass' /\ l = left /\ b = w.block
      OBVIOUS
    <3>2. WithBlock(s, p, l, b)
      BY <1>6, <2>1, <2>8, <3>1 DEF WithBlock
    <3>3. IsAt(s, part, file, workspace, fed, l, b)
      BY <1>7, <3>2, BlockIs
    <3>4. s = At(part, file, workspace, fed, l, b) /\ s.block = b
      BY <3>3, AtIs DEF IsAt
    <3> QED  BY <1>6, <3>1, <3>4
  <2>10. PassIs(pass', r) /\ pass'.block = w.block
    BY <2>9
  <2>11. data' \in Seq(WireBytes)
    BY <2>1, <2>7, WireIs, SeqMonotonic
  <2>12. ASSUME NEW g, Gives(pass, q, g) PROVE Gives(pass', r, g \o data')
    <3>1. StoredAs(g \o w.out, r, ArchiveBytes)
      BY <2>5, <2>12 DEF Emitted
    <3> HIDE DEF r
    <3> QED  BY <2>1, <2>2, <2>7, <2>10, <3>1 DEF Gives
  <2> HIDE DEF r
  <2> QED  BY <1>1, <2>2, <2>10, <2>11, <2>12, PassGoes
<1> QED  BY <1>8, <1>9

\* PassIs, of what is in a pass.
AtStart(part, file, workspace, left, q) ==
    /\ part \in {"header", "file", "trailer", "padding", "compressed"}
    /\ file \in Seq(ToSet(source.bytes)) /\ workspace \in Seq(ToSet(source.bytes))
    /\ Len(file) + Len(workspace) <= FileBytes
    /\ ArchiveStart(q, file, FileBytes)
    /\ left \in Nat /\ Len(q) + left = ArchiveBytes
    /\ part = "header" => q = <<>> /\ file = <<>> /\ workspace = <<>>
    /\ part \in {"file", "trailer"} => Len(q) = Len(file) + 2
    /\ part \in {"trailer", "padding", "compressed"} =>
            Len(file) = FileBytes /\ workspace = <<>>
    /\ part \in {"padding", "compressed"} => Len(q) >= FileBytes + 4
    /\ part = "compressed" => left = 0

LEMMA PassAt ==
    ASSUME NEW part, NEW file, NEW workspace, NEW fed, NEW left, NEW block, NEW p,
           IsAt(p, part, file, workspace, fed, left, block), NEW q,
           AtStart(part, file, workspace, left, q)
    PROVE  PassIs(p, q)
<1>1. /\ p.part = part /\ p.file = file /\ p.workspace = workspace
      /\ p.fed = fed /\ p.left = left /\ p.block = block
  BY AtIs
<1>2. p = [part |-> part, file |-> file, workspace |-> workspace, fed |-> fed,
           left |-> left, block |-> block]
  BY DEF IsAt, At
<1> QED  BY <1>1, <1>2 DEF AtStart, PassIs

LEMMA AnyPassAt ==
    ASSUME NEW part, NEW file, NEW workspace, NEW left, NEW q,
           AtStart(part, file, workspace, left, q)
    PROVE  \A fed, block : PassIs(At(part, file, workspace, fed, left, block), q)
<1>1. TAKE fed, block
<1>2. PICK p : p = At(part, file, workspace, fed, left, block)
  OBVIOUS
<1>3. IsAt(p, part, file, workspace, fed, left, block)
  BY <1>2 DEF IsAt
<1>4. PassIs(p, q)
  BY <1>3, PassAt
<1> QED  BY <1>2, <1>4

\* What is known of the pass in hand.
LEMMA StandsAt ==
    ASSUME NEW q, Held(q)
    PROVE  /\ AtStart(pass.part, pass.file, pass.workspace, pass.left, q)
           /\ IsAt(pass, pass.part, pass.file, pass.workspace, pass.fed, pass.left, pass.block)
           /\ pass.file \in Seq(Nat) /\ pass.workspace \in Seq(Nat)
           /\ Len(q) \in Nat /\ q \in Seq(Content)
           /\ ToSet(source.bytes) \subseteq Nat
           /\ FileBytes \in Nat /\ ArchiveBytes \in Nat /\ ArchiveBytes >= FileBytes + 4
<1>1. PassIs(pass, q) /\ source \in Sources
  BY DEF Held
<1>2. AtStart(pass.part, pass.file, pass.workspace, pass.left, q)
  BY <1>1 DEF PassIs, AtStart
<1>3. IsAt(pass, pass.part, pass.file, pass.workspace, pass.fed, pass.left, pass.block)
  BY <1>1 DEF PassIs, IsAt, At
<1>4. ToSet(source.bytes) \subseteq Nat /\ FileBytes \in Nat /\ ArchiveBytes \in Nat
      /\ ArchiveBytes >= FileBytes + 4
  BY <1>1, SourceIs
<1>5. pass.file \in Seq(ToSet(source.bytes)) /\ pass.workspace \in Seq(ToSet(source.bytes))
  BY <1>2 DEF AtStart
<1>6. pass.file \in Seq(Nat) /\ pass.workspace \in Seq(Nat)
  BY <1>4, <1>5, SeqMonotonic
<1>7. q \in Seq(Content) /\ Len(q) \in Nat
  BY <1>2 DEF AtStart, ArchiveStart
<1> QED  BY <1>2, <1>3, <1>4, <1>6, <1>7

WithPart(s, p, part) == s = [p EXCEPT !.part = part]

LEMMA PartIs ==
    ASSUME NEW part, NEW file, NEW workspace, NEW fed, NEW left, NEW block, NEW p,
           IsAt(p, part, file, workspace, fed, left, block), NEW to, NEW s, WithPart(s, p, to)
    PROVE  IsAt(s, to, file, workspace, fed, left, block)
BY DEF At, IsAt, WithPart

WithFile(s, p, file, part) ==
    s = [p EXCEPT !.file = file, !.workspace = <<>>, !.part = part]

LEMMA FileIs ==
    ASSUME NEW part, NEW file, NEW workspace, NEW fed, NEW left, NEW block, NEW p,
           IsAt(p, part, file, workspace, fed, left, block), NEW f, NEW to, NEW s,
           WithFile(s, p, f, to)
    PROVE  IsAt(s, to, f, <<>>, fed, left, block)
BY DEF At, IsAt, WithFile

\* The pass with another part to come.
LEMMA TurnTo ==
    ASSUME NEW q, Held(q), NEW to
    PROVE  [pass EXCEPT !.part = to]
             = At(to, pass.file, pass.workspace, pass.fed, pass.left, pass.block)
<1>1. PICK p, s : p = pass /\ s = [pass EXCEPT !.part = to]
  OBVIOUS
<1>2. PICK file, workspace, fed, left, block :
        /\ file = pass.file /\ workspace = pass.workspace /\ fed = pass.fed
        /\ left = pass.left /\ block = pass.block
  OBVIOUS
<1>3. IsAt(p, pass.part, file, workspace, fed, left, block)
  BY <1>1, <1>2, StandsAt
<1>4. WithPart(s, p, to)
  BY <1>1 DEF WithPart
<1>5. IsAt(s, to, file, workspace, fed, left, block)
  BY <1>3, <1>4, PartIs
<1> QED  BY <1>1, <1>2, <1>5 DEF IsAt

\* The pass after what is in the workspace.
LEMMA TakeIn ==
    ASSUME NEW q, Held(q), NEW f, NEW to
    PROVE  [pass EXCEPT !.file = f, !.workspace = <<>>, !.part = to]
             = At(to, f, <<>>, pass.fed, pass.left, pass.block)
<1>1. PICK p, s : p = pass /\ s = [pass EXCEPT !.file = f, !.workspace = <<>>, !.part = to]
  OBVIOUS
<1>2. PICK file, workspace, fed, left, block :
        /\ file = pass.file /\ workspace = pass.workspace /\ fed = pass.fed
        /\ left = pass.left /\ block = pass.block
  OBVIOUS
<1>3. IsAt(p, pass.part, file, workspace, fed, left, block)
  BY <1>1, <1>2, StandsAt
<1>4. WithFile(s, p, f, to)
  BY <1>1 DEF WithFile
<1>5. IsAt(s, to, f, <<>>, fed, left, block)
  BY <1>3, <1>4, FileIs
<1> QED  BY <1>1, <1>2, <1>5 DEF IsAt

\* The bytes go on where q ends.
GoesOn(bytes, file, n, q) ==
    \A j \in 1 .. Len(bytes) : bytes[j] = ArchiveByte(file, n, Len(q) + j)

Longer(r, q, bytes, file, n) == ArchiveStart(r, file, n) /\ Len(r) = Len(q) + Len(bytes)

LEMMA StartOn ==
    ASSUME NEW file, NEW n, NEW q, ArchiveStart(q, file, n), NEW bytes \in Seq(Content),
           GoesOn(bytes, file, n, q)
    PROVE  Longer(q \o bytes, q, bytes, file, n)
BY StartMore DEF GoesOn, Longer

LEMMA Rest ==
    ASSUME NEW made \in Nat, NEW left \in Nat, NEW total \in Nat, made + left = total,
           NEW n \in Nat, made + n <= total, NEW now, now = made + n
    PROVE  left - n \in Nat /\ now + (left - n) = total
OBVIOUS

LEMMA TwoBytes ==
    ASSUME NEW a \in Content, NEW b \in Content
    PROVE  /\ <<a, b>> \in Seq(Content) /\ Len(<<a, b>>) = 2
           /\ <<a, b>>[1] = a /\ <<a, b>>[2] = b
OBVIOUS

LEMMA HeaderSent ==
    ASSUME SentInv, PassHeader
    PROVE  SentInv'
<1>1. /\ InPass("header") /\ OnlyPass /\ UNCHANGED at
      /\ Emit([pass EXCEPT !.part = "file"], <<write_odc_header(FileBytes), Byte("path", 0)>>)
      /\ pass.part = "header"
  BY DEF PassHeader, InPass
<1>2. PICK q : Held(q)
  BY <1>1, PassHeld
<1>3. /\ AtStart(pass.part, pass.file, pass.workspace, pass.left, q)
      /\ FileBytes \in Nat /\ ArchiveBytes \in Nat /\ ArchiveBytes >= FileBytes + 4
  BY <1>2, StandsAt
<1>4. q = <<>> /\ pass.file = <<>> /\ pass.workspace = <<>> /\ pass.left = ArchiveBytes
  <2>1. q = <<>> /\ pass.file = <<>> /\ pass.workspace = <<>>
    BY <1>1, <1>3 DEF AtStart
  <2>2. Len(q) + pass.left = ArchiveBytes /\ pass.left \in Nat /\ Len(q) = 0
    BY <1>3, <2>1, EmptySeq DEF AtStart
  <2> QED  BY <1>3, <2>1, <2>2
<1> DEFINE b == <<write_odc_header(FileBytes), Byte("path", 0)>>  r == q \o b  left == pass.left - Len(b)
<1>5. /\ b \in Seq(Content) /\ Len(b) = 2
      /\ b[1] = write_odc_header(FileBytes) /\ b[2] = Byte("path", 0)
  BY <1>3, ContentIs, TwoBytes
<1>6. Emit(At("file", <<>>, <<>>, pass.fed, pass.left, pass.block), b)
  <2> HIDE DEF b
  <2>1. [pass EXCEPT !.part = "file"]
          = At("file", pass.file, pass.workspace, pass.fed, pass.left, pass.block)
    BY <1>2, TurnTo
  <2>2. Emit([pass EXCEPT !.part = "file"], b)
    BY <1>1 DEF b
  <2> QED  BY <1>4, <2>1, <2>2
<1> HIDE DEF b
<1>7. AtStart("file", <<>>, <<>>, left, r)
  <2>1. ArchiveStart(q, <<>>, FileBytes) /\ Len(q) = 0
    BY <1>4, StartNothing
  <2>2. GoesOn(b, <<>>, FileBytes, q)
    <3>1. SUFFICES ASSUME NEW j \in 1 .. Len(b)
                   PROVE  b[j] = ArchiveByte(<<>>, FileBytes, Len(q) + j)
      BY DEF GoesOn
    <3>2. Len(q) + j = j /\ (j = 1 \/ j = 2)
      BY <1>5, <2>1
    <3> QED  BY <1>5, <3>2 DEF ArchiveByte
  <2>3. ArchiveStart(r, <<>>, FileBytes) /\ Len(r) = Len(q) + Len(b)
    <3>1. Longer(r, q, b, <<>>, FileBytes)
      BY <1>5, <2>1, <2>2, StartOn
    <3> QED  BY <3>1 DEF Longer
  <2> HIDE DEF r
  <2>4. Len(r) = 2 /\ left \in Nat /\ Len(r) + left = ArchiveBytes
    <3>1. Len(q) \in Nat /\ Len(b) \in Nat /\ pass.left \in Nat /\ Len(q) + pass.left = ArchiveBytes
          /\ Len(q) + Len(b) <= ArchiveBytes
      BY <1>3, <1>4, <1>5, <2>1
    <3> QED  BY <1>3, <1>5, <2>1, <2>3, <3>1, Rest
  <2>5. <<>> \in Seq(ToSet(source.bytes)) /\ Len(<<>>) = 0
    BY EmptySeq
  <2> HIDE DEF left
  <2>6. Len(r) = Len(<<>>) + 2 /\ Len(<<>>) + Len(<<>>) <= FileBytes
    BY <1>3, <2>4, <2>5
  <2> QED  BY <1>3, <2>3, <2>4, <2>5, <2>6 DEF AtStart
<1>8. \A fed, block : PassIs(At("file", <<>>, <<>>, fed, left, block), r)
  <2> HIDE DEF left, r
  <2> QED  BY <1>7, AnyPassAt
<1> QED  BY <1>1, <1>2, <1>5, <1>6, <1>8, Emits

LEMMA TrailerSent ==
    ASSUME SentInv, PassTrailer
    PROVE  SentInv'
<1>1. /\ InPass("trailer") /\ OnlyPass /\ UNCHANGED at
      /\ Emit([pass EXCEPT !.part = "padding"], <<write_odc_header(0), Byte("trailer", 0)>>)
      /\ pass.part = "trailer"
  BY DEF PassTrailer, InPass
<1>2. PICK q : Held(q)
  BY <1>1, PassHeld
<1>3. /\ AtStart(pass.part, pass.file, pass.workspace, pass.left, q) /\ q \in Seq(Content)
      /\ FileBytes \in Nat /\ ArchiveBytes \in Nat /\ ArchiveBytes >= FileBytes + 4
  BY <1>2, StandsAt
<1>4. /\ Len(pass.file) = FileBytes /\ pass.workspace = <<>> /\ Len(q) = FileBytes + 2
      /\ pass.left \in Nat /\ Len(q) + pass.left = ArchiveBytes
      /\ ArchiveStart(q, pass.file, FileBytes)
  BY <1>1, <1>3 DEF AtStart
<1> DEFINE b == <<write_odc_header(0), Byte("trailer", 0)>>  r == q \o b  left == pass.left - Len(b)
<1>5. /\ b \in Seq(Content) /\ Len(b) = 2
      /\ b[1] = write_odc_header(0) /\ b[2] = Byte("trailer", 0)
  BY ContentIs, TwoBytes
<1>6. Emit(At("padding", pass.file, <<>>, pass.fed, pass.left, pass.block), b)
  <2> HIDE DEF b
  <2>1. [pass EXCEPT !.part = "padding"]
          = At("padding", pass.file, pass.workspace, pass.fed, pass.left, pass.block)
    BY <1>2, TurnTo
  <2>2. Emit([pass EXCEPT !.part = "padding"], b)
    BY <1>1 DEF b
  <2> QED  BY <1>4, <2>1, <2>2
<1> HIDE DEF b
<1>7. AtStart("padding", pass.file, <<>>, left, r)
  <2>1. GoesOn(b, pass.file, FileBytes, q)
    <3>1. SUFFICES ASSUME NEW j \in 1 .. Len(b)
                   PROVE  b[j] = ArchiveByte(pass.file, FileBytes, Len(q) + j)
      BY DEF GoesOn
    <3>2. j = 1 \/ j = 2
      BY <1>5
    <3>3. j = 1 => Len(q) + j = FileBytes + 3
      BY <1>3, <1>4
    <3>4. j = 2 => Len(q) + j = FileBytes + 4
      BY <1>3, <1>4
    <3>5. /\ ArchiveByte(pass.file, FileBytes, FileBytes + 3) = write_odc_header(0)
          /\ ArchiveByte(pass.file, FileBytes, FileBytes + 4) = Byte("trailer", 0)
      BY <1>3 DEF ArchiveByte
    <3> QED  BY <1>5, <3>2, <3>3, <3>4, <3>5
  <2>2. ArchiveStart(r, pass.file, FileBytes) /\ Len(r) = Len(q) + Len(b)
    <3>1. Longer(r, q, b, pass.file, FileBytes)
      BY <1>4, <1>5, <2>1, StartOn
    <3> QED  BY <3>1 DEF Longer
  <2> HIDE DEF r
  <2>3. Len(r) = FileBytes + 4 /\ left \in Nat /\ Len(r) + left = ArchiveBytes
    <3>1. Len(q) \in Nat /\ Len(b) \in Nat /\ Len(q) + Len(b) <= ArchiveBytes
          /\ Len(q) + Len(b) = FileBytes + 4
      BY <1>3, <1>4, <1>5
    <3> QED  BY <1>3, <1>4, <2>2, <3>1, Rest
  <2>4. <<>> \in Seq(ToSet(source.bytes)) /\ Len(<<>>) = 0
    BY EmptySeq
  <2> HIDE DEF left
  <2> QED  BY <1>3, <1>4, <2>2, <2>3, <2>4 DEF AtStart
<1>8. \A fed, block : PassIs(At("padding", pass.file, <<>>, fed, left, block), r)
  <2> HIDE DEF left, r
  <2> QED  BY <1>7, AnyPassAt
<1> QED  BY <1>1, <1>2, <1>5, <1>6, <1>8, Emits

LEMMA PaddingSent ==
    ASSUME SentInv, PassPadding
    PROVE  SentInv'
<1>1. /\ InPass("padding") /\ OnlyPass /\ UNCHANGED at /\ pass.left > 0 /\ pass.part = "padding"
      /\ Emit(pass, [i \in 1 .. Min({pass.left, Workspace}) |-> Byte("zero", 0)])
  BY DEF PassPadding, InPass
<1>2. PICK q : Held(q)
  BY <1>1, PassHeld
<1>3. /\ AtStart(pass.part, pass.file, pass.workspace, pass.left, q) /\ q \in Seq(Content)
      /\ IsAt(pass, pass.part, pass.file, pass.workspace, pass.fed, pass.left, pass.block)
      /\ FileBytes \in Nat /\ ArchiveBytes \in Nat
  BY <1>2, StandsAt
<1>4. /\ Len(pass.file) = FileBytes /\ pass.workspace = <<>> /\ Len(q) >= FileBytes + 4
      /\ pass.left \in Nat /\ Len(q) + pass.left = ArchiveBytes /\ Len(q) \in Nat
      /\ ArchiveStart(q, pass.file, FileBytes)
  BY <1>1, <1>3 DEF AtStart
<1>5. PICK n : n = Min({pass.left, Workspace})
  OBVIOUS
<1>6. n \in Nat /\ n <= pass.left
  <2>1. Workspace \in Nat
    BY ExchangeAssumption
  <2> QED  BY <1>4, <1>5, <2>1, LesserIs
<1> DEFINE b == [i \in 1 .. n |-> Byte("zero", 0)]  r == q \o b  left == pass.left - Len(b)
<1>7. b \in Seq(Content) /\ Len(b) = n /\ \A j \in 1 .. n : b[j] = Byte("zero", 0)
  BY <1>6, PaddingIs
<1>8. Emit(At("padding", pass.file, <<>>, pass.fed, pass.left, pass.block), b)
  <2>1. Emit(pass, b)
    BY <1>1, <1>5
  <2> HIDE DEF b
  <2>2. pass = At("padding", pass.file, <<>>, pass.fed, pass.left, pass.block)
    BY <1>1, <1>3, <1>4 DEF IsAt
  <2> QED  BY <2>1, <2>2
<1> HIDE DEF b
<1>9. AtStart("padding", pass.file, <<>>, left, r)
  <2>1. GoesOn(b, pass.file, FileBytes, q)
    <3>1. SUFFICES ASSUME NEW j \in 1 .. Len(b)
                   PROVE  b[j] = ArchiveByte(pass.file, FileBytes, Len(q) + j)
      BY DEF GoesOn
    <3>2. PICK k : k = Len(q) + j
      OBVIOUS
    <3>3. k \in Nat /\ k > FileBytes + 4
      BY <1>3, <1>4, <1>6, <1>7, <3>2
    <3>4. ArchiveByte(pass.file, FileBytes, k) = Byte("zero", 0)
      BY <1>3, <3>3 DEF ArchiveByte
    <3> QED  BY <1>7, <3>2, <3>4
  <2>2. ArchiveStart(r, pass.file, FileBytes) /\ Len(r) = Len(q) + Len(b)
    <3>1. Longer(r, q, b, pass.file, FileBytes)
      BY <1>4, <1>7, <2>1, StartOn
    <3> QED  BY <3>1 DEF Longer
  <2> HIDE DEF r
  <2>3. Len(r) >= FileBytes + 4 /\ left \in Nat /\ Len(r) + left = ArchiveBytes
    <3>1. Len(q) \in Nat /\ Len(b) \in Nat /\ Len(q) + Len(b) <= ArchiveBytes
          /\ Len(q) + Len(b) >= FileBytes + 4
      BY <1>3, <1>4, <1>6, <1>7
    <3> QED  BY <1>3, <1>4, <2>2, <3>1, Rest
  <2>4. <<>> \in Seq(ToSet(source.bytes)) /\ Len(<<>>) = 0
    BY EmptySeq
  <2> HIDE DEF left
  <2> QED  BY <1>3, <1>1, <1>4, <2>2, <2>3, <2>4 DEF AtStart
<1>10. \A fed, block : PassIs(At("padding", pass.file, <<>>, fed, left, block), r)
  <2> HIDE DEF left, r
  <2> QED  BY <1>9, AnyPassAt
<1> QED  BY <1>1, <1>2, <1>7, <1>8, <1>10, Emits

LEMMA FileSent ==
    ASSUME SentInv, PassFile
    PROVE  SentInv'
<1> DEFINE f == pass.file  w == pass.workspace  fw == f \o w  b == DataBytes(w)
           to == IF Len(fw) = FileBytes THEN "trailer" ELSE "file"
<1>1. /\ InPass("file") /\ OnlyPass /\ UNCHANGED at /\ pass.part = "file"
      /\ Emit([pass EXCEPT !.file = fw, !.workspace = <<>>, !.part = to], b)
  BY DEF PassFile, InPass, DataBytes
<1>2. PICK q : Held(q)
  BY <1>1, PassHeld
<1> DEFINE r == q \o b  left == pass.left - Len(b)
<1>3. /\ AtStart(pass.part, f, w, pass.left, q) /\ q \in Seq(Content)
      /\ f \in Seq(Nat) /\ w \in Seq(Nat)
      /\ FileBytes \in Nat /\ ArchiveBytes \in Nat /\ ArchiveBytes >= FileBytes + 4
  BY <1>2, StandsAt
<1>4. /\ f \in Seq(ToSet(source.bytes)) /\ w \in Seq(ToSet(source.bytes))
      /\ Len(f) + Len(w) <= FileBytes /\ Len(q) = Len(f) + 2
      /\ pass.left \in Nat /\ Len(q) + pass.left = ArchiveBytes /\ ArchiveStart(q, f, FileBytes)
  BY <1>1, <1>3 DEF AtStart
<1> HIDE DEF f, w
<1>5. /\ fw \in Seq(Nat) /\ Len(fw) = Len(f) + Len(w) /\ Len(f) \in Nat /\ Len(w) \in Nat
      /\ \A i \in 1 .. Len(w) : fw[Len(f) + i] = w[i]
  BY <1>3, Followed
<1>6. fw \in Seq(ToSet(source.bytes))
  BY <1>4, Followed
<1>7. b \in Seq(Content) /\ Len(b) = Len(w) /\ \A i \in 1 .. Len(w) : b[i] = Byte("data", w[i])
  BY <1>3, DataBytesIs
<1>70. /\ FileBytes \in Nat /\ ArchiveBytes \in Nat /\ ArchiveBytes >= FileBytes + 4
       /\ Len(f) \in Nat /\ Len(w) \in Nat /\ Len(f) + Len(w) <= FileBytes
       /\ Len(q) = Len(f) + 2 /\ Len(fw) = Len(f) + Len(w) /\ Len(b) = Len(w)
       /\ Len(q) + pass.left = ArchiveBytes /\ pass.left \in Nat
  BY <1>3, <1>4, <1>5, <1>7
<1>8. Emit(At(to, fw, <<>>, pass.fed, pass.left, pass.block), b)
  <2> HIDE DEF b, to, fw
  <2>1. [pass EXCEPT !.file = fw, !.workspace = <<>>, !.part = to]
          = At(to, fw, <<>>, pass.fed, pass.left, pass.block)
    BY <1>2, TakeIn
  <2> QED  BY <1>1, <2>1
<1> HIDE DEF b
<1>9. AtStart(to, fw, <<>>, left, r)
  <2>1. ArchiveStart(q, fw, FileBytes)
    <3>1. Len(f) <= FileBytes /\ Len(q) <= Len(f) + 2
      BY <1>3, <1>4, <1>5
    <3> QED  BY <1>3, <1>4, <3>1, StartLonger
  <2>2. GoesOn(b, fw, FileBytes, q)
    <3> HIDE DEF fw
    <3>1. SUFFICES ASSUME NEW j \in 1 .. Len(b)
                   PROVE  b[j] = ArchiveByte(fw, FileBytes, Len(q) + j)
      BY DEF GoesOn
    <3>2. PICK k : k = Len(q) + j
      OBVIOUS
    <3>3. k \in Nat /\ k > 2 /\ k <= FileBytes + 2 /\ k - 2 = Len(f) + j
      <4>1. j \in 1 .. Len(w)
        BY <1>70
      <4>2. k = Len(f) + 2 + j
        BY <1>70, <3>2
      <4> QED  BY <1>70, <4>1, <4>2
    <3>4. ArchiveByte(fw, FileBytes, k) = Byte("data", fw[k - 2])
      BY <1>3, <3>3 DEF ArchiveByte
    <3> QED  BY <1>5, <1>7, <3>2, <3>3, <3>4
  <2>3. ArchiveStart(r, fw, FileBytes) /\ Len(r) = Len(q) + Len(b)
    <3> HIDE DEF fw
    <3>1. Longer(r, q, b, fw, FileBytes)
      BY <1>7, <2>1, <2>2, StartOn
    <3> QED  BY <3>1 DEF Longer
  <2> HIDE DEF r, fw
  <2>4. Len(r) = Len(fw) + 2 /\ left \in Nat /\ Len(r) + left = ArchiveBytes
    <3>1. Len(q) \in Nat /\ Len(b) \in Nat /\ Len(q) + Len(b) <= ArchiveBytes
          /\ Len(q) + Len(b) = Len(fw) + 2
      BY <1>70
    <3>2. Len(r) = Len(q) + Len(b)
      BY <2>3
    <3>3. left \in Nat /\ Len(r) + left = ArchiveBytes
      <4>1. Len(q) + pass.left = ArchiveBytes /\ pass.left \in Nat /\ ArchiveBytes \in Nat
        BY <1>70
      <4> QED  BY <3>1, <3>2, <4>1, Rest
    <3> QED  BY <3>1, <3>2, <3>3
  <2>5. <<>> \in Seq(ToSet(source.bytes)) /\ Len(<<>>) = 0
    BY EmptySeq
  <2> HIDE DEF left
  <2>6. Len(fw) + Len(<<>>) <= FileBytes
    BY <1>3, <1>4, <1>5, <2>5
  <2> QED  BY <1>3, <1>6, <2>3, <2>4, <2>5, <2>6 DEF AtStart
<1>10. \A fed, block : PassIs(At(to, fw, <<>>, fed, left, block), r)
  <2> HIDE DEF left, r, to, fw
  <2> QED  BY <1>9, AnyPassAt
<1>11. to # "compressed"
  OBVIOUS
<1> HIDE DEF to, fw
<1> QED  BY <1>1, <1>2, <1>7, <1>8, <1>10, <1>11, Emits

WithWorkspace(s, p, w) == s = [p EXCEPT !.workspace = w]

LEMMA WorkspaceIs ==
    ASSUME NEW part, NEW file, NEW workspace, NEW fed, NEW left, NEW block, NEW p,
           IsAt(p, part, file, workspace, fed, left, block), NEW w, NEW s, WithWorkspace(s, p, w)
    PROVE  IsAt(s, part, file, w, fed, left, block)
BY DEF At, IsAt, WithWorkspace

\* The pass that has made no more, but has changed in this.
LEMMA SamePass ==
    ASSUME SentInv, NEW now, InPass(now), now # "compressed", OnlyPass, at' \in Nat,
           UNCHANGED data, NEW q, Held(q), PassIs(pass', q), pass'.fed = pass.fed,
           pass'.block = pass.block, pass'.part = pass.part
    PROVE  SentInv'
<1>1. data = <<>> /\ phase \in {"sizing", "body"}
  BY DEF InPass, SinkTook
<1>2. phase = "sizing" => pass'.fed = q /\ data' = <<>>
  BY <1>1 DEF Held
<1>3. ASSUME phase = "body", NEW g, Gives(pass, q, g) PROVE Gives(pass', q, g \o data')
  <2>1. PICK h, body : InBody(q, h, body)
    BY <1>3 DEF Held
  <2>2. g \o <<>> = g
    <3>1. CASE sizing.zlib
      <4> DEFINE e == BlockHeader(sizing.bytes, FALSE)
      <4>1. g = e \o <<>>
        BY <1>3, <3>1 DEF Gives, InPass
      <4>2. e \in Seq(Content)
        <5>1. sizing.bytes \in Nat
          <6>1. ArchiveBytes \in Nat
            BY StandsAt
          <6> QED  BY <3>1, <6>1 DEF SentInv, Announced
        <5> QED  BY <5>1, BlockHeaderIs
      <4> HIDE DEF e
      <4>3. g = e /\ e \o <<>> = e
        BY <4>1, <4>2, Nothing
      <4> QED  BY <4>3
    <3>2. CASE ~sizing.zlib
      <4>1. g \in Seq(Content)
        BY <1>3, <3>2 DEF Gives, StoredAs
      <4> QED  BY <4>1, Nothing
    <3> QED  BY <3>1, <3>2
  <2>3. g \o data' = g
    BY <1>1, <2>2
  <2>4. Gives(pass', q, g)
    BY <1>3 DEF Gives
  <2> QED  BY <2>3, <2>4
<1>4. data' \in Seq(WireBytes)
  BY <1>1, EmptySeq
<1> QED  BY <1>2, <1>3, <1>4, PassGoes

LEMMA Room ==
    ASSUME NEW a \in Nat, NEW b \in Nat, NEW total \in Nat, a + b <= total
    PROVE  total - a \in Nat
OBVIOUS

LEMMA RoomTaken ==
    ASSUME NEW b \in Nat, NEW room \in Nat, NEW k \in Nat, room <= k, NEW n \in 1 .. room - b
    PROVE  n \in Nat /\ b + n <= k
OBVIOUS

LEMMA ReadSent ==
    ASSUME SentInv, NEW n, NEW from \in {0, at}, SourceReads(n, from)
    PROVE  SentInv'
<1> DEFINE f == pass.file  w == pass.workspace  p == SubSeq(source.bytes, from + 1, from + n)
           wp == w \o p
<1>1. /\ InPass("file") /\ OnlyPass /\ UNCHANGED data /\ pass.part = "file"
      /\ n \in 1 .. Requested - Len(w) /\ from + n <= FileBytes
      /\ pass' = [pass EXCEPT !.workspace = wp]
      /\ at' = IF from = at THEN at + n ELSE Lost
  BY DEF SourceReads, InPass
<1>2. PICK q : Held(q)
  BY <1>1, PassHeld
<1>3. /\ AtStart(pass.part, f, w, pass.left, q)
      /\ IsAt(pass, pass.part, f, w, pass.fed, pass.left, pass.block)
      /\ f \in Seq(Nat) /\ w \in Seq(Nat) /\ FileBytes \in Nat
  BY <1>2, StandsAt
<1>4. /\ f \in Seq(ToSet(source.bytes)) /\ w \in Seq(ToSet(source.bytes))
      /\ Len(f) + Len(w) <= FileBytes
  BY <1>3 DEF AtStart
<1>5. at \in Nat /\ from \in Nat
  BY DEF SentInv, Located
<1>6. Len(f) \in Nat /\ Len(w) \in Nat
  BY <1>3
<1>7. n \in Nat /\ Len(w) + n <= FileBytes - Len(f)
  <2> DEFINE k == FileBytes - Len(f)
  <2>1. k \in Nat
    BY <1>3, <1>4, <1>6, Room
  <2>2. Workspace \in Nat
    BY ExchangeAssumption
  <2>3. Requested = Min({k, Workspace})
    BY DEF Requested, Remaining
  <2> HIDE DEF k
  <2>4. Requested \in Nat /\ Requested <= k
    BY <2>1, <2>2, <2>3, LesserIs
  <2>5. n \in Nat /\ Len(w) + n <= k
    BY <1>1, <1>6, <2>1, <2>4, RoomTaken
  <2> QED  BY <2>5 DEF k
<1>8. /\ p \in Seq(ToSet(source.bytes)) /\ Len(p) = n
  <2>1. source.bytes \in Seq(Nat)
    BY <1>2, SourceIs DEF Held
  <2>2. source.bytes \in Seq(ToSet(source.bytes))
    BY <2>1 DEF ToSet
  <2>3. from + n <= Len(source.bytes)
    BY <1>1 DEF FileBytes
  <2> QED  BY <1>5, <1>7, <2>2, <2>3, Middle
<1> HIDE DEF f, w, p
<1>9. wp \in Seq(ToSet(source.bytes)) /\ Len(wp) = Len(w) + n
  BY <1>4, <1>8, Followed
<1> HIDE DEF wp
<1>10. AtStart(pass.part, f, wp, pass.left, q)
  <2>1. Len(f) + Len(wp) <= FileBytes
    BY <1>3, <1>6, <1>7, <1>9
  <2> QED  BY <1>1, <1>3, <1>9, <2>1 DEF AtStart
<1>11. PICK s, fed, left, block :
        s = pass' /\ fed = pass.fed /\ left = pass.left /\ block = pass.block
  OBVIOUS
<1>12. IsAt(s, pass.part, f, wp, fed, left, block)
  <2>1. PICK o : o = pass
    OBVIOUS
  <2>2. WithWorkspace(s, o, wp)
    BY <1>1, <1>11, <2>1 DEF WithWorkspace
  <2>3. IsAt(o, pass.part, f, w, fed, left, block)
    BY <1>3, <1>11, <2>1
  <2> QED  BY <2>2, <2>3, WorkspaceIs
<1>13. PassIs(s, q)
  <2>1. AtStart(pass.part, f, wp, left, q)
    BY <1>10, <1>11
  <2> QED  BY <1>12, <2>1, PassAt
<1>14. s.fed = fed /\ s.block = block /\ s.part = pass.part
  BY <1>12, AtIs
<1>15. at' \in Nat
  <2>1. at + n \in Nat /\ Lost \in Nat
    BY <1>3, <1>5, <1>7 DEF Lost
  <2> QED  BY <1>1, <2>1
<1> QED  BY <1>1, <1>2, <1>11, <1>13, <1>14, <1>15, SamePass

LEMMA CompressedSent ==
    ASSUME SentInv, PassCompressed
    PROVE  SentInv'
<1>1. /\ InPass("padding") /\ OnlyPass /\ UNCHANGED at /\ pass.part = "padding" /\ pass.left = 0
      /\ phase = "body" /\ sizing.zlib /\ data = <<>> /\ source.kind # "prepared"
      /\ pass' = [pass EXCEPT !.part = "compressed"] /\ data' = Deflate(pass.fed)
  BY DEF PassCompressed, InPass, SinkTook
<1>2. PICK q : Held(q)
  BY <1>1, PassHeld
<1>3. AtStart(pass.part, pass.file, pass.workspace, pass.left, q) /\ ArchiveBytes \in Nat
  BY <1>2, StandsAt
<1> DEFINE z == Deflate(q)  h == BlockHeader(sizing.bytes, FALSE)
<1>4. z \in Seq(Content)
  BY <1>1, <1>2, WholeArchive DEF Held
<1>5. h \in Seq(Content)
  <2>1. sizing.bytes \in Nat
    BY <1>1, <1>3 DEF SentInv, Announced
  <2> QED  BY <2>1, BlockHeaderIs
<1>6. pass.fed = q
  BY <1>1, <1>2 DEF Held, InBody, Gives
<1>7. /\ PassIs(pass', q) /\ pass'.fed = q /\ pass'.part = "compressed"
  <2>1. PICK p, file, workspace, fed, left, block :
          /\ file = pass.file /\ workspace = pass.workspace /\ fed = pass.fed
          /\ left = pass.left /\ block = pass.block /\ p = pass'
    OBVIOUS
  <2>2. p = At("compressed", file, workspace, fed, left, block)
    BY <1>1, <1>2, <2>1, TurnTo
  <2>3. IsAt(p, "compressed", file, workspace, fed, left, block)
    BY <2>2 DEF IsAt
  <2>4. AtStart("compressed", file, workspace, left, q)
    BY <1>1, <1>3, <2>1 DEF AtStart
  <2>5. PassIs(p, q)
    BY <2>3, <2>4, PassAt
  <2>6. p.fed = fed /\ p.part = "compressed"
    BY <2>3, AtIs
  <2> QED  BY <1>6, <2>1, <2>5, <2>6
<1>8. data' = z
  BY <1>1, <1>6
<1> HIDE DEF z, h
<1>9. data' \in Seq(WireBytes)
  BY <1>4, <1>8, WireIs, SeqMonotonic
<1>10. ASSUME NEW g, Gives(pass, q, g) PROVE Gives(pass', q, g \o data')
  <2>1. g = h \o <<>>
    BY <1>1, <1>10 DEF Gives, h
  <2>2. g = h
    BY <1>5, <2>1, Nothing
  <2>3. g \o data' = h \o z
    BY <1>8, <2>2
  <2> QED  BY <1>1, <1>7, <2>3 DEF Gives, h, z
<1>11. at' \in Nat
  BY <1>1 DEF SentInv, Located
<1> QED  BY <1>1, <1>2, <1>7, <1>9, <1>10, <1>11, PassGoes

\* The file has been sized and is to be sent.
LEMMA SizedSent ==
    ASSUME SentInv, Sized
    PROVE  SentInv'
<1>1. /\ InPass("padding") /\ pass.part = "padding" /\ pass.left = 0 /\ phase = "sizing"
      /\ data = <<>> /\ out = <<>>
  BY DEF Sized, InPass, SinkTook
<1>2. CASE Fails("stream")
  BY <1>1, <1>2, FailureSent
<1>3. CASE ~Fails("stream")
  <2> DEFINE z == Deflate(pass.fed)
  <2>1. /\ at' = 0 /\ phase' = "head" /\ pass' = NewPass(Len(pass.fed))
        /\ sizing' = [zlib |-> use_single_zlib_block(Len(pass.fed), Len(z)),
                      bytes |-> Len(z), crc |-> crc32(pass.file)]
        /\ UNCHANGED <<source, request, out, wire, data, sink, result>>
    BY <1>3 DEF Sized
  <2>2. PICK q : Held(q)
    BY <1>1, PassHeld
  <2>3. pass.fed = q /\ wire = <<>> /\ PassIs(pass, q) /\ source \in Sources
    BY <1>1, <2>2 DEF Held
  <2>4. Len(pass.fed) = ArchiveBytes /\ Len(z) \in Nat
    BY <1>1, <2>3, WholeArchive
  <2>5. ArchiveBytes' = ArchiveBytes /\ ArchiveBytes \in Nat
    BY <2>1, <2>3, SourceIs DEF ArchiveBytes, FileBytes
  <2> HIDE DEF z
  <2>6. Located'
    BY <1>1, <2>1, <2>3 DEF SentInv, Located, Phases
  <2>7. Announced'
    <3>1. PICK n : n = Len(z)
      OBVIOUS
    <3>2. /\ sizing'.zlib = (n > 0 /\ n < ArchiveBytes /\ n <= DvzipBlock) /\ sizing'.bytes = n
      BY <2>1, <2>4, <3>1, Zenon DEF use_single_zlib_block
    <3>3. n \in Nat
      BY <2>4, <3>1
    <3>4. sizing'.zlib => n \in 1 .. ArchiveBytes - 1
      <4>1. sizing'.zlib => n > 0 /\ n < ArchiveBytes
        BY <3>2, Zenon
      <4>2. n > 0 /\ n < ArchiveBytes => n \in 1 .. ArchiveBytes - 1
        BY <2>5, <3>3
      <4> QED  BY <4>1, <4>2
    <3>5. sizing'.zlib \in BOOLEAN
      BY <3>2
    <3>6. source'.kind = "spool" /\ phase' # "idle"
      BY <1>1, <2>1 DEF SentInv, Located
    <3> QED  BY <2>5, <3>2, <3>4, <3>5, <3>6 DEF Announced
  <2>8. HeadGoing'
    <3>1. pass' = NewPass(ArchiveBytes)'
      BY <2>1, <2>4, <2>5 DEF NewPass
    <3>2. wire' = <<>> /\ out' = <<>> /\ <<>> \in Seq(WireBytes)
      BY <1>1, <2>1, <2>3, EmptySeq
    <3> QED  BY <3>1, <3>2 DEF HeadGoing
  <2> QED  BY <2>1, <2>6, <2>7, <2>8 DEF SentInv, Progress
<1> QED  BY <1>2, <1>3

-----------------------------------------------------------------------------
(***************************************************************************)
(* Every step.                                                             *)
(***************************************************************************)

LEMMA TakenSent ==
    ASSUME SentInv, phase = "reading", NEW n, NEW end_of_stream, Taken(n, end_of_stream)
    PROVE  SentInv'
<1> DEFINE parsed == parse_discover_response(Received(n), end_of_stream)
           error == IF parsed.state = "complete" THEN "none" ELSE "parse"
<1>1. CASE parsed.state = "incomplete"
  BY <1>1, Untouched DEF Taken, sourceVars
<1>2. CASE parsed.state # "incomplete"
  <2>1. Understood(parsed)
    BY <1>2 DEF Taken
  <2>2. CASE Accepted(parsed)
    <3>1. request = "ask" /\ UploadBegins
      BY <2>1, <2>2 DEF Understood, Accepted
    <3>2. request # "upload"
      BY <3>1
    <3> QED  BY <3>1, <3>2, UploadSent
  <2>3. CASE ~Accepted(parsed)
    <3>1. Ends(Result(StageOf, error, parsed.status_code, parsed.body_bytes))
      BY <2>1, <2>3 DEF Understood
    <3>2. StageOf = "upload" => request = "upload"
      BY DEF StageOf
    <3> HIDE DEF error, parsed
    <3> QED  BY <3>1, <3>2, EndsSent
  <2> QED  BY <2>2, <2>3
<1> QED  BY <1>1, <1>2

LEMMA WrittenToEnd ==
    ASSUME SentInv, Written
    PROVE  SentInv'
<1>1. /\ out = <<>> /\ phase \in {"question", "last"} /\ phase' = "reading"
      /\ UNCHANGED <<source, request, out, wire, at, pass, sizing, data, sink, result>>
  BY DEF Written, sourceVars
<1>2. Located' /\ Announced'
  <2>1. Announced'
    BY <1>1, AnnouncedKept DEF SentInv
  <2> QED  BY <1>1, <2>1 DEF SentInv, Located, Phases
<1>3. CASE phase = "question"
  BY <1>1, <1>2, <1>3, Elsewhere DEF SentInv, Located
<1>4. CASE phase = "last"
  <2>1. wire \in Seq(AllBytes) /\ Sent(wire \o out)
    BY <1>4 DEF SentInv, Progress, LastSent
  <2>2. wire \o out = wire
    BY <1>1, <2>1, Nothing
  <2>3. Sent(wire)
    BY <2>1, <2>2
  <2>4. Sent(wire)'
    BY <1>1, <2>3, SentStays
  <2> QED  BY <1>1, <1>2, <2>4 DEF SentInv, Progress
<1> QED  BY <1>1, <1>3, <1>4

LEMMA CloseSent ==
    ASSUME SentInv, Close
    PROVE  SentInv'
<1>1. /\ phase = "done" /\ phase' = "idle" /\ source' = NoSource /\ request' = "none" /\ at' = 0
      /\ sizing' = NoSizing /\ result' = NoResult /\ UNCHANGED <<out, data, sink>>
  BY DEF Close
<1>2. Located'
  BY <1>1 DEF SentInv, Located, Phases
<1>3. Announced'
  BY <1>1 DEF Announced, NoSizing
<1> QED  BY <1>1, <1>2, <1>3, Elsewhere

LEMMA ConnectSent ==
    ASSUME SentInv, NEW file \in Sources, Connect(file)
    PROVE  SentInv'
<1>1. /\ phase = "idle" /\ phase' = "handshake" /\ source' = file
      /\ UNCHANGED <<request, out, wire, at, pass, sizing, data, sink, result>>
  BY DEF Connect, sourceVars
<1>2. request # "upload" /\ ~sizing.zlib /\ sizing.zlib \in BOOLEAN
  BY <1>1 DEF SentInv, Located, Announced
<1>3. Located'
  BY <1>1, <1>2 DEF SentInv, Located, Phases
<1>4. Announced'
  BY <1>1, <1>2 DEF Announced
<1> QED  BY <1>1, <1>2, <1>3, <1>4, Elsewhere

LEMMA AskedSent ==
    ASSUME SentInv, HandshakeDone
    PROVE  SentInv'
<1>1. /\ phase = "handshake" /\ phase' = "question" /\ request' \in {"discover", "ask"}
      /\ UNCHANGED <<source, wire, at, pass, sizing, data, sink, result>>
  BY DEF HandshakeDone, perform_discover, perform_ask, Asks, sourceVars
<1>2. Located'
  BY <1>1 DEF SentInv, Located, Phases
<1>3. Announced'
  BY <1>1, AnnouncedKept DEF SentInv
<1> QED  BY <1>1, <1>2, <1>3, Elsewhere

LEMMA NetworkSent ==
    ASSUME SentInv, NetworkStep
    PROVE  SentInv'
<1>1. CASE WriteFails
  BY <1>1, FailureSent DEF WriteFails, Writing
<1>2. CASE ReadEof
  BY <1>2, TakenSent DEF ReadEof
<1>3. CASE ReadFails
  BY <1>3, FailureSent DEF ReadFails
<1>4. CASE ReceiverCloses
  BY <1>4, Untouched DEF ReceiverCloses, sourceVars
<1>5. ASSUME NEW n, WriteSome(n) PROVE SentInv'
  BY <1>5, WrittenSent
<1>6. ASSUME NEW n, ReadSome(n) PROVE SentInv'
  BY <1>6, TakenSent DEF ReadSome
<1>7. ASSUME NEW a, ReceiverAnswers(a) PROVE SentInv'
  BY <1>7, Untouched DEF ReceiverAnswers, sourceVars
<1> QED  BY <1>1, <1>2, <1>3, <1>4, <1>5, <1>6, <1>7 DEF NetworkStep

LEMMA TaskSent ==
    ASSUME SentInv, TaskStep
    PROVE  SentInv'
<1>0. PassError # "none"
  BY DEF PassError
<1>1. CASE HandshakeTimeout
  <2>1. phase = "handshake" /\ Ends(Result("tls", "timeout", 0, 0))
    BY <1>1 DEF HandshakeTimeout, HandshakeFails
  <2> QED  BY <2>1, EndsSent
<1>2. CASE Written
  BY <1>2, WrittenToEnd
<1>3. CASE WriteTimeout
  BY <1>3, FailureSent DEF WriteTimeout, Writing
<1>4. CASE ReadOverflow
  BY <1>4, FailureSent DEF ReadOverflow
<1>5. CASE ReadTimeout
  <2> DEFINE parsed == parse_discover_response(Received(got), FALSE)
             status == IF parsed.state = "invalid" THEN 0 ELSE parsed.status_code
  <2>1. phase = "reading" /\ Ends(Result(StageOf, "timeout", status, 0))
    BY <1>5 DEF ReadTimeout
  <2>2. StageOf = "upload" => request = "upload"
    BY DEF StageOf
  <2> HIDE DEF status
  <2> QED  BY <2>1, <2>2, EndsSent
<1>6. CASE PassHeader \/ PassFile \/ PassTrailer \/ PassPadding \/ PassCompressed
  BY <1>6, HeaderSent, FileSent, TrailerSent, PaddingSent, CompressedSent
<1>7. CASE SourceStep
  <2>1. ASSUME NEW n, PreparedReads(n) PROVE SentInv'
    BY <2>1, PreparedSent
  <2>2. ASSUME NEW n, NEW from \in {0, at}, SourceReads(n, from) PROVE SentInv'
    BY <2>2, ReadSent
  <2>3. CASE SourceFails
    BY <1>0, <2>3, FailureSent DEF SourceFails, InPass
  <2>4. CASE PreparedFails
    BY <2>4, FailureSent DEF PreparedFails
  <2> QED  BY <1>7, <2>1, <2>2, <2>3, <2>4 DEF SourceStep
<1>8. CASE Sized
  BY <1>8, SizedSent
<1>9. CASE HeadBuilt
  BY <1>9, HeadBuiltSent
<1>10. CASE BodyBegins
  BY <1>10, BodyBeginsSent
<1>11. CASE buffer_upload_chunk
  BY <1>11, BufferSent
<1>12. CASE BodyEnds
  BY <1>12, BodyEndsSent
<1>13. CASE BodyDiffers
  BY <1>13, FailureSent DEF BodyDiffers, BodyGiven
<1>14. CASE Close
  BY <1>14, CloseSent
<1> QED  BY <1>1, <1>2, <1>3, <1>4, <1>5, <1>6, <1>7, <1>8, <1>9, <1>10, <1>11, <1>12, <1>13,
            <1>14 DEF TaskStep

LEMMA SentStep ==
    ASSUME SentInv, [ExchangeNext]_exchangeVars
    PROVE  SentInv'
<1>1. ASSUME NEW file \in Sources, Connect(file) PROVE SentInv'
  BY <1>1, ConnectSent
<1>2. CASE HandshakeDone
  BY <1>2, AskedSent
<1>3. CASE HandshakeFails("refused")
  <2>1. phase = "handshake" /\ Ends(Result("tls", "refused", 0, 0))
    BY <1>3 DEF HandshakeFails
  <2> QED  BY <2>1, EndsSent
<1>4. CASE RequestNotBuilt
  BY <1>4, FailureSent DEF RequestNotBuilt
<1>5. CASE CompressorFails
  <2>1. PassError # "none"
    BY DEF PassError
  <2> QED  BY <1>5, <2>1, FailureSent DEF CompressorFails
<1>6. CASE DeadlinePasses
  BY <1>6, Untouched DEF DeadlinePasses, sourceVars
<1>7. CASE UNCHANGED exchangeVars
  BY <1>7, Untouched DEF exchangeVars, sourceVars
<1> QED  BY <1>1, <1>2, <1>3, <1>4, <1>5, <1>6, <1>7, NetworkSent, TaskSent DEF ExchangeNext

LEMMA SentInit ==
    ASSUME ExchangeInit
    PROVE  SentInv
<1>1. Located
  BY DEF ExchangeInit, Located, Phases, NoResult, Result
<1>2. Announced
  BY DEF ExchangeInit, Announced, NoSizing
<1>3. Progress
  BY DEF ExchangeInit, Progress
<1> QED  BY <1>1, <1>2, <1>3 DEF SentInv

\* Whatever happens to the source and on the network: a request that was
\* written to its end is one the receiver can read, and holds what was
\* announced.
THEOREM RequestsDecode == ExchangeSpec => []RequestDecodes
<1>1. ExchangeInit => SentInv
  BY SentInit
<1>2. SentInv /\ [ExchangeNext]_exchangeVars => SentInv'
  BY SentStep
<1>3. SentInv => RequestDecodes
  <2>1. SUFFICES ASSUME SentInv, request = "upload", phase \in {"reading", "done"}, wire # <<>>,
                        Last(wire) = Byte("end", 0)
                 PROVE  RequestDecodes
    BY DEF RequestDecodes
  <2>2. Sent(wire)
    BY <2>1 DEF SentInv, Progress, DoneSent
  <2>3. PICK m, body : Sending(m, payload_bytes, body) /\ Ended(wire, m) /\ Right(body)
    BY <2>2 DEF Sent
  <2>4. Dechunked(SubSeq(wire, 2, Len(wire) - 1)) = body /\ Value(wire[1]) = payload_bytes
    BY <2>3, SentRead
  <2> QED  BY <2>3, <2>4 DEF RequestDecodes, Right
<1> QED  BY <1>1, <1>2, <1>3, PTL DEF ExchangeSpec

\* Success is published for a request that was sent to its end and answered
\* with 200, and for every one of which that can be told.
THEOREM SuccessesAsAnswered == ExchangeSpec => []SuccessAsAnswered
<1>1. ExchangeInit => SentInv /\ Heard
  <2>1. ExchangeInit => Heard
    BY DEF ExchangeInit, Heard, AnswerAsSent
  <2> QED  BY <2>1, SentInit
<1>2. SentInv /\ Heard /\ [ExchangeNext]_exchangeVars => SentInv' /\ Heard'
  BY SentStep, HeardStep
<1>3. SentInv /\ Heard => SuccessAsAnswered
  <2>1. SUFFICES ASSUME SentInv, Heard, phase = "done" PROVE SuccessAsAnswered
    BY DEF SuccessAsAnswered
  <2>2. ASSUME upload_accepted
        PROVE  /\ request = "upload" /\ wire # <<>> /\ Last(wire) = Byte("end", 0)
               /\ answer.status = 200 /\ answer.framing # "malformed"
    <3>1. request = "upload" /\ result.error = "none" /\ result.status = 200
      BY <2>1, <2>2 DEF upload_accepted, SentInv, Located
    <3>2. Sent(wire)
      BY <2>1, <3>1 DEF SentInv, Progress, DoneSent
    <3>3. PICK m, body : Sending(m, payload_bytes, body) /\ Ended(wire, m)
      BY <3>2 DEF Sent
    <3>4. wire # <<>> /\ Last(wire) = Byte("end", 0)
      BY <3>3, SentRead
    <3>5. answer.status = 200 /\ answer.framing # "malformed"
      BY <2>1, <3>1 DEF Heard, AnswerAsSent, SelfDelimited
    <3> QED  BY <3>1, <3>4, <3>5
  <2>3. request = "upload" /\ SelfDelimited /\ AllRead /\ answer.status = 200 => upload_accepted
    BY <2>1 DEF Heard
  <2> QED  BY <2>2, <2>3 DEF SuccessAsAnswered
<1> QED  BY <1>1, <1>2, <1>3, PTL DEF ExchangeSpec

=============================================================================
