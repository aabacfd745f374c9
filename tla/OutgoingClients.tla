-------------------------- MODULE OutgoingClients --------------------------
(***************************************************************************)
(* What the registry promises to any host and any set of senders that obey *)
(* the one rule of airdrop_outgoing.h ("A sender must pair every           *)
(* successful acquire with release").  The serial task is the host; the    *)
(* AWDL mDNS task is the only sender of the firmware, several are allowed  *)
(* here.  RelayStream and RelaySession are shown to implement Spec.        *)
(***************************************************************************)
EXTENDS OutgoingRegistry

CONSTANT Senders

VARIABLE held   \* held[s]: the descriptor sender s copied, NoFile if none

vars == <<registered, acquired, registered_file, transfer_result, held>>

TypeOK ==
    /\ RegistryTypeOK
    /\ held \in [Senders -> Files \cup {NoFile}]

Init ==
    /\ RegistryInit
    /\ held = [s \in Senders |-> NoFile]

HostSet(file) == outgoing_set(file) /\ UNCHANGED held

HostClear == outgoing_clear /\ UNCHANGED held

SenderAcquire(s) ==
    /\ held[s] = NoFile
    /\ outgoing_acquire
    /\ held' = [held EXCEPT ![s] = registered_file]

SenderComplete(s, state) ==
    /\ held[s] # NoFile
    /\ outgoing_complete(state)
    /\ UNCHANGED held

SenderRelease(s) ==
    /\ held[s] # NoFile
    /\ outgoing_release
    /\ held' = [held EXCEPT ![s] = NoFile]

Next ==
    \/ \E file \in Files : HostSet(file)
    \/ HostClear
    \/ \E s \in Senders :
        \/ SenderAcquire(s)
        \/ \E state \in {"success", "failed"} : SenderComplete(s, state)
        \/ SenderRelease(s)

Spec == Init /\ [][Next]_vars

-----------------------------------------------------------------------------

\* Two senders never hold the file at once: the ownership bit is set exactly
\* when one sender has an unreleased copy (acquire/release, lines 69-90).
\* That copy is of the descriptor in the slot: neither set nor clear replaces
\* it under a sender ("Fails while a sender holds it").
ExclusiveOwner ==
    /\ acquired <=> \E s \in Senders : held[s] # NoFile
    /\ \A s, t \in Senders : held[s] # NoFile /\ held[t] # NoFile => s = t
    /\ \A s \in Senders :
            held[s] # NoFile => registered /\ registered_file = held[s]

\* What a step may do to the transfer result.
TerminalResultStep ==
    /\ transfer_result' \in {"success", "failed"} /\ transfer_result' # transfer_result
            => /\ transfer_result = "pending"
               /\ \E s \in Senders : held[s] # NoFile /\ held[s] = registered_file'
    /\ transfer_result \in {"success", "failed"} /\ transfer_result' # transfer_result
            => \A s \in Senders : held'[s] = NoFile

\* A terminal result appears only while some sender holds the file it is
\* about, is never overwritten by another terminal result, and disappears
\* only when no sender holds a file ("Registering a new file resets the
\* result to PENDING; clearing it resets to NONE").
TerminalResult == [][TerminalResultStep]_vars

=============================================================================
