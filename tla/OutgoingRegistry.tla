-------------------------- MODULE OutgoingRegistry --------------------------
(***************************************************************************)
(* The outgoing-file registry of core/src/airdrop_outgoing.c: one file     *)
(* slot, an ownership bit and the terminal result of the transfer, all     *)
(* behind one spinlock.  Every operation of the C interface is one         *)
(* critical section and is therefore one atomic operator here; the modules *)
(* that call the registry conjoin these operators with their own steps.    *)
(* A refused call (ESP_ERR_INVALID_STATE) is the caller's branch on        *)
(* `acquired' with the registry unchanged.                                 *)
(***************************************************************************)

CONSTANTS
    Files,      \* file descriptors a caller may register (all pass valid_file)
    NoFile      \* the zeroed descriptor

ASSUME NoFileAssumption == NoFile \notin Files

VARIABLES
    registered,         \* a descriptor is in the slot
    acquired,           \* a sender holds the slot
    registered_file,    \* the descriptor
    transfer_result     \* state field of the terminal result

registryVars == <<registered, acquired, registered_file, transfer_result>>

\* espdrop_airdrop_outgoing_result_state_t
ResultState == {"none", "pending", "success", "failed"}

RegistryTypeOK ==
    /\ registered \in BOOLEAN
    /\ acquired \in BOOLEAN
    /\ registered_file \in Files \cup {NoFile}
    /\ registered => registered_file \in Files
    /\ transfer_result \in ResultState

\* Zero-initialised statics.
RegistryInit ==
    /\ registered = FALSE
    /\ acquired = FALSE
    /\ registered_file = NoFile
    /\ transfer_result = "none"

\* espdrop_airdrop_outgoing_set with a valid descriptor, not refused.
outgoing_set(file) ==
    /\ ~acquired
    /\ registered_file' = file
    /\ transfer_result' = "pending"
    /\ registered' = TRUE
    /\ UNCHANGED acquired

\* Mutant: clear leaves the result of the registration it ends.
outgoing_clear_but_result ==
    /\ ~acquired
    /\ registered_file' = NoFile
    /\ registered' = FALSE
    /\ UNCHANGED <<acquired, transfer_result>>

\* espdrop_airdrop_outgoing_clear, not refused.
outgoing_clear ==
    /\ ~acquired
    /\ registered_file' = NoFile
    /\ transfer_result' = "none"
    /\ registered' = FALSE
    /\ UNCHANGED acquired

\* espdrop_airdrop_outgoing_ready, also the condition under which
\* espdrop_airdrop_outgoing_acquire succeeds.
outgoing_ready == registered /\ ~acquired

\* espdrop_airdrop_outgoing_acquire returning true; the caller copies
\* registered_file in the same critical section.
outgoing_acquire ==
    /\ outgoing_ready
    /\ acquired' = TRUE
    /\ UNCHANGED <<registered, registered_file, transfer_result>>

outgoing_release ==
    /\ acquired' = FALSE
    /\ UNCHANGED <<registered, registered_file, transfer_result>>

\* espdrop_airdrop_outgoing_complete with a terminal state: the first result
\* of a registration is kept, later ones are dropped.
outgoing_complete(state) ==
    /\ state \in {"success", "failed"}
    /\ transfer_result' =
            IF registered /\ acquired /\ transfer_result = "pending"
            THEN state ELSE transfer_result
    /\ UNCHANGED <<registered, acquired, registered_file>>

=============================================================================
