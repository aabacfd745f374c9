----------------------------- MODULE OtaUpdate -----------------------------
(***************************************************************************)
(* One-shot OTA maintenance: main/ota_update.c, the boot sequence of       *)
(* app_main (main/main.c) and the OTA command of the serial task.          *)
(*                                                                         *)
(* What survives a restart is NVS (the request, its URL, wifi_ready) and   *)
(* flash (two app slots and the bootloader's record of them).  Power may   *)
(* fail at every step; an image may be foreign or may never finish its     *)
(* start-up.  The bootloader and the image writer are ESP-IDF's.           *)
(***************************************************************************)
EXTENDS Naturals

CONSTANTS
    Images,         \* firmware images a server may hold
    Genuine,        \* those whose descriptor names the espdrop project
    Healthy,        \* those that reach the end of app_main
    Partial,        \* slot contents that are no complete image
    First,          \* image flashed over USB
    Urls, Secure,   \* request URLs, and the https ones among them
    NoUrl,
    GithubUrl,      \* ESPDROP_OTA_URL
    PowerLoss,      \* power may fail
    NvsFaults       \* an NVS write or read may fail

ASSUME OtaAssumption ==
    /\ Genuine \subseteq Images /\ Healthy \subseteq Images
    /\ First \in Genuine \cap Healthy
    /\ Partial \notin Images
    /\ Secure \subseteq Urls /\ GithubUrl \in Secure /\ NoUrl \notin Urls
    /\ PowerLoss \in BOOLEAN /\ NvsFaults \in BOOLEAN

Slots == {0, 1}
Other(s) == 1 - s

VARIABLES
    ota_pending, ota_url, wifi_ready,   \* NVS
    image, state, boot,     \* slots: contents, otadata state, selected one
    running, phase,         \* main task: running slot, where app_main is
    url, incoming,          \*   URL it read, image it downloads
    ota_serial, request,    \* serial task: program point, URL of the command
    attempts,               \* history: networked since the last request, 0..2
    requested, armed,       \* history: URL of the last request that set the
                            \*   flag, and whether its URL was stored too
    armed_url               \* history: the last URL that was stored

nvsVars  == <<ota_pending, ota_url, wifi_ready>>
slotVars == <<image, state, boot>>
mainVars == <<running, phase, url, incoming>>
serialVars == <<ota_serial, request>>
historyVars == <<attempts, requested, armed, armed_url>>
otaVars == <<nvsVars, slotVars, mainVars, serialVars, historyVars>>

\* app_main before the request is read, inside ota_update_apply_pending, and
\* in the modes in which the serial task runs.
Maintenance == {"apply", "consume", "consume_url", "net", "download"}
Normal == {"init", "ready", "provision"}

OtaTypeOK ==
    /\ ota_pending \in BOOLEAN /\ wifi_ready \in BOOLEAN
    /\ ota_url \in Urls \cup {NoUrl}
    /\ image \in [Slots -> Images \cup {Partial}]
    /\ state \in [Slots -> {"undefined", "new", "pending_verify", "valid",
                            "aborted"}]
    /\ boot \in Slots /\ running \in Slots
    /\ phase \in {"off", "start"} \cup Maintenance \cup Normal
    /\ url \in Urls \cup {NoUrl}
    /\ phase \in Maintenance \ {"apply"} => url # NoUrl
    /\ incoming \in Images \cup {Partial}
    /\ ota_serial \in {"idle", "pending", "url", "armed"}
    /\ request \in Urls \cup {NoUrl}
    /\ attempts \in 0 .. 2
    /\ requested \in Urls \cup {NoUrl} /\ armed_url \in Urls \cup {NoUrl}
    /\ armed \in BOOLEAN

OtaInit ==
    /\ ota_pending = FALSE /\ ota_url = NoUrl /\ wifi_ready = FALSE
    /\ image = [s \in Slots |-> IF s = 0 THEN First ELSE Partial]
    /\ state = [s \in Slots |-> IF s = 0 THEN "valid" ELSE "undefined"]
    /\ boot = 0 /\ running = 0 /\ phase = "off"
    /\ url = NoUrl /\ incoming = Partial
    /\ ota_serial = "idle" /\ request = NoUrl
    /\ attempts = 0
    /\ requested = NoUrl /\ armed = FALSE /\ armed_url = NoUrl

\* esp_restart, a panic or power loss: RAM is gone.
TurnOff ==
    /\ phase' = "off"
    /\ url' = NoUrl /\ incoming' = Partial
    /\ ota_serial' = "idle" /\ request' = NoUrl
    /\ UNCHANGED running

PowerFails ==
    /\ PowerLoss /\ phase # "off"
    /\ TurnOff
    /\ UNCHANGED <<nvsVars, slotVars, historyVars>>

\* ESPDROP RESTART
HostRestart ==
    /\ phase \in Normal /\ ota_serial = "idle"
    /\ TurnOff
    /\ UNCHANGED <<nvsVars, slotVars, historyVars>>

-----------------------------------------------------------------------------
(***************************************************************************)
(* Bootloader and app_main.                                                *)
(***************************************************************************)

\* The bootloader gives a new image one start; if it comes by again before
\* the image was confirmed, it goes back to the other slot.
Bootloader ==
    /\ phase = "off"
    /\ IF state[boot] = "pending_verify"
       THEN /\ state' = [state EXCEPT ![boot] = "aborted"]
            /\ boot' = Other(boot)
       ELSE /\ state' = [state EXCEPT ![boot] = IF @ = "new" THEN "pending_verify" ELSE @]
            /\ UNCHANGED boot
    /\ running' = boot'
    /\ phase' = "start"
    /\ UNCHANGED <<nvsVars, image, url, incoming, serialVars, historyVars>>

\* app_main up to its first branch: maintenance, provisioning or normal.
Start ==
    /\ phase = "start"
    /\ phase' = IF ota_pending THEN "apply"
                ELSE IF wifi_ready THEN "init" ELSE "provision"
    /\ UNCHANGED <<nvsVars, slotVars, running, url, incoming, serialVars,
                   historyVars>>

\* nvs_flash_init finds no free pages or a new version: NVS is erased.
NvsErased ==
    /\ phase = "start"
    /\ ota_pending' = FALSE /\ ota_url' = NoUrl /\ wifi_ready' = FALSE
    /\ phase' = "provision"
    /\ requested' = NoUrl /\ armed' = FALSE /\ armed_url' = NoUrl
    /\ UNCHANGED <<slotVars, running, url, incoming, serialVars, attempts>>

\* ota_update_apply_pending: read_request_url, GitHub if there is none ...
ReadUrl ==
    /\ phase = "apply"
    /\ url' = IF ota_url = NoUrl THEN GithubUrl ELSE ota_url
    /\ phase' = "consume"
    /\ UNCHANGED <<nvsVars, slotVars, running, incoming, serialVars,
                   historyVars>>

\* Mutant: the request is left in place until the update is done.
Consume_later ==
    /\ phase = "consume"
    /\ phase' = "consume_url"
    /\ UNCHANGED <<nvsVars, slotVars, running, url, incoming, serialVars,
                   historyVars>>

\* ... write_request(0, NULL) clears the flag ...
Consume ==
    /\ phase = "consume"
    /\ ota_pending' = FALSE
    /\ phase' = "consume_url"
    /\ UNCHANGED <<ota_url, wifi_ready, slotVars, running, url, incoming,
                   serialVars, historyVars>>

\* ... and erases the URL; networking starts.
ConsumeUrl ==
    /\ phase = "consume_url"
    /\ ota_url' = NoUrl
    /\ attempts' = IF attempts = 0 THEN 1 ELSE 2
    /\ phase' = "net"
    /\ UNCHANGED <<ota_pending, wifi_ready, slotVars, running, url, incoming,
                   serialVars, requested, armed, armed_url>>

\* One of these NVS calls fails: apply_pending returns, app_main restarts.
ConsumeFails ==
    /\ NvsFaults /\ phase \in {"apply", "consume", "consume_url"}
    /\ TurnOff
    /\ UNCHANGED <<nvsVars, slotVars, historyVars>>

\* Wi-Fi, clock or server fail, the image is foreign, or it is the version
\* that runs and came over https: restart.
NetFails ==
    /\ phase = "net"
    /\ TurnOff
    /\ UNCHANGED <<nvsVars, slotVars, historyVars>>

\* Mutant: the project name is not looked at.
Installable_any(img) == ~ (url \in Secure /\ img = image[running])

\* validate_description and the version test.
Installable(img) ==
    /\ img \in Genuine
    /\ ~ (url \in Secure /\ img = image[running])

\* The server's image is installable: the inactive slot is overwritten.
Fetch(img) ==
    /\ phase = "net"
    /\ Installable(img)
    /\ incoming' = img
    /\ image' = [image EXCEPT ![Other(running)] = Partial]
    /\ phase' = "download"
    /\ UNCHANGED <<nvsVars, state, boot, running, url, serialVars,
                   historyVars>>

\* The download breaks off or the image does not verify: aborted, restart.
DownloadFails ==
    /\ phase = "download"
    /\ TurnOff
    /\ UNCHANGED <<nvsVars, slotVars, historyVars>>

\* esp_https_ota_finish selects the new slot; restart into verification.
Install ==
    /\ phase = "download"
    /\ image' = [image EXCEPT ![Other(running)] = incoming]
    /\ state' = [state EXCEPT ![Other(running)] = "new"]
    /\ boot' = Other(running)
    /\ TurnOff
    /\ UNCHANGED <<nvsVars, historyVars>>

\* Mutant: the image is confirmed before its start-up is over.
Confirm_at_once ==
    /\ phase = "init"
    /\ state' = [state EXCEPT ![running] = IF @ = "pending_verify" THEN "valid" ELSE @]
    /\ phase' = "ready"
    /\ UNCHANGED <<nvsVars, image, boot, running, url, incoming, serialVars,
                   historyVars>>

\* The end of app_main: ota_update_confirm_running.
Confirm ==
    /\ phase = "init"
    /\ image[running] \in Healthy
    /\ state' = [state EXCEPT ![running] = IF @ = "pending_verify" THEN "valid" ELSE @]
    /\ phase' = "ready"
    /\ UNCHANGED <<nvsVars, image, boot, running, url, incoming, serialVars,
                   historyVars>>

\* ESP_ERROR_CHECK of a start-up step fails: panic.
StartupPanics ==
    /\ phase = "init"
    /\ image[running] \notin Healthy
    /\ TurnOff
    /\ UNCHANGED <<nvsVars, slotVars, historyVars>>

-----------------------------------------------------------------------------
(***************************************************************************)
(* Serial task.                                                            *)
(***************************************************************************)

\* Improv provisioning succeeds: wifi_ready is stored, restart.
Provision ==
    /\ phase = "provision"
    /\ wifi_ready' = TRUE
    /\ TurnOff
    /\ UNCHANGED <<ota_pending, ota_url, slotVars, historyVars>>

\* ESPDROP OTA [url] with a valid URL on a provisioned device.
OtaCommand(u) ==
    /\ phase \in {"init", "ready"} /\ wifi_ready
    /\ ota_serial = "idle"
    /\ request' = u
    /\ ota_serial' = "pending"
    /\ UNCHANGED <<nvsVars, slotVars, mainVars, historyVars>>

\* write_request(1, url): the flag ...
RequestPending ==
    /\ ota_serial = "pending"
    /\ ota_pending' = TRUE
    /\ attempts' = 0 /\ requested' = request /\ armed' = FALSE
    /\ ota_serial' = "url"
    /\ UNCHANGED <<ota_url, wifi_ready, slotVars, mainVars, request,
                   armed_url>>

\* Mutant: a URL that is already stored is kept.
RequestUrl_kept ==
    /\ ota_serial = "url"
    /\ ota_url' = IF ota_url = NoUrl THEN request ELSE ota_url
    /\ armed' = TRUE /\ armed_url' = request
    /\ ota_serial' = "armed"
    /\ UNCHANGED <<ota_pending, wifi_ready, slotVars, mainVars, request,
                   attempts, requested>>

\* ... and the URL; OTA-ARMED is answered.
RequestUrl ==
    /\ ota_serial = "url"
    /\ ota_url' = request
    /\ armed' = TRUE /\ armed_url' = request
    /\ ota_serial' = "armed"
    /\ UNCHANGED <<ota_pending, wifi_ready, slotVars, mainVars, request,
                   attempts, requested>>

\* The NVS write fails: an error is answered, what was written stays.
RequestFails ==
    /\ NvsFaults /\ ota_serial \in {"pending", "url"}
    /\ ota_serial' = "idle" /\ request' = NoUrl
    /\ UNCHANGED <<nvsVars, slotVars, mainVars, historyVars>>

\* arm_ota_and_restart
ArmedRestart ==
    /\ ota_serial = "armed"
    /\ TurnOff
    /\ UNCHANGED <<nvsVars, slotVars, historyVars>>

-----------------------------------------------------------------------------

\* Steps the device takes by itself.
DeviceStep ==
    \/ Bootloader \/ Start
    \/ ReadUrl \/ Consume \/ ConsumeUrl \/ ConsumeFails
    \/ NetFails \/ (\E img \in Images : Fetch(img)) \/ DownloadFails \/ Install
    \/ Confirm \/ StartupPanics
    \/ RequestPending \/ RequestUrl \/ RequestFails \/ ArmedRestart

\* Steps of the host, the user and the power supply.
Environment ==
    \/ PowerFails \/ HostRestart \/ NvsErased \/ Provision
    \/ \E u \in Urls : OtaCommand(u)

OtaNext == DeviceStep \/ Environment

OtaSpec == OtaInit /\ [][OtaNext]_otaVars /\ WF_otaVars(DeviceStep)

-----------------------------------------------------------------------------
(***************************************************************************)
(* Properties.                                                             *)
(***************************************************************************)

\* One request, one attempt: whatever happens between the flag and the end of
\* the download, no further boot goes to the network ("Consume the request
\* before networking so a failed update cannot create a reboot loop",
\* ota_update.c:189).
OneAttempt == attempts <= 1

\* Maintenance never runs on an image that is still to be confirmed, so the
\* slot it overwrites is never the one the bootloader would go back to.
MaintenanceOnConfirmed ==
    phase \in Maintenance => boot = running /\ state[running] = "valid"

\* A confirmed image that starts.
Sound(s) == state[s] = "valid" /\ image[s] \in Healthy

\* The bootloader always ends up in an image that starts: the selected slot is
\* confirmed, or the other one is ("An interrupted download leaves the
\* currently selected app untouched", docs/ota.md:47).
Recoverable ==
    \/ Sound(boot)
    \/ state[boot] \in {"new", "pending_verify"} /\ Sound(Other(boot))

\* Nothing but an espDrop image is ever selected (validate_description).
SelectedIsGenuine == image[boot] \in Genuine

\* A request whose URL was stored, which is before it is answered OTA-ARMED,
\* is fetched from that URL.  One that was cut off between the flag and the
\* URL fetches from what an earlier request left there, or from GitHub:
\* write_request stores the flag first, and a consumed request whose URL was
\* not erased leaves it behind.
FetchesArmed ==
    phase \in {"net", "download"} =>
        IF armed THEN url = requested ELSE url \in {GithubUrl, armed_url}

\* Once power and NVS are reliable, the device comes back to a mode with
\* serial control, whatever the network and the image do: "It either installs
\* a different version or returns to normal mode after a bounded failure"
\* (docs/ota.md:30).
ReturnsToNormal ==
    <>[][~PowerFails /\ ~ConsumeFails]_otaVars => []<>(phase \in Normal)

=============================================================================
