----------------------------- MODULE AwdlTiming -----------------------------
(***************************************************************************)
(* When the relay transmits.  AWDL devices hop through a sequence of       *)
(* channels, one for each extended availability window (EAW), in phase     *)
(* with the device they follow.  A MIF tells the window counter and how    *)
(* long the current EAW still lasts, in time units (TU); from it           *)
(* espdrop_awdl_tx_state_from_mif computes a reference time, and the       *)
(* relay's own MIFs tell the next relay the same (core/src/awdl_tx.c).     *)
(* The worker of awdl_tx_lab.c sends when parent and target are both on    *)
(* the channel.                                                            *)
(*                                                                         *)
(* Two devices that are not relays have a clock of their own: "master" and *)
(* "target".  Relay "middle" follows the master; relay "self", whose       *)
(* worker is modelled, follows the middle and hears the target.  Times are *)
(* microseconds, scaled down.                                              *)
(***************************************************************************)
EXTENDS Integers, FiniteSets, FiniteSetsExt, Functions

CONSTANTS
    Tu,             \* AWDL_TU_US
    AwPeriod,       \* aw_period_tu
    Presence,       \* presence_mode: availability windows in an EAW
    Count,          \* peer_channel_count
    SequenceMod,    \* 2^16, the range of the window counter
    Guard,          \* AWDL_TX_LAB_CHANNEL_WINDOW_GUARD_US
    Pause,          \* the worker's delay after a window
    ProbeLimit,     \* AWDL_TX_LAB_PROBE_LIMIT
    Channel,        \* the channel the relay is on
    Channels,       \* device -> the channel sequences it may have
    Starts,         \* device -> the times its counter may show at time 0
    Deadline,       \* of the worker, and bound of the clock
    None

Devices == {"master", "target"}

\* A device's counter restarts after this time.
Cycle == SequenceMod * AwPeriod * Tu

ASSUME TimingAssumption ==
    /\ \A n \in {Tu, AwPeriod, Count, SequenceMod, Guard, Pause, ProbeLimit,
                 Deadline} : n \in Nat \ {0}
    /\ Presence \in {1, 2, 4, 8, 16}
    \* 65536 is a multiple of 16 slots of each of them
    /\ SequenceMod % (Presence * Count) = 0
    /\ Starts \in [Devices -> SUBSET (0 .. Cycle - 1)]
    /\ \A d \in Devices : \A s \in Channels[d] : DOMAIN s = 0 .. Count - 1

eaw_tu == AwPeriod * Presence
eaw_us == eaw_tu * Tu

\* The guard and the pause are longer than what two relays lose by counting in
\* whole units, and an EAW has room for the guard at both ends: 4000 us and
\* 20000 us, units of 1024 us and 64 of them in an EAW.
ASSUME GuardAssumption ==
    /\ 2 * (Tu - 1) < Guard /\ 2 * (Tu - 1) < Pause
    /\ 2 * Guard < eaw_us

\* The worker lasts longer than an EAW: 15 seconds at least, and 65 ms.
ASSUME DeadlineAssumption == eaw_us <= Deadline

VARIABLES
    now,
    device,         \* what the devices run by: their start and channels
    middle,         \* tx_state of the relay in between
    tx_state, target_state,     \* of the relay itself
    worker,         \* lab_tx_task
    scheduled,      \* scheduled_us
    resume,         \* when the worker's pause ends
    common,         \* target_snapshot_valid
    windows

vars == <<now, device, middle, tx_state, target_state, worker, scheduled,
          resume, common, windows>>

-----------------------------------------------------------------------------
(***************************************************************************)
(* MIFs and the states made from them.                                     *)
(***************************************************************************)

\* What a device does, whatever anyone makes of it: its counter, and the
\* channel of its current EAW.
Counter(d, t) == ((device[d].start + t) \div (AwPeriod * Tu)) % SequenceMod
OnChannel(d, t) ==
    device[d].channels[(Counter(d, t) \div Presence) % Count] = Channel

\* The MIF of a device, which counts its time units down from the EAW's
\* beginning.
device_mif(d, t) ==
    [tx_down |-> eaw_tu - (((device[d].start + t) \div Tu) % eaw_tu),
     aw |-> Counter(d, t),
     channels |-> device[d].channels]

\* Mutant: the counter goes on from the EAW it had when it was heard.
build_action_stands(s, t) ==
    LET elapsed_tu == (t - s.reference) \div Tu
        phase_tu   == elapsed_tu % eaw_tu
    IN  [tx_down |-> eaw_tu - phase_tu,
         aw |-> (s.base + phase_tu \div AwPeriod) % SequenceMod,
         channels |-> s.channels]

\* espdrop_awdl_build_action: the MIF of a relay with state s.
build_action(s, t) ==
    LET elapsed_tu == (t - s.reference) \div Tu
        phase_tu   == elapsed_tu % eaw_tu
    IN  [tx_down |-> eaw_tu - phase_tu,
         aw |-> (s.base + (elapsed_tu \div eaw_tu) * Presence
                        + phase_tu \div AwPeriod) % SequenceMod,
         channels |-> s.channels]

\* espdrop_awdl_tx_state_from_mif of a MIF received at time t: the EAW began
\* as many time units ago as tx_down lacks to a whole one.
state_from_mif(mif, t) ==
    LET down_tu == mif.tx_down % eaw_tu
        elapsed == IF down_tu = 0 THEN 0 ELSE (eaw_tu - down_tu) * Tu
    IN  [reference |-> IF t >= elapsed THEN t - elapsed ELSE 0,
         base |-> mif.aw - (mif.aw % Presence),
         channels |-> mif.channels]

-----------------------------------------------------------------------------
(***************************************************************************)
(* Windows.                                                                *)
(***************************************************************************)

\* channel_window_at
channel_window_at(s, t) ==
    LET eaws == (t - s.reference) \div eaw_us
    IN  [start |-> s.reference + eaws * eaw_us,
         end |-> s.reference + (eaws + 1) * eaw_us,
         channel |-> s.channels[(s.base \div Presence + eaws) % Count]]

\* espdrop_awdl_next_channel_window_us: the parent's next guarded EAW.
next_channel_window(s, t) ==
    LET current   == channel_window_at(s, t).start
        candidate(offset) == current + offset * eaw_us + Guard
        found == {offset \in 0 .. Count :
                    /\ channel_window_at(s, current + offset * eaw_us).channel = Channel
                    /\ candidate(offset) >= t}
    IN  IF Guard >= eaw_us \/ found = {} THEN None ELSE candidate(Min(found))

boundary_limit == 2 * (Count + Count) + 2

\* Mutant: the guard is applied to the beginning only.
safe_end_unguarded(l, p) == Min({l.end, p.end})

\* Where a window of the parent and one of the target overlap, with the guard.
safe_start(l, p) == Max({l.start + Guard, p.start + Guard})
safe_end(l, p) == Min({l.end - Guard, p.end - Guard})

\* The end of the window of either, whichever is first.
next_boundary(local, peer, t) ==
    Min({channel_window_at(local, t).end, channel_window_at(peer, t).end})

\* Mutant: one pass over the boundaries of one sequence.
boundaries_once(local, peer, t) ==
    LET cursor[i \in 0 .. Count - 1] ==
            IF i = 0 THEN t ELSE next_boundary(local, peer, cursor[i - 1])
    IN  cursor

\* The cursor of the search, which goes from boundary to boundary.
boundaries(local, peer, t) ==
    LET cursor[i \in 0 .. boundary_limit - 1] ==
            IF i = 0 THEN t ELSE next_boundary(local, peer, cursor[i - 1])
    IN  cursor

\* Mutant: an overlap that has begun will do.
upcoming_any(start, t) == TRUE

\* "select only a future guarded interval" (docs/awdl.md:420)
upcoming(start, t) == start >= t

\* espdrop_awdl_next_common_channel_window_us: the first overlap on the
\* channel that has not begun yet.  All devices here keep the same windows, and
\* their states are complete, so that its refusal of others never applies.
next_common_window(local, peer, t) ==
    LET overlaps == {[l |-> channel_window_at(local, c),
                      p |-> channel_window_at(peer, c)] :
                        c \in Range(boundaries(local, peer, t))}
        found == {safe_start(o.l, o.p) : o \in {o \in overlaps :
                    /\ o.l.channel = Channel /\ o.p.channel = Channel
                    /\ upcoming(safe_start(o.l, o.p), t)
                    /\ safe_start(o.l, o.p) <= safe_end(o.l, o.p)}}
    IN  IF 2 * Guard >= eaw_us \/ found = {} THEN None
        ELSE Min(found)

-----------------------------------------------------------------------------
(***************************************************************************)
(* The behaviour.                                                          *)
(***************************************************************************)

State == [reference : 0 .. Deadline, base : 0 .. SequenceMod - 1,
          channels : UNION {Channels[d] : d \in Devices}]

TypeOK ==
    /\ now \in eaw_us .. Deadline
    /\ device \in [Devices -> [start : 0 .. Cycle - 1,
                               channels : UNION {Channels[d] : d \in Devices}]]
    /\ \A s \in {middle, tx_state, target_state} \ {None} :
            s \in State
    /\ worker \in {"ready", "wait", "pause", "ended"}
    /\ scheduled \in 0 .. Deadline /\ resume \in 0 .. Deadline + Pause
    /\ common \in BOOLEAN
    /\ windows \in 0 .. ProbeLimit

\* The first frame is received later than one EAW after the clock started.
Init ==
    /\ now = eaw_us
    /\ device \in {f \in [Devices -> [start : UNION {Starts[d] : d \in Devices},
                                      channels : UNION {Channels[d] : d \in Devices}]] :
                    \A d \in Devices : f[d].start \in Starts[d]
                                       /\ f[d].channels \in Channels[d]}
    /\ middle = None /\ tx_state = None /\ target_state = None
    /\ worker = "ready" /\ scheduled = 0 /\ resume = 0 /\ common = FALSE /\ windows = 0

Tick ==
    /\ now < Deadline
    /\ now' = now + 1
    /\ UNCHANGED <<device, middle, tx_state, target_state, worker, scheduled,
                   resume, common, windows>>

\* The middle relay hears the master and makes its state from the MIF.
MiddleHears ==
    /\ middle' = state_from_mif(device_mif("master", now), now)
    /\ UNCHANGED <<now, device, tx_state, target_state, worker, scheduled,
                   resume, common, windows>>

\* dynamic_election_candidate with the middle relay as the elected parent.
ParentHeard ==
    /\ middle # None
    /\ tx_state' = state_from_mif(build_action(middle, now), now)
    /\ UNCHANGED <<now, device, middle, target_state, worker, scheduled,
                   resume, common, windows>>

\* espdrop_awdl_tx_lab_observe_mif for a MIF of the target.
TargetHeard ==
    /\ target_state' = state_from_mif(device_mif("target", now), now)
    /\ UNCHANGED <<now, device, middle, tx_state, worker, scheduled, resume,
                   common, windows>>

\* The host takes the target back, at any time.
TargetCleared ==
    /\ target_state' = None
    /\ UNCHANGED <<now, device, middle, tx_state, worker, scheduled, resume,
                   common, windows>>

\* The worker's snapshot of both states and the search made with it.
NextWindow ==
    IF target_state # None THEN next_common_window(tx_state, target_state, now)
    ELSE next_channel_window(tx_state, now)

\* lab_tx_task finds a window before its deadline (without one it tries again
\* later) ...
Schedule ==
    /\ worker = "ready" /\ tx_state # None
    /\ now < Deadline /\ windows < ProbeLimit
    /\ NextWindow # None /\ NextWindow < Deadline
    /\ scheduled' = NextWindow
    /\ common' = (target_state # None)
    /\ worker' = "wait"
    /\ UNCHANGED <<now, device, middle, tx_state, target_state, resume,
                   windows>>

\* ... waits until then, at least, sends its MIF and what lwIP has queued ...
Transmit ==
    /\ worker = "wait" /\ now >= scheduled
    /\ resume' = now + Pause
    /\ windows' = windows + 1
    /\ worker' = "pause"
    /\ UNCHANGED <<now, device, middle, tx_state, target_state, scheduled,
                   common>>

Resume ==
    /\ worker = "pause" /\ now >= resume
    /\ worker' = "ready"
    /\ UNCHANGED <<now, device, middle, tx_state, target_state, scheduled,
                   resume, common, windows>>

\* ... until the deadline or the limit.
WorkerEnds ==
    /\ worker = "ready" /\ tx_state # None
    /\ \/ now >= Deadline \/ windows >= ProbeLimit
       \/ NextWindow # None /\ NextWindow >= Deadline
    /\ worker' = "ended"
    /\ UNCHANGED <<now, device, middle, tx_state, target_state, scheduled,
                   resume, common, windows>>

Next ==
    \/ Tick \/ MiddleHears \/ ParentHeard \/ TargetHeard \/ TargetCleared
    \/ Schedule \/ Transmit \/ Resume \/ WorkerEnds

Spec == Init /\ [][Next]_vars

-----------------------------------------------------------------------------
(***************************************************************************)
(* Properties.                                                             *)
(***************************************************************************)

\* Time t of an EAW lies between the guards at both ends.
Guarded(s, t) ==
    LET w == channel_window_at(s, t)
    IN  w.channel = Channel /\ w.start + Guard <= t /\ t <= w.end - Guard

\* The times, within one whole sequence from t on, at which both are guarded
\* and were not just before.
Beginnings(local, peer, t) ==
    {u \in t .. t + Count * eaw_us :
        /\ Guarded(local, u) /\ Guarded(peer, u)
        /\ ~(Guarded(local, u - 1) /\ Guarded(peer, u - 1))}

\* "Walking both sets of boundaries for two complete sequences covers every
\* relative slot/phase combination without an unbounded search"
\* (awdl_tx.c:379): the search finds the next common guarded interval that
\* begins, if there is any at all, and nothing otherwise.
FindsNextCommon ==
    tx_state # None /\ target_state # None
        => LET all == Beginnings(tx_state, target_state, now)
           IN  next_common_window(tx_state, target_state, now)
                = IF all = {} THEN None ELSE Min(all)

\* Every relay counts in whole time units and so believes an EAW to begin
\* later than it does, by less than a unit for each step from the device; the
\* window it believes in is the device's own for the rest of the EAW, also
\* when the counter starts again (awdl_tx.c:173).  Reference times are in the
\* past, however often they were passed on, and the counter is that of the
\* beginning of an EAW.
InStep(s, d, steps) ==
    s # None =>
        LET w == channel_window_at(s, now)
            late == (device[d].start + w.start) % eaw_us
        IN  /\ s.reference <= now /\ s.base % Presence = 0
            /\ late <= steps * (Tu - 1)
            /\ (w.channel = Channel) = OnChannel(d, w.start)

FollowersInStep ==
    InStep(middle, "master", 1) /\ InStep(tx_state, "master", 2)
    /\ InStep(target_state, "target", 1)

\* A window the worker wakes up for in time is one in which the master, two
\* steps away, is on the channel, and so is the target if one was known: "applies
\* a guard at both ends of the intersection" (docs/awdl.md:394), which also
\* makes up for what the relays' rounding adds.
SendsOnChannel ==
    [][worker = "wait" /\ worker' = "pause" /\ now = scheduled
        => OnChannel("master", now) /\ (common => OnChannel("target", now))]_vars

\* The EAWs of master and target at time t.
Interval(t) == [d \in Devices |-> (device[d].start + t) \div eaw_us]

\* "Emits at most one probe burst for a selected guarded interval"
\* (docs/awdl.md:395), although both states are made anew from every MIF and
\* the beginning of the interval moves with them.
OncePerInterval ==
    [][worker = "ready" /\ worker' = "wait" /\ common /\ common'
        => Interval(scheduled') # Interval(scheduled)]_vars

=============================================================================
