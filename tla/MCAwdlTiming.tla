---------------------------- MODULE MCAwdlTiming ----------------------------
EXTENDS AwdlTiming, TLC

\* The master is on the channel in one slot of two; the target's sequence
\* meets it there, meets it in the other slot only, or is always there.
MCChannels == [master |-> {(0 :> 6 @@ 1 :> 44)},
               target |-> {(0 :> 6 @@ 1 :> 44), (0 :> 6 @@ 1 :> 6)}]

\* The master's counter starts again at time 15.  The target is in phase,
\* behind, in the opposite phase, or ahead and in the other slot.
MCStarts == [master |-> {17}, target |-> {1, 4, 6, 13}]

=============================================================================
