--------------------------- MODULE MCAwdlElection ---------------------------
(***************************************************************************)
(* Instances of AwdlElection: relays 4 and 5 and the beacons 8 and 9, both *)
(* stronger than any relay, 9 the strongest.                               *)
(***************************************************************************)
EXTENDS AwdlElection

Own(b, metric) ==
    [report |-> [master |-> b, sync_master |-> b, distance_to_master |-> 0,
                 master_metric |-> metric, master_counter |-> 1],
     schedule |-> TRUE]

MCMifs == [b \in Beacons |-> {Own(b, IF b = 9 THEN 70 ELSE 60)}]

\* Relay 4 hears the beacons through relay 5 only.
ChainHears ==
    {h \in Relays \X Addresses :
        h[1] # h[2] /\ (h[1] = 5 \/ h = <<4, 5>>)}
=============================================================================
