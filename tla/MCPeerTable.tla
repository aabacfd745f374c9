---------------------------- MODULE MCPeerTable ----------------------------
EXTENDS PeerTable, TLC

\* Addresses derived from MACs are distinct.
MCIpv6 == [id \in Ids |-> id]

\* AWDL strengths around the margin, with the weakest at the minimum; TapDrop
\* weighs the layers more than their strength.
MCRssi == [layer \in {"awdl", "ble"} |->
    IF layer = "awdl" THEN {-50, -57, -58} ELSE {-40}]

MCMinRssi == -58

\* A receiver, and a device that no longer announces AirDrop.
MCMifs ==
    {[valid |-> TRUE, airdrop |-> TRUE, endpoint |-> FALSE],
     [valid |-> FALSE, airdrop |-> FALSE, endpoint |-> FALSE]}

\* No action or property distinguishes peers by their names.
PeerSymmetry == Permutations(Ids)
=============================================================================
