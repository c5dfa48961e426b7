---------------------------- MODULE Replication ----------------------------
(***************************************************************************)
(* The two ways in which the nodes of a team come to hold the same data,   *)
(* side by side in one process: the raft log, whose entries the FSM of the *)
(* storage backend applies to data.db, and gossip, which merges registers  *)
(* into crdt.db.  RunUnified starts either when it is configured.  They    *)
(* share neither file nor lock, so a step is a step of one of them.        *)
(***************************************************************************)
EXTENDS RaftFSM, Gossip, Boot

replicationVars == <<started, vars, gossipVars>>

ReplicationInit == BootInit /\ Init /\ GossipInit

ReplicationNext ==
    /\ UNCHANGED started
    /\ \/ Running("raft") /\ Next /\ UNCHANGED gossipVars
       \/ Running("gossip") /\ GossipNext /\ UNCHANGED vars

ReplicationSpec == ReplicationInit /\ [][ReplicationNext]_replicationVars
=============================================================================
