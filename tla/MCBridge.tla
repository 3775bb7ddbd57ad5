------------------------------ MODULE MCBridge ------------------------------
(* Instantiates Bridge for TLC.  The buffer sizes are NewBxBridge's, with  *)
(* the backlogs of 10 to 2000 scaled down to Backlog: only the distinction *)
(* between unbuffered (0), single-slot (1) and larger buffers shapes the   *)
(* behaviour of a select with a default branch.                            *)
EXTENDS Bridge, TLC

CONSTANTS k1, k2, k3, k4, c1, c2, Backlog

\* transactionBacklog, transactionHashesBacklog, blockBacklog, statusBacklog
CodeCapacity ==
    [q \in QueueNames |->
        CASE q \in {"transactionsFromNode", "transactionsFromBDN",
                    "blockchainConnectionStatus"} -> 2000
          [] q \in {"transactionHashesFromNode", "transactionHashesRequests"} -> 1000
          [] q \in {"blocksFromNode", "ethBlocksFromBDN", "beaconBlocksFromBDN",
                    "confirmedBlockFromNode"} -> 100
          [] q \in {"blockchainStatusRequest", "blockchainStatusResponse",
                    "nodeConnectionCheckRequest", "nodeConnectionCheckResponse",
                    "disconnectEvent"} -> 10
          [] q \in {"config", "validatorInfo"} -> 1
          [] q = "noActiveBlockchainPeers" -> 0]

MCCapacity == [q \in QueueNames |->
                  IF CodeCapacity[q] <= 1 THEN CodeCapacity[q] ELSE Backlog]

MCBridgeBlocks == {k1, k2, k3, k4}
MCBlockType == [k \in MCBridgeBlocks |->
                   CASE k \in {k1, k2} -> "eth" [] k = k3 -> "beacon" [] k = k4 -> "unknown"]

\* Blocks, the config channel with its blocking send, and the rendezvous.
BlockGroup == {"ethBlocksFromBDN", "beaconBlocksFromBDN", "config",
               "noActiveBlockchainPeers"}
\* Every other channel: the uniform select-with-default pattern.
ChannelGroup == QueueNames \ BlockGroup

(* The channels share no state and every property speaks of one channel  *)
(* at a time, so a run over all seventeen explores the select-with-default *)
(* channels one at a time: at most one of them holds values in any state. *)
OneUniformChannelBusy == Cardinality({q \in ChannelGroup : chan[q] # <<>>}) <= 1

MCView == <<beaconBlock, chan, parked, sendq, accepted, received>>
=============================================================================
