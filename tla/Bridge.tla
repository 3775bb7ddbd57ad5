------------------------------- MODULE Bridge -------------------------------
(***************************************************************************)
(* The Bridge (BxBridge, src/test/utils.go): the typed bus of bounded Go   *)
(* channels between the blockchain-facing and the BDN-facing workers.      *)
(* Every Send* is a select with a default branch: the value is enqueued    *)
(* when the channel has room (or, for the unbuffered alert channel, when a *)
(* receiver is parked on it) and ErrChannelFull is returned otherwise.     *)
(* UpdateNetworkConfig is the exception: a plain channel send, which parks *)
(* the caller while the config channel is full.  SendBlockToNode routes   *)
(* on the block type.  The Receive* accessors hand the channel to a        *)
(* consumer, which takes values off its head.                              *)
(*                                                                         *)
(* The channels share no state, so a run checks the group of channels     *)
(* named by Queues; the others stay empty.                                 *)
(***************************************************************************)
EXTENDS Naturals, Sequences, FiniteSets

CONSTANTS
    Queues,         \* the channels a run exercises (a subset of QueueNames)
    Capacity,       \* channel name -> buffer size given by NewBxBridge
    Msg,            \* the (single) payload carried by the untyped channels
    BridgeBlocks,   \* blocks handed to SendBlockToNode
    BlockType,      \* block -> "eth" | "beacon" | "unknown"
    Controllers     \* goroutines that call UpdateNetworkConfig

QueueNames == {"config", "transactionsFromNode", "transactionsFromBDN",
               "transactionHashesFromNode", "transactionHashesRequests",
               "blocksFromNode", "ethBlocksFromBDN", "beaconBlocksFromBDN",
               "confirmedBlockFromNode", "noActiveBlockchainPeers",
               "blockchainStatusRequest", "blockchainStatusResponse",
               "nodeConnectionCheckRequest", "nodeConnectionCheckResponse",
               "blockchainConnectionStatus", "disconnectEvent", "validatorInfo"}

BlockQueues == {"ethBlocksFromBDN", "beaconBlocksFromBDN"}

ASSUME /\ Queues \subseteq QueueNames
       /\ \A q \in QueueNames : Capacity[q] \in Nat
       /\ \A k \in BridgeBlocks : BlockType[k] \in {"eth", "beacon", "unknown"}

VARIABLES
    beaconBlock,    \* NewBxBridge's beaconBlock flag: a beacon source is configured
    chan,           \* channel name -> buffered values, oldest first
    parked,         \* channel names with a receiver blocked in a receive
    sendq,          \* controllers blocked in UpdateNetworkConfig, in the
                    \* order the Go runtime queues them on the channel
    last,           \* the latest bridge operation: [q, result]
    accepted,       \* blocks SendBlockToNode returned nil for
    received        \* <<channel, block>> pairs a consumer has taken

vars == <<beaconBlock, chan, parked, sendq, last, accepted, received>>

Results == {"none", "ok", "ChannelFull", "error", "blocked", "received",
            "parked", "left"}

TypeOK ==
    /\ beaconBlock \in BOOLEAN
    /\ chan \in [QueueNames -> Seq(BridgeBlocks \cup {Msg})]
    /\ \A q \in QueueNames : Len(chan[q]) <= Capacity[q]
    /\ parked \subseteq QueueNames
    /\ sendq \in Seq(Controllers)
    /\ last \in [q : QueueNames \cup {"none"}, result : Results]
    /\ accepted \subseteq BridgeBlocks
    /\ received \subseteq BlockQueues \X BridgeBlocks

(* NewBxBridge: every channel is created empty; beaconBlock is chosen by  *)
(* the caller.                                                              *)
NewBxBridge ==
    /\ beaconBlock \in BOOLEAN
    /\ chan = [q \in QueueNames |-> <<>>]
    /\ parked = {}
    /\ sendq = <<>>
    /\ last = [q |-> "none", result |-> "none"]
    /\ accepted = {}
    /\ received = {}

Init == NewBxBridge

(* A select case "ch <- v" is ready: buffer room, or a parked receiver on  *)
(* an unbuffered channel (which then takes the value at once).             *)
Ready(q) == IF Capacity[q] = 0 THEN q \in parked ELSE Len(chan[q]) < Capacity[q]

(* Completing a send: an unbuffered channel hands the value to the parked *)
(* receiver, a buffered one appends it.                                    *)
Deliver(q, v) ==
    IF Capacity[q] = 0
    THEN /\ parked' = parked \ {q}
         /\ UNCHANGED chan
    ELSE /\ chan' = [chan EXCEPT ![q] = Append(@, v)]
         /\ UNCHANGED parked

(* Mutant of TrySend: the default branch returns nil.                     *)
TrySendSwallowFull(q, v) ==
    /\ q \in Queues
    /\ IF Ready(q)
       THEN Deliver(q, v)
       ELSE UNCHANGED <<chan, parked>>
    /\ last' = [q |-> q, result |-> "ok"]
    /\ UNCHANGED <<beaconBlock, sendq, accepted, received>>

(* select { case ch <- v: return nil; default: return ErrChannelFull }     *)
TrySend(q, v) ==
    /\ q \in Queues
    /\ IF Ready(q)
       THEN /\ Deliver(q, v)
            /\ last' = [q |-> q, result |-> "ok"]
       ELSE /\ last' = [q |-> q, result |-> "ChannelFull"]
            /\ UNCHANGED <<chan, parked>>
    /\ UNCHANGED <<beaconBlock, sendq, accepted, received>>

(* UpdateNetworkConfig: "b.config <- config", a send without a default.   *)
(* With the channel full the controller joins the channel's send queue.   *)
UpdateNetworkConfig(c) ==
    /\ "config" \in Queues
    /\ \A i \in DOMAIN sendq : sendq[i] # c
    /\ IF Ready("config")
       THEN /\ chan' = [chan EXCEPT !["config"] = Append(@, Msg)]
            /\ last' = [q |-> "config", result |-> "ok"]
            /\ UNCHANGED sendq
       ELSE /\ sendq' = Append(sendq, c)
            /\ last' = [q |-> "config", result |-> "blocked"]
            /\ UNCHANGED chan
    /\ UNCHANGED <<beaconBlock, parked, accepted, received>>

AnnounceTransactionHashes == TrySend("transactionHashesFromNode", Msg)
RequestTransactionsFromNode == TrySend("transactionHashesRequests", Msg)
SendTransactionsFromBDN == TrySend("transactionsFromBDN", Msg)
SendTransactionsToBDN == TrySend("transactionsFromNode", Msg)
SendConfirmedBlockToGateway == TrySend("confirmedBlockFromNode", Msg)
SendBlockToBDN == TrySend("blocksFromNode", Msg)
SendNoActiveBlockchainPeersAlert == TrySend("noActiveBlockchainPeers", Msg)
SendBlockchainStatusRequest == TrySend("blockchainStatusRequest", Msg)
SendBlockchainStatusResponse == TrySend("blockchainStatusResponse", Msg)
SendNodeConnectionCheckRequest == TrySend("nodeConnectionCheckRequest", Msg)
SendNodeConnectionCheckResponse == TrySend("nodeConnectionCheckResponse", Msg)
SendValidatorListInfo == TrySend("validatorInfo", Msg)
SendBlockchainConnectionStatus == TrySend("blockchainConnectionStatus", Msg)
SendDisconnectEvent == TrySend("disconnectEvent", Msg)

(* The queue SendBlockToNode routes a block of type t to.                 *)
RouteOf(t) == IF t = "eth" THEN "ethBlocksFromBDN" ELSE "beaconBlocksFromBDN"

(* Mutant of EnqueueBlock: the default branch of the select falls        *)
(* through to the final "return nil".                                      *)
EnqueueBlockFallThrough(q, k) ==
    IF Ready(q)
    THEN /\ chan' = [chan EXCEPT ![q] = Append(@, k)]
         /\ last' = [q |-> q, result |-> "ok"]
         /\ accepted' = accepted \cup {k}
    ELSE /\ last' = [q |-> "none", result |-> "ok"]
         /\ accepted' = accepted \cup {k}
         /\ UNCHANGED chan

(* The select of one SendBlockToNode case: enqueue, or ErrChannelFull.   *)
EnqueueBlock(q, k) ==
    IF Ready(q)
    THEN /\ chan' = [chan EXCEPT ![q] = Append(@, k)]
         /\ last' = [q |-> q, result |-> "ok"]
         /\ accepted' = accepted \cup {k}
    ELSE /\ last' = [q |-> q, result |-> "ChannelFull"]
         /\ UNCHANGED <<chan, accepted>>

(* SendBlockToNode: eth blocks to the eth channel; beacon blocks to the    *)
(* beacon channel, or dropped with a nil error when no beacon source is    *)
(* configured; any other type is an error.                                 *)
SendBlockToNode(k) ==
    /\ BlockQueues \subseteq Queues
    /\ \/ /\ BlockType[k] = "unknown"
          /\ last' = [q |-> "none", result |-> "error"]
          /\ UNCHANGED <<chan, accepted>>
       \/ /\ BlockType[k] = "beacon"
          /\ ~beaconBlock
          /\ last' = [q |-> "none", result |-> "ok"]
          /\ accepted' = accepted \cup {k}
          /\ UNCHANGED chan
       \/ /\ BlockType[k] = "eth" \/ (BlockType[k] = "beacon" /\ beaconBlock)
          /\ EnqueueBlock(RouteOf(BlockType[k]), k)
    /\ UNCHANGED <<beaconBlock, parked, sendq, received>>

(* A consumer ranging over a buffered channel takes its head.  For the    *)
(* config channel, the Go runtime then moves the first blocked sender's   *)
(* value into the freed slot and wakes that sender.                        *)
Receive(q) ==
    /\ q \in Queues
    /\ chan[q] # <<>>
    /\ IF q = "config" /\ sendq # <<>>
       THEN /\ chan' = [chan EXCEPT ![q] = Append(Tail(@), Msg)]
            /\ sendq' = Tail(sendq)
       ELSE /\ chan' = [chan EXCEPT ![q] = Tail(@)]
            /\ UNCHANGED sendq
    /\ received' = IF q \in BlockQueues THEN received \cup {<<q, Head(chan[q])>>}
                                        ELSE received
    /\ last' = [q |-> q, result |-> "received"]
    /\ UNCHANGED <<beaconBlock, parked, accepted>>

ReceiveNetworkConfigUpdates == Receive("config")
ReceiveNodeTransactions == Receive("transactionsFromNode")
ReceiveBDNTransactions == Receive("transactionsFromBDN")
ReceiveTransactionHashesAnnouncement == Receive("transactionHashesFromNode")
ReceiveTransactionHashesRequest == Receive("transactionHashesRequests")
ReceiveBlockFromNode == Receive("blocksFromNode")
ReceiveEthBlockFromBDN == Receive("ethBlocksFromBDN")
ReceiveBeaconBlockFromBDN == Receive("beaconBlocksFromBDN")
ReceiveConfirmedBlockFromNode == Receive("confirmedBlockFromNode")
ReceiveBlockchainStatusRequest == Receive("blockchainStatusRequest")
ReceiveBlockchainStatusResponse == Receive("blockchainStatusResponse")
ReceiveNodeConnectionCheckRequest == Receive("nodeConnectionCheckRequest")
ReceiveNodeConnectionCheckResponse == Receive("nodeConnectionCheckResponse")
ReceiveValidatorListInfo == Receive("validatorInfo")
ReceiveBlockchainConnectionStatus == Receive("blockchainConnectionStatus")
ReceiveDisconnectEvent == Receive("disconnectEvent")

(* The alert consumer blocks in a receive on the unbuffered channel, and  *)
(* leaves it when another case of its select fires.                       *)
ReceiveNoActiveBlockchainPeersAlert ==
    /\ "noActiveBlockchainPeers" \in Queues
    /\ "noActiveBlockchainPeers" \notin parked
    /\ parked' = parked \cup {"noActiveBlockchainPeers"}
    /\ last' = [q |-> "noActiveBlockchainPeers", result |-> "parked"]
    /\ UNCHANGED <<beaconBlock, chan, sendq, accepted, received>>

StopReceiving(q) ==
    /\ q \in parked
    /\ parked' = parked \ {q}
    /\ last' = [q |-> q, result |-> "left"]
    /\ UNCHANGED <<beaconBlock, chan, sendq, accepted, received>>

Next ==
    \/ \E c \in Controllers : UpdateNetworkConfig(c)
    \/ AnnounceTransactionHashes \/ RequestTransactionsFromNode
    \/ SendTransactionsFromBDN \/ SendTransactionsToBDN
    \/ SendConfirmedBlockToGateway \/ SendBlockToBDN
    \/ SendNoActiveBlockchainPeersAlert
    \/ SendBlockchainStatusRequest \/ SendBlockchainStatusResponse
    \/ SendNodeConnectionCheckRequest \/ SendNodeConnectionCheckResponse
    \/ SendValidatorListInfo \/ SendBlockchainConnectionStatus
    \/ SendDisconnectEvent
    \/ \E k \in BridgeBlocks : SendBlockToNode(k)
    \/ ReceiveNetworkConfigUpdates
    \/ ReceiveNodeTransactions \/ ReceiveBDNTransactions
    \/ ReceiveTransactionHashesAnnouncement \/ ReceiveTransactionHashesRequest
    \/ ReceiveBlockFromNode \/ ReceiveEthBlockFromBDN
    \/ ReceiveBeaconBlockFromBDN \/ ReceiveConfirmedBlockFromNode
    \/ ReceiveBlockchainStatusRequest \/ ReceiveBlockchainStatusResponse
    \/ ReceiveNodeConnectionCheckRequest \/ ReceiveNodeConnectionCheckResponse
    \/ ReceiveValidatorListInfo \/ ReceiveBlockchainConnectionStatus
    \/ ReceiveDisconnectEvent
    \/ ReceiveNoActiveBlockchainPeersAlert
    \/ \E q \in parked : StopReceiving(q)

Spec == Init /\ [][Next]_vars

-----------------------------------------------------------------------------
(* Properties *)

(* Bridge overflow is surfaced, never hidden (spec 7): a block            *)
(* SendBlockToNode returned nil for is waiting in, or was taken from, the  *)
(* channel of its type.  The one sanctioned exception is a beacon block   *)
(* with no beacon source configured, which is dropped with success.       *)
AcceptedBlocksDelivered ==
    \A k \in accepted :
        \/ BlockType[k] = "beacon" /\ ~beaconBlock
        \/ LET q == RouteOf(BlockType[k]) IN
           /\ BlockType[k] # "unknown"
           /\ \/ \E i \in DOMAIN chan[q] : chan[q][i] = k
              \/ <<q, k>> \in received

(* A Send* reports ChannelFull exactly when its channel is saturated (a   *)
(* full buffer, or no receiver parked on an unbuffered channel), and a    *)
(* send that returns nil has found room: "once full, the next send        *)
(* returns ChannelFull; after one receive, one send succeeds" (spec 8).   *)
ChannelFullOnlyWhenSaturated ==
    [][ /\ last'.result = "ChannelFull" =>
             LET q == last'.q IN
             IF Capacity[q] = 0 THEN q \notin parked
                                ELSE Len(chan[q]) = Capacity[q]
        /\ (last'.result = "ok" /\ last'.q # "none") =>
             LET q == last'.q IN
             IF Capacity[q] = 0 THEN q \in parked
                                ELSE Len(chan[q]) < Capacity[q]
      ]_vars

=============================================================================
