--------------------------- MODULE BlockProcessor ---------------------------
(***************************************************************************)
(* The block processor of src/services/block_processor.go, running on     *)
(* every gateway of a small BDN.  A gateway compresses the blocks its own *)
(* node gives it (BxBlockToBroadcast) and expands the broadcasts the BDN  *)
(* delivers (BxBlockFromBroadcast).  Both directions share one processed- *)
(* blocks set (a HashHistory), and each direction runs in its own worker, *)
(* so the ShouldProcess check and the markProcessed that follows it are   *)
(* two steps another worker can interleave with.                          *)
(*                                                                         *)
(* The tx store (TxStore, outside src/) and the hash history are          *)
(* modelled from their contracts in the spec; the BDN is a set of         *)
(* broadcasts that may be delivered any number of times, in any order,    *)
(* and, when Lossy, lost.                                                  *)
(***************************************************************************)
EXTENDS Naturals, Sequences, SequencesExt, FiniteSets

CONSTANTS
    Gateways,       \* the gateways of the BDN
    LegacyPeer,     \* a peer of an older version that sends no beacon hash
    Blocks,         \* block identities
    Txs,            \* transaction identities (their content hash)
    SIDs,           \* short IDs
    Hash,           \* Hash[b]: the execution (primary) hash of block b
    BeaconHash,     \* BeaconHash[b]: the beacon hash, EmptyHash for Eth
    Type,           \* Type[b] \in BlockTypes
    BlockTxs,       \* BlockTxs[b]: the transactions of b, in order
    SidsOf,         \* SidsOf[t]: the short IDs the BDN may assign to t
    EmptyHash,      \* types.EmptyHash
    NoTx,           \* the empty Transaction of a placeholder entry
    None,           \* no pending work
    Expiry,         \* TRUE: processed entries may reach their TTL
    Lossy           \* TRUE: the BDN may lose a broadcast

BlockTypes == {"eth", "beacon", "unknown"}
Hashes == {Hash[b] : b \in Blocks} \cup {BeaconHash[b] : b \in Blocks}

ASSUME
    /\ \A b \in Blocks : Hash[b] # EmptyHash
    /\ \A b1, b2 \in Blocks : Hash[b1] = Hash[b2] => b1 = b2
    /\ \A b \in Blocks : Type[b] \in BlockTypes
    /\ \A b \in Blocks : Type[b] = "eth" => BeaconHash[b] = EmptyHash
    /\ \A b \in Blocks : BlockTxs[b] \in Seq(Txs)
    /\ \A t \in Txs : SidsOf[t] \subseteq SIDs
    /\ \A t1, t2 \in Txs : t1 # t2 => SidsOf[t1] \cap SidsOf[t2] = {}

VARIABLES
    aged,        \* aged[g]: txs in g's store with AddTime before now-minTxAge
    storeSids,   \* storeSids[g][t]: t's short IDs in g's store, in order
    processed,   \* processed[g]: the keys of g's processedBlocks HashHistory
    encPending,  \* block g's compressing worker passed ShouldProcess for
    decPending,  \* broadcast g's expanding worker passed ShouldProcess for
    encResult,   \* the error (or "ok") BxBlockToBroadcast last returned at g
    decResult,   \* the error (or "ok") BxBlockFromBroadcast last returned
    net,         \* broadcasts the BDN holds for delivery
    encoded,     \* history: blocks g compressed and broadcast
    delivered    \* history: blocks g expanded from the BDN

vars == <<aged, storeSids, processed, encPending, decPending,
          encResult, decResult, net, encoded, delivered>>

Entry == [full : BOOLEAN, tx : Txs \cup {NoTx}]
Broadcast == [hash : Hashes, beaconHash : Hashes \cup {EmptyHash},
              type : BlockTypes, body : Seq(Entry), sids : Seq(SIDs),
              from : Gateways \cup {LegacyPeer}]
BxBlock == [hash : Hashes, beaconHash : Hashes \cup {EmptyHash},
            type : BlockTypes, txs : Seq(Txs)]
Results == {"none", "ok", "AlreadyProcessed", "UnknownBlockType",
            "NotCompatibleBeaconBlock", "MissingShortIDs", "CodecError"}

-----------------------------------------------------------------------------
(* The hash history: Exists, Add and the sweeper's eviction.              *)

ShouldProcess(g, h) == h \notin processed[g]

markProcessed(g, hs) == processed' = [processed EXCEPT ![g] = @ \cup hs]

(* The key BxBlockToBroadcast deduplicates a block on.                    *)
DedupKey(b) == IF Type[b] = "eth" THEN Hash[b] ELSE BeaconHash[b]

-----------------------------------------------------------------------------
(* Compression against g's TxStore (newRLPBlockBroadcast and             *)
(* newSSZBlockBroadcast share this loop).                                 *)

Compressible(g, t) ==
    /\ t \in aged[g]
    /\ storeSids[g][t] # <<>>

CompressTxs(g, txs) ==
    [i \in 1..Len(txs) |->
        IF Compressible(g, txs[i]) THEN [full |-> FALSE, tx |-> NoTx]
                                   ELSE [full |-> TRUE, tx |-> txs[i]]]

UsedShortIDs(g, txs) ==
    LET compressed == SelectSeq(txs, LAMBDA t : Compressible(g, t))
    IN  [i \in 1..Len(compressed) |-> Head(storeSids[g][compressed[i]])]

newRLPBlockBroadcast(g, b) ==
    [hash |-> Hash[b], beaconHash |-> EmptyHash, type |-> Type[b],
     body |-> CompressTxs(g, BlockTxs[b]),
     sids |-> UsedShortIDs(g, BlockTxs[b]), from |-> g]

newSSZBlockBroadcast(g, b) ==
    [hash |-> Hash[b], beaconHash |-> BeaconHash[b], type |-> Type[b],
     body |-> CompressTxs(g, BlockTxs[b]),
     sids |-> UsedShortIDs(g, BlockTxs[b]), from |-> g]

-----------------------------------------------------------------------------
(* Expansion.                                                              *)

(* GetTxByShortID: the transactions g's store holds under short ID s.     *)
GetTxByShortID(g, s) == {t \in Txs : s \in ToSet(storeSids[g][t])}

MissingShortIDs(g, sids) == SelectSeq(sids, LAMBDA s : GetTxByShortID(g, s) = {})

(* Mutant of Resolved: the resolved transactions are collected by        *)
(* prepending, so they come out in reverse order.                         *)
ResolvedPrepended(g, sids) ==
    [i \in 1..Len(sids) |->
        CHOOSE t \in GetTxByShortID(g, sids[Len(sids) + 1 - i]) : TRUE]

Resolved(g, sids) == [i \in 1..Len(sids) |-> CHOOSE t \in GetTxByShortID(g, sids[i]) : TRUE]

IsPlaceholder(e) == ~e.full

(* The decoder's "more empty transactions than short IDs provided".      *)
TooManyPlaceholders(body, txs) == Len(SelectSeq(body, IsPlaceholder)) > Len(txs)

(* Mutant of Inflate: a placeholder entry is copied as it is, its empty  *)
(* Transaction taking the place of the resolved one.                      *)
RECURSIVE InflateRaw(_, _)
InflateRaw(body, txs) ==
    IF body = <<>> THEN <<>>
    ELSE <<Head(body).tx>> \o InflateRaw(Tail(body), txs)

(* Mutant of Inflate: an entry sent in full is skipped instead of being  *)
(* appended to the block.                                                 *)
RECURSIVE InflateDropFull(_, _)
InflateDropFull(body, txs) ==
    IF body = <<>> THEN <<>>
    ELSE IF Head(body).full
         THEN InflateDropFull(Tail(body), txs)
         ELSE <<Head(txs)>> \o InflateDropFull(Tail(body), Tail(txs))

(* Replace the placeholders of body, in order, by the resolved txs.       *)
RECURSIVE Inflate(_, _)
Inflate(body, txs) ==
    IF body = <<>> THEN <<>>
    ELSE IF Head(body).full
         THEN <<Head(body).tx>> \o Inflate(Tail(body), txs)
         ELSE <<Head(txs)>> \o Inflate(Tail(body), Tail(txs))

(* Mutant of FailExpansion: the keys are marked before the short IDs are *)
(* checked, so a failed expansion leaves them marked.                     *)
FailExpansionMarked(g, m) ==
    /\ processed' = [processed EXCEPT ![g] = @ \cup
                       (IF m.type = "eth" THEN {m.hash} ELSE {m.hash, m.beaconHash})]
    /\ UNCHANGED delivered

(* A failed expansion returns before markProcessed: nothing is recorded. *)
FailExpansion(g, m) == UNCHANGED <<processed, delivered>>

(* The keys a successful expansion marks processed.                       *)
ExpandedKeys(m) == IF m.type = "eth" THEN {m.hash} ELSE {m.hash, m.beaconHash}

-----------------------------------------------------------------------------
Init ==
    /\ aged = [g \in Gateways |-> {}]
    /\ storeSids = [g \in Gateways |-> [t \in Txs |-> <<>>]]
    /\ processed = [g \in Gateways |-> {}]
    /\ encPending = [g \in Gateways |-> None]
    /\ decPending = [g \in Gateways |-> None]
    /\ encResult = [g \in Gateways |-> "none"]
    /\ decResult = [g \in Gateways |-> "none"]
    /\ net = {}
    /\ encoded = [g \in Gateways |-> {}]
    /\ delivered = [g \in Gateways |-> {}]

storeVars == <<aged, storeSids>>
encVars == <<encPending, encResult, encoded>>
decVars == <<decPending, decResult, delivered>>

(* BxBlockToBroadcast, up to the end of its first switch: the dedup check *)
(* and the unknown-type return of the second switch.                      *)
BxBlockToBroadcastCheck(g, b) ==
    /\ encPending[g] = None
    /\ \/ /\ Type[b] = "unknown"
          /\ encResult' = [encResult EXCEPT ![g] = "UnknownBlockType"]
          /\ UNCHANGED encPending
       \/ /\ Type[b] # "unknown"
          /\ ~ShouldProcess(g, DedupKey(b))
          /\ encResult' = [encResult EXCEPT ![g] = "AlreadyProcessed"]
          /\ UNCHANGED encPending
       \/ /\ Type[b] # "unknown"
          /\ ShouldProcess(g, DedupKey(b))
          /\ encPending' = [encPending EXCEPT ![g] = b]
          /\ UNCHANGED encResult
    /\ UNCHANGED <<storeVars, processed, net, encoded, decVars>>

(* The rest of BxBlockToBroadcast: compress against the store as it is   *)
(* now, mark the dedup key processed and hand the broadcast to the BDN.   *)
BxBlockToBroadcastFinish(g) ==
    /\ encPending[g] # None
    /\ LET b == encPending[g]
           m == IF Type[b] = "eth" THEN newRLPBlockBroadcast(g, b)
                                   ELSE newSSZBlockBroadcast(g, b)
       IN  /\ net' = net \cup {m}
           /\ markProcessed(g, {DedupKey(b)})
           /\ encoded' = [encoded EXCEPT ![g] = @ \cup {b}]
    /\ encPending' = [encPending EXCEPT ![g] = None]
    /\ encResult' = [encResult EXCEPT ![g] = "ok"]
    /\ UNCHANGED <<storeVars, decVars>>

(* BxBlockFromBroadcast, up to its first switch.                          *)
BxBlockFromBroadcastCheck(g, m) ==
    /\ decPending[g] = None
    /\ m.from # g
    /\ \/ /\ m.type = "beacon"
          /\ m.beaconHash = EmptyHash
          /\ decResult' = [decResult EXCEPT ![g] = "NotCompatibleBeaconBlock"]
          /\ UNCHANGED decPending
       \/ /\ m.type = "eth" \/ m.beaconHash # EmptyHash
          /\ ~ShouldProcess(g, IF m.type = "eth" THEN m.hash ELSE m.beaconHash)
          /\ decResult' = [decResult EXCEPT ![g] = "AlreadyProcessed"]
          /\ UNCHANGED decPending
       \/ /\ m.type = "eth" \/ m.beaconHash # EmptyHash
          /\ ShouldProcess(g, IF m.type = "eth" THEN m.hash ELSE m.beaconHash)
          /\ decPending' = [decPending EXCEPT ![g] = m]
          /\ UNCHANGED decResult
    /\ UNCHANGED <<storeVars, processed, net, encVars, delivered>>

(* The rest of BxBlockFromBroadcast: resolve every short ID, fail with    *)
(* the full miss list, else decode, fill the placeholders in order and    *)
(* mark the key(s) processed only on success.                             *)
BxBlockFromBroadcastFinish(g) ==
    /\ decPending[g] # None
    /\ LET m    == decPending[g]
           miss == MissingShortIDs(g, m.sids)
           txs  == Resolved(g, m.sids)
       IN  \/ /\ miss # <<>>
              /\ decResult' = [decResult EXCEPT ![g] = "MissingShortIDs"]
              /\ FailExpansion(g, m)
           \/ /\ miss = <<>>
              /\ IF TooManyPlaceholders(m.body, txs)
                 THEN /\ decResult' = [decResult EXCEPT ![g] = "CodecError"]
                      /\ FailExpansion(g, m)
                 ELSE /\ decResult' = [decResult EXCEPT ![g] = "ok"]
                      /\ markProcessed(g, ExpandedKeys(m))
                      /\ delivered' = [delivered EXCEPT ![g] = @ \cup
                            {[hash |-> m.hash, beaconHash |-> m.beaconHash,
                              type |-> m.type, txs |-> Inflate(m.body, txs)]}]
    /\ decPending' = [decPending EXCEPT ![g] = None]
    /\ UNCHANGED <<storeVars, net, encVars>>
-----------------------------------------------------------------------------
(* The environment: the TxStore, the HashHistory sweeper and the BDN.     *)

(* Time passes: a tx in g's store (or arriving now) has an AddTime      *)
(* before now - minTxAge.                                                 *)
TxStoreAge(g, t) ==
    /\ t \notin aged[g]
    /\ aged' = [aged EXCEPT ![g] = @ \cup {t}]
    /\ UNCHANGED <<storeSids, processed, encVars, decVars, net>>

(* The store learns a short ID of t, with t's content if it lacked it:    *)
(* a BDN assignment, or the answer to a short-ID recovery request.        *)
TxStoreAssignShortID(g, t, s) ==
    /\ s \in SidsOf[t]
    /\ s \notin ToSet(storeSids[g][t])
    /\ storeSids' = [storeSids EXCEPT ![g][t] = Append(@, s)]
    /\ UNCHANGED <<aged, processed, encVars, decVars, net>>

(* The HashHistory sweeper drops an entry whose TTL has passed.           *)
HashHistoryExpire(g, h) ==
    /\ Expiry
    /\ h \in processed[g]
    /\ processed' = [processed EXCEPT ![g] = @ \ {h}]
    /\ UNCHANGED <<storeVars, encVars, decVars, net>>

(* A peer of an older version broadcasts a beacon block with no beacon    *)
(* hash and every transaction in full.                                    *)
LegacyPeerBroadcast(b) ==
    /\ Type[b] = "beacon"
    /\ net' = net \cup {[hash |-> Hash[b], beaconHash |-> EmptyHash,
                         type |-> Type[b],
                         body |-> [i \in 1..Len(BlockTxs[b]) |->
                                    [full |-> TRUE, tx |-> BlockTxs[b][i]]],
                         sids |-> <<>>, from |-> LegacyPeer]}
    /\ UNCHANGED <<storeVars, processed, encVars, decVars>>

(* The BDN loses a broadcast.                                             *)
BDNLose(m) ==
    /\ Lossy
    /\ net' = net \ {m}
    /\ UNCHANGED <<storeVars, processed, encVars, decVars>>

-----------------------------------------------------------------------------
Next ==
    \/ \E g \in Gateways, b \in Blocks : BxBlockToBroadcastCheck(g, b)
    \/ \E g \in Gateways : BxBlockToBroadcastFinish(g)
    \/ \E g \in Gateways, m \in net : BxBlockFromBroadcastCheck(g, m)
    \/ \E g \in Gateways : BxBlockFromBroadcastFinish(g)
    \/ \E g \in Gateways, t \in Txs : TxStoreAge(g, t)
    \/ \E g \in Gateways, t \in Txs, s \in SIDs : TxStoreAssignShortID(g, t, s)
    \/ \E g \in Gateways, h \in Hashes : HashHistoryExpire(g, h)
    \/ \E b \in Blocks : LegacyPeerBroadcast(b)
    \/ \E m \in net : BDNLose(m)

(* Each worker finishes the call it started; the expanding worker keeps   *)
(* taking broadcasts of a block while the BDN holds one (a goroutine      *)
(* reads every message the BDN sends, and re-processes a broadcast after  *)
(* recovery); the BDN eventually answers every short-ID recovery.         *)
Fairness ==
    /\ \A g \in Gateways :
          /\ WF_vars(BxBlockToBroadcastFinish(g))
          /\ WF_vars(BxBlockFromBroadcastFinish(g))
          /\ \A b \in Blocks :
                SF_vars(\E m \in net : m.hash = Hash[b] /\ m.from \in Gateways
                                      /\ BxBlockFromBroadcastCheck(g, m))
    /\ \A g \in Gateways, t \in Txs, s \in SIDs :
          WF_vars(TxStoreAssignShortID(g, t, s))

Spec == Init /\ [][Next]_vars
FairSpec == Spec /\ Fairness

-----------------------------------------------------------------------------
TypeOK ==
    /\ aged \in [Gateways -> SUBSET Txs]
    /\ storeSids \in [Gateways -> [Txs -> Seq(SIDs)]]
    /\ processed \in [Gateways -> SUBSET Hashes]
    /\ encPending \in [Gateways -> Blocks \cup {None}]
    /\ decPending \in [Gateways -> Broadcast \cup {None}]
    /\ encResult \in [Gateways -> Results]
    /\ decResult \in [Gateways -> Results]
    /\ net \subseteq Broadcast
    /\ encoded \in [Gateways -> SUBSET Blocks]
    /\ delivered \in [Gateways -> SUBSET BxBlock]

(* Round trip (spec 8, invariant 1): every block a gateway expands from   *)
(* the BDN has the transactions of the block the sender compressed, in    *)
(* order, although sender and receiver compress and expand against        *)
(* different stores that learn short IDs in different orders.             *)
RoundTrip ==
    \A g \in Gateways : \A d \in delivered[g] :
        \E b \in Blocks : /\ Hash[b] = d.hash
                         /\ Type[b] = d.type
                         /\ BlockTxs[b] = d.txs

(* A key is in a gateway's processed set only because that gateway        *)
(* compressed or expanded the block: a failed expansion (missing short    *)
(* IDs, codec error) never marks it, so the broadcast is accepted when    *)
(* it is processed again after recovery.                                  *)
ProcessedOnlyAfterSuccess ==
    \A g \in Gateways : \A h \in processed[g] :
        \/ \E b \in encoded[g] : h = DedupKey(b)
        \/ \E d \in delivered[g] : h \in ExpandedKeys(d)

(* A gateway handled b: it compressed b or expanded a broadcast of b.     *)
Handled(g, b) ==
    \/ b \in encoded[g]
    \/ \E d \in delivered[g] : d.hash = Hash[b]

=============================================================================
