------------------------- MODULE MCBlockProcessor -------------------------
(***************************************************************************)
(* Two gateways, an Eth block of two transactions and a beacon block of   *)
(* one (plus, in MCBlocksAll, a block of unknown type).  t2 has two short *)
(* IDs, so the first short ID a sender uses may be one the receiver does  *)
(* not know yet.                                                          *)
(***************************************************************************)
EXTENDS BlockProcessor, TLC

CONSTANTS g1, g2, b1, b2, b3, t1, t2, s1, s2, s3, h1, h2, h3, bh2

MCGateways == {g1, g2}
MCBlocks == {b1, b2}
MCBlocksAll == {b1, b2, b3}
MCBlocksEthUnknown == {b1, b3}
MCBlocksBeacon == {b2, b3}
MCBlocksEth == {b1}
MCTxs == {t1, t2}
MCSIDs == {s1, s2, s3}
MCHash == (b1 :> h1) @@ (b2 :> h2) @@ (b3 :> h3)
MCType == (b1 :> "eth") @@ (b2 :> "beacon") @@ (b3 :> "unknown")
MCBeaconHash == (b1 :> EmptyHash) @@ (b2 :> bh2) @@ (b3 :> EmptyHash)
MCBlockTxs == (b1 :> <<t1, t2>>) @@ (b2 :> <<t2>>) @@ (b3 :> <<t1>>)
MCSidsOf == (t1 :> {s1}) @@ (t2 :> {s2})
MCSidsOfAliased == (t1 :> {s1}) @@ (t2 :> {s2, s3})
MCSymmetry == Permutations(MCGateways)

(* The returned errors do not influence later steps: states that differ  *)
(* only in them are explored once.                                        *)
MCView == <<aged, storeSids, processed, encPending, decPending, net,
            encoded, delivered>>
=============================================================================
