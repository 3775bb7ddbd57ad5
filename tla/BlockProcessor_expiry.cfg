CONSTANTS
    g1 = g1  g2 = g2
    b1 = b1  b2 = b2  b3 = b3
    t1 = t1  t2 = t2
    s1 = s1  s2 = s2  s3 = s3
    h1 = h1  h2 = h2  h3 = h3  bh2 = bh2
    EmptyHash = EmptyHash
    NoTx = NoTx
    None = None
    LegacyPeer = LegacyPeer
    Gateways <- MCGateways
    Blocks <- MCBlocksBeacon
    Txs <- MCTxs
    SIDs <- MCSIDs
    Hash <- MCHash
    BeaconHash <- MCBeaconHash
    Type <- MCType
    BlockTxs <- MCBlockTxs
    SidsOf <- MCSidsOf
    Expiry = TRUE
    Lossy = TRUE


SPECIFICATION Spec

INVARIANTS
    RoundTrip

SYMMETRY MCSymmetry
VIEW MCView
