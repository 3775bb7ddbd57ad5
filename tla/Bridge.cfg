CONSTANTS
    k1 = k1  k2 = k2  k3 = k3  k4 = k4
    c1 = c1  c2 = c2
    Msg = Msg
    Backlog = 2
    Queues <- QueueNames
    Capacity <- MCCapacity
    BridgeBlocks <- MCBridgeBlocks
    BlockType <- MCBlockType
    Controllers = {c1, c2}
SPECIFICATION Spec
CONSTRAINT OneUniformChannelBusy
VIEW MCView
INVARIANT AcceptedBlocksDelivered
PROPERTY ChannelFullOnlyWhenSaturated
