CONSTANTS
    r1 = r1  r2 = r2  x1 = x1
    Unlocked = Unlocked  TimerHolder = TimerHolder
    NoFallback = NoFallback  NilTx = NilTx
    Requests = {r1, r2}
    Txs = {x1}
    HexOk = {TRUE}
    Messages <- MCMessages
    BlockInterval <- MCBlockInterval
    Networks = {"BSC", "Polygon", "other"}
    NodeAccounts = {"other"}
SPECIFICATION FairSpec
CHECK_DEADLOCK FALSE
INVARIANT TypeOK NoDoubleSend
PROPERTY FallbackTxEventuallySent
