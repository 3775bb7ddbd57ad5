\* Both gateway accounts, hex errors, every network class the router
\* tells apart on BSC; liveness of the answer under the handlers' fairness.
CONSTANTS
    r1 = r1  r2 = r2  x1 = x1
    Unlocked = Unlocked  TimerHolder = TimerHolder
    NoFallback = NoFallback  NilTx = NilTx
    Requests = {r1, r2}
    Txs = {x1}
    HexOk = {TRUE, FALSE}
    Messages <- MCMessages
    BlockInterval <- MCBlockInterval
    Networks = {"BSC"}
    NodeAccounts = {"bloxroute", "other"}
SPECIFICATION FairSpec
CHECK_DEADLOCK FALSE
PROPERTY EveryRequestAnsweredOnce
