CONSTANTS
    c1 = c1
    c2 = c2
    ch1 = ch1
    o1 = o1
    o2 = o2
    t1 = t1
    t2 = t2
    NoRec = NoRec
    NoTx = NoTx
    Coins <- MCCoins
    MyCoins <- MCMyCoins
    Rewards <- MCRewards
    Incoming <- MCIncoming
    Amount <- MCAmount
    Txs <- MCTxs
    TxRems <- MCTxRems
    TxAdds <- MCTxAdds
    MaxHeight <- MCMaxHeight
    MaxReorgs <- MCMaxReorgs
SPECIFICATION LSpec
CHECK_DEADLOCK FALSE
INVARIANT UnconfirmedBalanceDefined
