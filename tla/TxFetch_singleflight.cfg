CONSTANTS
    p1 = p1
    p2 = p2
    tx1 = tx1
    k1 = k1
    k2 = k2
    NoPeer = NoPeer
    Peers <- MCPeers
    TxIds <- MCTxIds
    TaskIds <- MCTaskIds
    MaxRounds <- MCMaxRounds
SPECIFICATION Spec
SYMMETRY PeerSymmetry


INVARIANT AtMostOneFetchPerTx
