---------------------------- MODULE MC_TxFetch ----------------------------
(* Model-checking instance of TxFetch: two peers, one transaction id, two *)
(* task slots (enough for a second fetch of the same id to be spawned)    *)
(* and a round limit of 2 in place of the code's 10, small enough for the *)
(* limit to be reached with two peers re-advertising.                     *)
EXTENDS TxFetch, TLC

CONSTANTS p1, p2, tx1, k1, k2

MCPeers == {p1, p2}
MCTxIds == {tx1}
MCTaskIds == {k1, k2}
MCMaxRounds == 2

PeerSymmetry == Permutations(MCPeers)
=============================================================================
