-------------------------- MODULE MC_WalletLedger --------------------------
(* A farming reward c1 (amount 2) and a payment c2 (amount 1) to the      *)
(* wallet.  t1 spends c1 into change ch1 and a payment o1; t2 spends ch1 *)
(* and c2 into a payment o2.  Three blocks are enough to mint c1, mine t1  *)
(* and mine t2 on one chain; two reorgs let a transaction be orphaned and *)
(* mined again.                                                            *)
EXTENDS WalletLedger, TLC

CONSTANTS c1, c2, ch1, o1, o2, t1, t2

MCCoins == {c1, c2, ch1, o1, o2}
MCMyCoins == {c1, c2, ch1}
MCRewards == {c1}
MCIncoming == {c2}
MCAmount == [c \in MCCoins |-> IF c = c1 THEN 2 ELSE 1]
MCTxs == {t1, t2}
MCTxRems(t) == IF t = t1 THEN {c1} ELSE {ch1, c2}
MCTxAdds(t) == IF t = t1 THEN {ch1, o1} ELSE {o2}
MCMaxHeight == 4
MCMaxReorgs == 2

====
