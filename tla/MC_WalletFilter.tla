--------------------------- MODULE MC_WalletFilter ---------------------------
(* Two coins on a chain of blocks 0..2: enough for a coin of the wallet to *)
(* be added at the fork point, spent in the block after it, and another   *)
(* to be spent by the new block.                                          *)
EXTENDS WalletFilter, TLC

CONSTANTS cn1, cn2

MCCoins == {cn1, cn2}
MCMaxHeight == 2

====
