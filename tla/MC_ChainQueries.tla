-------------------------- MODULE MC_ChainQueries --------------------------
(* Two forks sharing the genesis block, three heights: a range request    *)
(* spans the fork point, and either fork can become the main chain again. *)
EXTENDS ChainQueries, TLC

CONSTANTS fa, fb

MCForks == {fa, fb}
MCForkAt == 0
MCMaxHeight == 2
====
