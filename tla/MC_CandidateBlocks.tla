------------------------- MODULE MC_CandidateBlocks -------------------------
(* One quality string, two declarations (so a later one can overwrite),  *)
(* one signed_values task at a time, three blocks.                       *)
EXTENDS CandidateBlocks, TLC

CONSTANTS qs1, dc1, dc2, sg1

MCQualities == {qs1}
MCDeclarers == {dc1, dc2}
MCSigners == {sg1}
MCMaxBlocks == 3
====
