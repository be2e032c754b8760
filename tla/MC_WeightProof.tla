--------------------------- MODULE MC_WeightProof ---------------------------
EXTENDS WeightProof, TLC

CONSTANTS w1, w2, t1, t2, t3

\* two concurrent requests over three tips, with the dict trimmed by 2
\* (the code's 4) once it holds more than 2: trimming happens, also while
\* a creation is running and with a popped event still unset
MCHandlers == {w1, w2}
MCTips == {t1, t2, t3}
MCEvictCount == 2

TipSymmetry == Permutations(MCTips)
====
