--------------------------- MODULE MC_PlotRefresh ---------------------------
EXTENDS PlotRefresh, TLC

CONSTANTS d1, d2, n1, n2

\* two directories so that a name can have a copy in each, two names so
\* that a plot without keys can take a batch slot from a good one
MCDirs == {d1, d2}
MCNames == {n1, n2}
MCNoKeyNames == {n2}
MCBatchSize == 1
MCMaxClock == 3
\* two writes suffice for a batch of two files
MCMaxClockLive == 2

MCWriteKinds == Kinds
\* files that never open (retried only after retry_invalid_seconds, which
\* the abstract model cannot tell from one batch) are left out of the
\* run about refresh progress
MCWriteKindsLive == {"good", "partial"}

DirSymmetry == Permutations(MCDirs)
====
