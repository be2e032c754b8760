------------------------------ MODULE MC_Stores ------------------------------
(***************************************************************************)
(* The safety of three bookkeeping components that share no state,       *)
(* checked in one run: the harvester's plot tables across refreshes       *)
(* (PlotRefresh), the wallet's coin and transaction records across blocks *)
(* and reorgs (WalletLedger), and the wallet's recognition of reward      *)
(* coins (RewardClaims).  None gets fairness: only invariants are checked.*)
(*                                                                         *)
(* As in MC_FullNode, Init picks the component that runs (store) and the   *)
(* others stay in their initial state, in which their invariants hold.    *)
(* The symmetry permutes plot directories only, which the wallet never    *)
(* reads.                                                                  *)
(***************************************************************************)
EXTENDS TLC

CONSTANTS d1, d2, n1, n2, Absent, NotLoaded, NoEntry,
          c1, c2, ch1, o1, o2, t1, t2, NoRec, NoTx, gLo, gHi

VARIABLES
    store,
    disk, clock, config, plots, fnp, failed, noKey, cache, due, phase,
    snapshot, dirsSnap, todo, refreshed, processed, remaining,       \* PlotRefresh
    chain, reorgs, sent, wchain, coins, txs, qres,      \* WalletLedger
    blocks, rewardIds                                                \* RewardClaims

\* PlotRefresh as in MC_PlotRefresh: two directories so that a name can have
\* a copy in each, two names so that a plot without keys can take a batch
\* slot from a good one, three file writes
PR == INSTANCE PlotRefresh WITH Dirs <- {d1, d2}, Names <- {n1, n2}, NoKeyNames <- {n2},
                                BatchSize <- 1, MaxClock <- 3,
                                WriteKinds <- {"good", "partial", "corrupt"}

\* WalletLedger as in MC_WalletLedger: a reward c1 (amount 2) and a payment
\* c2 to the wallet; t1 spends c1 into change ch1 and a payment o1, t2
\* spends ch1 and c2 into a payment o2; three blocks and two reorgs
WL == INSTANCE WalletLedger WITH Coins <- {c1, c2, ch1, o1, o2}, MyCoins <- {c1, c2, ch1},
                                 Rewards <- {c1}, Incoming <- {c2},
                                 Amount <- [c \in {c1, c2, ch1, o1, o2} |-> IF c = c1 THEN 2 ELSE 1],
                                 Txs <- {t1, t2},
                                 TxRems <- LAMBDA t : IF t = t1 THEN {c1} ELSE {ch1, c2},
                                 TxAdds <- LAMBDA t : IF t = t1 THEN {ch1, o1} ELSE {o2},
                                 MaxHeight <- 4, MaxReorgs <- 2

\* RewardClaims: a genesis challenge with two different halves, and chains
\* of up to six blocks, which hold every pattern of two non-transaction
\* blocks between transaction blocks and a run of three
RC == INSTANCE RewardClaims WITH GenesisChallenge <- << gLo, gHi >>, MaxHeight <- 6

prVars == <<disk, clock, config, plots, fnp, failed, noKey, cache, due, phase,
            snapshot, dirsSnap, todo, refreshed, processed, remaining>>
wlVars == <<chain, reorgs, sent, wchain, coins, txs, qres>>
rcVars == <<blocks, rewardIds>>

Init ==
    /\ store \in {"plots", "wallet", "rewards"}
    /\ PR!Init /\ WL!LInit /\ RC!Init

Next ==
    /\ UNCHANGED store
    /\ \/ store = "plots" /\ PR!Next /\ UNCHANGED <<wlVars, rcVars>>
       \/ store = "wallet" /\ WL!LNext /\ UNCHANGED <<prVars, rcVars>>
       \/ store = "rewards" /\ RC!Next /\ UNCHANGED <<prVars, wlVars>>

allVars == <<store, prVars, wlVars, rcVars>>

Spec == Init /\ [][Next]_allVars

DirSymmetry == Permutations({d1, d2})

-----------------------------------------------------------------------------
(* PROPERTIES: those of the components, stated in their modules.          *)

(* The type invariants of PlotRefresh and WalletLedger.                                    *)
TypeOK == PR!TypeOK
LTypeOK == WL!LTypeOK

(* PlotRefresh: at most one copy of a plot name is loaded.                *)
OneLoadedCopyPerName == PR!OneLoadedCopyPerName

(* PlotRefresh: every loaded plot is the one plot_filename_paths records. *)
LoadedIsRecorded == PR!LoadedIsRecorded

(* WalletLedger: a caught-up wallet's unspent records are its coins       *)
(* unspent on the chain, at their heights.                                *)
CoinsMatchChain == WL!CoinsMatchChain

(* WalletLedger: a caught-up wallet has every transaction it sent, and   *)
(* it is confirmed exactly when the chain includes it.                    *)
TxStatusMatchesChain == WL!TxStatusMatchesChain

(* RewardClaims: the wallet marks as coinbase and fee reward exactly the  *)
(* pool and farmer rewards of the blocks up to the transaction block      *)
(* before the newest one, never one id as both.                           *)
RewardsRecognisedExactly == store = "rewards" => RC!RewardsRecognisedExactly

====
