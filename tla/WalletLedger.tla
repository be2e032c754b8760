---------------------------- MODULE WalletLedger ----------------------------
(***************************************************************************)
(* The wallet's coin and transaction records across new blocks and reorgs  *)
(* (src/tad/wallet/wallet_state_manager.py: WalletStateManager            *)
(* .new_transaction_block_callback, coins_of_interest_added,              *)
(* coins_of_interest_removed, coin_added, add_pending_transaction,        *)
(* reorg_rollback and the balance queries).                                *)
(*                                                                         *)
(* The chain grows by blocks that create a coin of the wallet (a payment   *)
(* to it, or a farming reward) or that include a transaction the wallet    *)
(* sent, and it can be cut back to a fork point.  The wallet follows it    *)
(* one block at a time under its lock: on a new transaction block it runs  *)
(* new_transaction_block_callback with the block's additions and removals  *)
(* of its own coins, and when its chain is no longer a prefix of the       *)
(* chain it runs reorg_rollback(fork height).  Each handler is one step:   *)
(* WalletBlockchain calls them under wallet_state_manager.lock, and the    *)
(* wallet sends a transaction under the same lock.                         *)
(*                                                                         *)
(* The coin store and the transaction store are not under src/.  Their     *)
(* operations are what their names say: add_coin_record and               *)
(* add_transaction_record insert or replace, set_spent and set_confirmed   *)
(* set the flag and the height, rollback_to_block(h) deletes the records   *)
(* confirmed above h and un-spends the coins spent above h, tx_reorged     *)
(* puts a transaction back as unconfirmed at height 0.  Coin selection     *)
(* (Wallet.generate_signed_transaction, not under src/) spends unspent     *)
(* records that no unconfirmed transaction removes.  One standard wallet;  *)
(* no trades, pool wallets or interested puzzle hashes.  Whether a coin is *)
(* a reward is what the walk over the previous blocks (675-700) decides;   *)
(* here it is a property of the coin.                                      *)
(***************************************************************************)
EXTENDS Integers, Sequences, SequencesExt, FiniteSets, FiniteSetsExt

CONSTANTS
    Coins,      \* every coin of the model
    MyCoins,    \* the coins whose puzzle hash is one of the wallet's
    Rewards,    \* farming rewards (pool and farmer) paid to the wallet
    Incoming,   \* payments to the wallet from outside
    Amount,     \* Coins -> coin.amount
    Txs,        \* the transactions the wallet can send
    TxRems(_),  \* Txs -> the coins it spends (its removals)
    TxAdds(_),  \* Txs -> the coins it creates (change and payments)
    MaxHeight,  \* bound on the chain's height
    MaxReorgs,  \* bound on the reorgs
    NoRec, NoTx

ASSUME Rewards \cup Incoming \subseteq MyCoins

Heights == 0..MaxHeight
TxNames == Txs \cup Coins   \* a reward or incoming record is named coin.name()

CoinRec == [h : 1..MaxHeight, spent : BOOLEAN, sh : Heights, reward : BOOLEAN]
TxRec == [type : {"out", "in", "reward"}, confirmed : BOOLEAN, h : Heights]
Block == [adds : SUBSET Coins, rems : SUBSET Coins, tx : Txs \cup {NoTx}]

VARIABLES
    chain,      \* the blocks 1..Len(chain) of the current chain
    reorgs,     \* reorgs so far
    sent,       \* the transactions the wallet has pushed to the network
    wchain,     \* the blocks the wallet has processed
    coins,      \* coin_store: Coins -> CoinRec, or NoRec
    txs,        \* tx_store: TxNames -> TxRec, or NoRec
    qres        \* the sum the last get_unconfirmed_balance passed to uint128

recVars == <<chain, reorgs, sent, wchain, coins, txs>>
qVars == <<qres>>
lvars == <<recVars, qVars>>

LTypeOK ==
    /\ chain \in Seq(Block) /\ Len(chain) <= MaxHeight
    /\ reorgs \in 0..MaxReorgs /\ sent \subseteq Txs
    /\ wchain \in Seq(Block) /\ Len(wchain) <= MaxHeight
    /\ coins \in [Coins -> CoinRec \cup {NoRec}]
    /\ txs \in [TxNames -> TxRec \cup {NoRec}]
    /\ qres \in Int

LInit ==
    /\ chain = <<>> /\ reorgs = 0 /\ sent = {}
    /\ wchain = <<>>
    /\ coins = [c \in Coins |-> NoRec]
    /\ txs = [n \in TxNames |-> NoRec]
    /\ qres = 0

-----------------------------------------------------------------------------
(* The chain.                                                              *)
OnChain(c) == \E i \in DOMAIN chain : c \in chain[i].adds
SpentOnChain(c) == \E i \in DOMAIN chain : c \in chain[i].rems
Mined(t) == \E i \in DOMAIN chain : chain[i].tx = t

(* A block creating a payment to the wallet or a reward.  The fork after  *)
(* a reorg may create the coin again, or never.                            *)
Mint(c) ==
    /\ Len(chain) < MaxHeight
    /\ ~OnChain(c)
    /\ chain' = Append(chain, [adds |-> {c}, rems |-> {}, tx |-> NoTx])
    /\ UNCHANGED <<reorgs, sent, wchain, coins, txs>>

(* A block including a transaction the wallet sent, whose coins exist and *)
(* are unspent on this chain.                                              *)
MineTx(t) ==
    /\ Len(chain) < MaxHeight
    /\ t \in sent /\ ~Mined(t)
    /\ \A c \in TxRems(t) : OnChain(c) /\ ~SpentOnChain(c)
    /\ chain' = Append(chain, [adds |-> TxAdds(t), rems |-> TxRems(t), tx |-> t])
    /\ UNCHANGED <<reorgs, sent, wchain, coins, txs>>

(* A heavier fork: the chain is cut back to height h; the fork's own      *)
(* blocks follow as Mint and MineTx steps.                                 *)
Reorg(h) ==
    /\ reorgs < MaxReorgs /\ h < Len(chain)
    /\ chain' = SubSeq(chain, 1, h)
    /\ reorgs' = reorgs + 1
    /\ UNCHANGED <<sent, wchain, coins, txs>>

-----------------------------------------------------------------------------
(* The wallet.                                                             *)
Unconfirmed == {n \in TxNames : txs[n] # NoRec /\ ~txs[n].confirmed}

SetConfirmed(r, h) == [r EXCEPT !.confirmed = TRUE, !.h = h]

(* coin_added for the coins adds at height h, given the outgoing          *)
(* transactions out read before: the transaction record named n after it. *)
(* A reward gets a confirmed reward record; a coin some outgoing          *)
(* transaction creates (change) confirms those of them still unconfirmed; *)
(* any other coin with a non-zero amount gets a confirmed incoming        *)
(* record.                                                                 *)
CoinAdded(st, out, adds, h, n) ==
    CASE n \in adds \cap Rewards ->
           [type |-> "reward", confirmed |-> TRUE, h |-> h]
      [] n \in adds \ Rewards /\ ~(\E t \in out : n \in TxAdds(t)) /\ Amount[n] > 0 ->
           [type |-> "in", confirmed |-> TRUE, h |-> h]
      [] n \in out /\ TxAdds(n) \cap (adds \ Rewards) # {} /\ ~st.txs[n].confirmed ->
           SetConfirmed(st.txs[n], h)
      [] OTHER -> st.txs[n]

\* the coin record takes the height of the previous transaction block (the
\* prev walked to for the rewards) instead of the block's own
CoinsOfInterestAddedPrevHeight(st, adds, h) ==
    LET out == {t \in Txs : st.txs[t] # NoRec /\ st.txs[t].type = "out"}
    IN  [coins |-> [c \in Coins |-> IF c \in adds
                                      THEN [h |-> h - 1, spent |-> FALSE, sh |-> 0, reward |-> c \in Rewards]
                                      ELSE st.coins[c]],
         txs |-> [n \in TxNames |-> CoinAdded(st, out, adds, h, n)]]

(* coins_of_interest_added(additions, block): the outgoing transactions   *)
(* are read once (all_outgoing_tx), then coin_added runs for every coin,  *)
(* which also adds its coin record.                                        *)
CoinsOfInterestAdded(st, adds, h) ==
    LET out == {t \in Txs : st.txs[t] # NoRec /\ st.txs[t].type = "out"}
    IN  [coins |-> [c \in Coins |-> IF c \in adds
                                      THEN [h |-> h, spent |-> FALSE, sh |-> 0, reward |-> c \in Rewards]
                                      ELSE st.coins[c]],
         txs |-> [n \in TxNames |-> CoinAdded(st, out, adds, h, n)]]

\* the removals only set the coins spent, never confirming the transactions
\* that spend them
CoinsOfInterestRemovedNoConfirm(st, rems, h) ==
    [coins |-> [c \in Coins |-> IF c \in rems /\ st.coins[c] # NoRec
                                  THEN [st.coins[c] EXCEPT !.spent = TRUE, !.sh = h]
                                  ELSE st.coins[c]],
     txs |-> st.txs]

(* coins_of_interest_removed(removals, height): the unconfirmed           *)
(* transactions are read once; every removed coin with a record is set    *)
(* spent, and every unconfirmed transaction that removes it is set        *)
(* confirmed.                                                              *)
CoinsOfInterestRemoved(st, rems, h) ==
    LET unconf == {n \in TxNames : st.txs[n] # NoRec /\ ~st.txs[n].confirmed}
    IN  [coins |-> [c \in Coins |-> IF c \in rems /\ st.coins[c] # NoRec
                                      THEN [st.coins[c] EXCEPT !.spent = TRUE, !.sh = h]
                                      ELSE st.coins[c]],
         txs |-> [n \in TxNames |-> IF n \in unconf /\ n \in Txs /\ TxRems(n) \cap rems # {}
                                      THEN SetConfirmed(st.txs[n], h)
                                      ELSE st.txs[n]]]

(* new_transaction_block_callback: the additions first, then the          *)
(* removals, of the block at height h.                                     *)
NewTransactionBlockCallback(b, h) ==
    LET st == CoinsOfInterestAdded([coins |-> coins, txs |-> txs], b.adds \cap MyCoins, h)
        fin == CoinsOfInterestRemoved(st, b.rems \cap MyCoins, h)
    IN  coins' = fin.coins /\ txs' = fin.txs

(* The wallet's chain extends the chain's prefix it has: the next block.  *)
ReceiveBlock ==
    /\ IsPrefix(wchain, chain) /\ Len(wchain) < Len(chain)
    /\ NewTransactionBlockCallback(chain[Len(wchain) + 1], Len(wchain) + 1)
    /\ wchain' = Append(wchain, chain[Len(wchain) + 1])
    /\ UNCHANGED <<chain, reorgs, sent>>

\* rollback_to_block deletes the coins created above h but leaves those
\* spent above h marked spent
ReorgRollbackNoUnspend(h) ==
    /\ coins' = [c \in Coins |-> IF coins[c] # NoRec /\ coins[c].h > h THEN NoRec ELSE coins[c]]
    /\ txs' = [n \in TxNames |->
                 IF txs[n] # NoRec /\ txs[n].h > h
                   THEN IF txs[n].type = "out" THEN [type |-> "out", confirmed |-> FALSE, h |-> 0]
                                               ELSE NoRec
                   ELSE txs[n]]

(* reorg_rollback(h): coin_store.rollback_to_block(h); the transactions   *)
(* confirmed above h are read, deleted, and the outgoing ones among them  *)
(* put back with tx_reorged.                                               *)
ReorgRollback(h) ==
    /\ coins' = [c \in Coins |->
                   CASE coins[c] = NoRec -> NoRec
                     [] coins[c].h > h -> NoRec
                     [] coins[c].sh > h -> [coins[c] EXCEPT !.spent = FALSE, !.sh = 0]
                     [] OTHER -> coins[c]]
    /\ txs' = [n \in TxNames |->
                 IF txs[n] # NoRec /\ txs[n].h > h
                   THEN IF txs[n].type = "out" THEN [type |-> "out", confirmed |-> FALSE, h |-> 0]
                                               ELSE NoRec
                   ELSE txs[n]]

(* The wallet's chain has left the chain: roll back to the fork point.    *)
Rollback ==
    /\ ~IsPrefix(wchain, chain)
    /\ LET fork == Len(LongestCommonPrefix({wchain, chain})) IN
       /\ ReorgRollback(fork)
       /\ wchain' = SubSeq(wchain, 1, fork)
    /\ UNCHANGED <<chain, reorgs, sent>>

(* add_pending_transaction: the wallet records a transaction it built    *)
(* from unspent coins that no unconfirmed transaction spends, and sends   *)
(* it.                                                                     *)
Spendable == {c \in Coins : coins[c] # NoRec /\ ~coins[c].spent}
             \ UNION {TxRems(t) : t \in Unconfirmed \cap Txs}

AddPendingTransaction(t) ==
    /\ t \notin sent
    /\ TxRems(t) \subseteq Spendable
    /\ txs' = [txs EXCEPT ![t] = [type |-> "out", confirmed |-> FALSE, h |-> 0]]
    /\ sent' = sent \cup {t}
    /\ UNCHANGED <<chain, reorgs, wchain, coins>>

-----------------------------------------------------------------------------
(* The balance query (get_unconfirmed_balance), one step: the confirmed    *)
(* amount is read inside 'async with self.lock', and the read of the      *)
(* unconfirmed transactions is issued right after the lock is released,   *)
(* with no await between them at which a block callback or a send could  *)
(* run.                                                                    *)

(* get_balance_from_coin_records over get_unspent_coins_for_wallet.        *)
ConfirmedBalance ==
    MapThenSumSet(LAMBDA c : Amount[c], {c \in Coins : coins[c] # NoRec /\ ~coins[c].spent})

(* _get_unconfirmed_balance(confirmed): for every unconfirmed transaction, *)
(* its removals and additions that does_coin_belong_to_wallet accepts (by *)
(* puzzle hash); (confirmed + addition_amount) - removal_amount.           *)
UnconfirmedSum(confirmed) ==
    LET pending == Unconfirmed \cap Txs
        added == MapThenSumSet(LAMBDA p : Amount[p[2]],
                               {<<t, c>> \in pending \X MyCoins : c \in TxAdds(t)})
        removed == MapThenSumSet(LAMBDA p : Amount[p[2]],
                                 {<<t, c>> \in pending \X MyCoins : c \in TxRems(t)})
    IN  (confirmed + added) - removed

(* get_unconfirmed_balance(wallet_id): the confirmed balance, then        *)
(* _get_unconfirmed_balance over it.                                       *)
GetUnconfirmedBalance ==
    /\ qres' = UnconfirmedSum(ConfirmedBalance)
    /\ UNCHANGED recVars

LNext ==
    \/ /\ \/ \E c \in Incoming \cup Rewards : Mint(c)
          \/ \E t \in Txs : MineTx(t) \/ AddPendingTransaction(t)
          \/ \E h \in 0..MaxHeight : Reorg(h)
          \/ ReceiveBlock \/ Rollback
       /\ UNCHANGED qVars
    \/ GetUnconfirmedBalance

LSpec == LInit /\ [][LNext]_lvars

-----------------------------------------------------------------------------
(* PROPERTIES                                                              *)

CaughtUp == wchain = chain

(* Once the wallet has processed the chain, its unspent coin records are  *)
(* exactly its coins the chain created and has not spent, each at the     *)
(* height of the block that created it: across reorgs, the additions     *)
(* processed before the removals, and rollback_to_block.                   *)
CoinsMatchChain ==
    CaughtUp =>
      \A c \in MyCoins :
        /\ (coins[c] # NoRec /\ ~coins[c].spent) <=> (OnChain(c) /\ ~SpentOnChain(c))
        /\ coins[c] # NoRec => coins[c].h <= Len(chain) /\ c \in chain[coins[c].h].adds

(* Once the wallet has processed the chain, every transaction it sent is  *)
(* in its store, and is confirmed exactly when the chain includes it:     *)
(* confirmed by its change or its removals, put back by tx_reorged.       *)
TxStatusMatchesChain ==
    CaughtUp =>
      \A t \in sent : txs[t] # NoRec /\ (txs[t].confirmed <=> Mined(t))

(* The docstring of get_unconfirmed_balance: it "Returns the balance,     *)
(* including coinbase rewards that are not spendable, and unconfirmed     *)
(* transactions".  It returns uint128(result), which raises ValueError    *)
(* for a negative result, so every call must compute a sum that is not    *)
(* negative, whatever blocks, reorgs, rollbacks and sends came before.    *)
UnconfirmedBalanceDefined == qres >= 0

====
