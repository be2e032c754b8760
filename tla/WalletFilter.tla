---------------------------- MODULE WalletFilter ----------------------------
(***************************************************************************)
(* The wallet's choice of what to ask for in a block                       *)
(* (src/tad/wallet/wallet_state_manager.py:                                *)
(* WalletStateManager.get_filter_additions_removals).                      *)
(*                                                                         *)
(* Given a new block, its BIP158 transactions filter and the fork point    *)
(* with the peak, the function rebuilds the wallet's unspent coin names as *)
(* of the new block's parent: the coin store's unspent coins at the fork   *)
(* point, then, for every block after the fork point up to the parent,     *)
(* its additions and its removals of the wallet's puzzle hashes.  It then  *)
(* returns the wallet's puzzle hashes and unspent coin names the filter    *)
(* matches: the additions and removals to fetch.                           *)
(*                                                                         *)
(* A pure computation, checked over every chain of a few blocks and coins: *)
(* the chain is chosen in Init and never changes.  Coin names and Coin     *)
(* objects are different Python values (a bytes32 and a Coin), kept apart *)
(* here as differently tagged tuples, and set.remove raises KeyError for  *)
(* a value that is not in the set.  The BIP158 filter is exact (no false   *)
(* positives); the trade manager and the interested store contribute      *)
(* nothing (no trades, no interested coins).                              *)
(***************************************************************************)
EXTENDS Naturals, Sequences, FiniteSets

CONSTANTS
    Coins,      \* the coins of the chain
    MaxHeight,  \* the chain has blocks 0..MaxHeight
    MyPh,       \* a puzzle hash of the wallet's derivation records
    OtherPh,    \* a puzzle hash that is not the wallet's
    Unspent     \* spent height of a coin not spent on the chain

Heights == 0..MaxHeight

VARIABLES
    created,  \* Coins -> the height of the block that adds the coin
    spent,    \* Coins -> the height of the block that spends it, or Unspent
    ph,       \* Coins -> the coin's puzzle hash
    newH,     \* the height of new_block
    forkH     \* fork_point_with_peak

vars == <<created, spent, ph, newH, forkH>>

TypeOK ==
    /\ created \in [Coins -> Heights]
    /\ spent \in [Coins -> Heights \cup {Unspent}]
    /\ ph \in [Coins -> {MyPh, OtherPh}]
    /\ newH \in Heights
    /\ forkH \in Heights

SpentBy(c, h) == spent[c] # Unspent /\ spent[c] <= h

(* Every chain in which a coin is spent after it is created, every new    *)
(* block above the genesis one and every fork point below it.             *)
Init ==
    /\ created \in [Coins -> Heights]
    /\ spent \in [Coins -> Heights \cup {Unspent}]
    /\ \A c \in Coins : spent[c] # Unspent => spent[c] > created[c]
    /\ ph \in [Coins -> {MyPh, OtherPh}]
    /\ newH \in 1..MaxHeight
    /\ forkH \in 0..(newH - 1)

Next == UNCHANGED vars

Spec == Init /\ [][Next]_vars

-----------------------------------------------------------------------------
Name(c) == <<"name", c>>     \* coin.name(), a bytes32
CoinObj(c) == <<"coin", c>>  \* the Coin itself

Mine(c) == ph[c] = MyPh

(* The BIP158 filter of block h: the names of the coins it spends and the *)
(* puzzle hashes of the coins it adds.                                    *)
Filter(h) == {Name(c) : c \in {d \in Coins : spent[d] = h}}
               \cup {ph[c] : c \in {d \in Coins : created[d] = h}}

(* coin_store.get_unspent_coins_at_height(fork_h): the wallet's coins     *)
(* unspent at the fork point.                                             *)
UnspentAt(h) == {c \in Coins : Mine(c) /\ created[c] <= h /\ ~SpentBy(c, h)}

(* Python's set.remove: KeyError unless the value is in the set. *)
PyRemove(r, x) == IF x \in r.names THEN [r EXCEPT !.names = @ \ {x}]
                                   ELSE [r EXCEPT !.ok = FALSE]

(* One reorg block: its additions' names are added, then each removal of *)
(* one of the wallet's puzzle hashes is removed with                      *)
(* unspent_coin_names.remove(removal), the Coin object.                   *)
ApplyBlock(r, h) ==
    LET added == [r EXCEPT !.names = @ \cup {Name(c) : c \in {d \in Coins : created[d] = h}}]
        RECURSIVE RemoveAll(_, _)
        RemoveAll(s, cs) ==
            IF cs = {} \/ ~s.ok THEN s
            ELSE LET c == CHOOSE d \in cs : TRUE IN RemoveAll(PyRemove(s, CoinObj(c)), cs \ {c})
    IN  RemoveAll(added, {c \in Coins : spent[c] = h /\ Mine(c)})

(* The blocks after the fork point up to the parent, applied oldest first *)
(* (the walk from the parent back and reorg_blocks.reverse()).            *)
RECURSIVE ApplyFrom(_, _, _)
ApplyFrom(r, lo, hi) == IF lo > hi \/ ~r.ok THEN r ELSE ApplyFrom(ApplyBlock(r, lo), lo + 1, hi)

(* get_filter_additions_removals(new_block, filter, fork_point): ok is    *)
(* FALSE when it raises.                                                  *)
FilterAdditionsRemovals(n, f) ==
    LET start == [ok |-> TRUE, names |-> {Name(c) : c \in {d \in UnspentAt(f) : created[d] <= f}}]
        r == ApplyFrom(start, f + 1, n - 1)
    IN  [ok |-> r.ok,
         removals |-> {x \in r.names : x \in Filter(n)},
         additions |-> {p \in {MyPh} : p \in Filter(n)}]

-----------------------------------------------------------------------------
(* PROPERTIES                                                              *)

(* The docstring: the function returns "our coin ids" that match the      *)
(* filter.  For every new block and fork point below it, it returns, and  *)
(* every coin of the wallet that the new block spends is among the        *)
(* removals to fetch, so the wallet learns that its coin was spent.       *)
FindsOwnSpends ==
    LET res == FilterAdditionsRemovals(newH, forkH) IN
    /\ res.ok
    /\ \A c \in Coins : Mine(c) /\ spent[c] = newH => Name(c) \in res.removals

====
