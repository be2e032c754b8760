---------------------------- MODULE RewardClaims ----------------------------
(***************************************************************************)
(* How the wallet recognises block rewards (wallet_state_manager.py        *)
(* coins_of_interest_added, consensus/coinbase.py).  A reward coin's      *)
(* parent id is one half of the genesis challenge followed by the height  *)
(* of the block it rewards, as 16 big-endian bytes: the first half for    *)
(* the pool reward, the second for the farmer (fee) reward.  When a        *)
(* transaction block arrives, the wallet walks back from its parent to    *)
(* the last transaction block, then on to the transaction block before    *)
(* that, collecting the reward parent ids of every block on the way; a    *)
(* coin of the block whose parent is among them is marked coinbase or fee *)
(* reward.                                                                 *)
(*                                                                         *)
(* The chain grows by one block at a time; blocks[i] records whether the  *)
(* block at height i-1 is a transaction block.  rewardIds accumulates the *)
(* ids the wallet recognised, by kind.                                     *)
(***************************************************************************)
EXTENDS Integers, Sequences, FiniteSets

CONSTANTS
    GenesisChallenge,   \* the genesis challenge, as its two 16-byte halves
    MaxHeight           \* bound on the chain's length

ASSUME Len(GenesisChallenge) = 2 /\ MaxHeight \in Nat \ {0}

VARIABLES
    blocks,      \* the chain: blocks[i] is is_transaction_block of height i-1
    rewardIds    \* [pool |-> ids, farmer |-> ids] the wallet recognised

vars == <<blocks, rewardIds>>

(* int.to_bytes(width, "big"): the big-endian base-256 digits of n.       *)
RECURSIVE ToBytes(_, _)
ToBytes(n, width) ==
    IF width = 0 THEN << >>
    ELSE ToBytes(n \div 256, width - 1) \o << n % 256 >>

(* pool_parent_id: genesis_challenge[:16] + block_height.to_bytes(16).    *)
PoolParentId(h) == << GenesisChallenge[1] >> \o ToBytes(h, 16)

(* farmer_parent_id: genesis_challenge[16:] + block_height.to_bytes(16).  *)
FarmerParentId(h) == << GenesisChallenge[2] >> \o ToBytes(h, 16)

IsTx(h) == blocks[h + 1]

(* The height of the latest transaction block at or below h, or -1.      *)
RECURSIVE TxAtOrBelow(_)
TxAtOrBelow(h) ==
    IF h < 0 THEN -1 ELSE IF IsTx(h) THEN h ELSE TxAtOrBelow(h - 1)

(* The walk of RewardHeights (below) with step 1 not including the       *)
(* transaction block it stops at.                                        *)
RewardHeightsSkipLast(b) ==
    LET last == TxAtOrBelow(b - 1)
        prev == TxAtOrBelow(last - 1)
    IN IF last = -1 THEN {} ELSE (IF prev = -1 THEN 0 ELSE prev)..(last - 1)

(* The heights whose rewards coins_of_interest_added collects for a block *)
(* at height b: step 1 walks back from b-1 to the last transaction block  *)
(* and includes it; step 2 goes on from the block before it, including    *)
(* every block up to and including the next transaction block.            *)
RewardHeights(b) ==
    LET last == TxAtOrBelow(b - 1)
        prev == TxAtOrBelow(last - 1)
    IN IF last = -1 THEN {} ELSE (IF prev = -1 THEN 0 ELSE prev)..last

(* coins_of_interest_added(additions, block), for the reward sets: the    *)
(* pool and farmer parent ids of the collected heights.                   *)
CoinsOfInterestAdded(b) ==
    rewardIds' = [pool   |-> rewardIds.pool \cup {PoolParentId(h) : h \in RewardHeights(b)},
                  farmer |-> rewardIds.farmer \cup {FarmerParentId(h) : h \in RewardHeights(b)}]

Init ==
    /\ blocks = << TRUE >>       \* the genesis block is a transaction block
    /\ rewardIds = [pool |-> {}, farmer |-> {}]

(* A block is added to the peak.  A transaction block reaches the wallet  *)
(* through new_transaction_block_callback, which calls                    *)
(* coins_of_interest_added; other blocks carry no coins for it.          *)
AddBlock(isTx) ==
    /\ Len(blocks) < MaxHeight
    /\ blocks' = Append(blocks, isTx)
    /\ IF isTx THEN CoinsOfInterestAdded(Len(blocks)) ELSE UNCHANGED rewardIds

Next == \E isTx \in BOOLEAN : AddBlock(isTx)

Spec == Init /\ [][Next]_vars

-----------------------------------------------------------------------------
(* PROPERTIES                                                              *)

(* The transaction block before the newest one: by the reward rule, every *)
(* block up to it has had its rewards paid out in a later transaction     *)
(* block, and no block after it has.                                      *)
ClaimedUpTo == TxAtOrBelow(TxAtOrBelow(Len(blocks) - 1) - 1)

(* The wallet recognises as coinbase exactly the pool rewards, and as fee *)
(* reward exactly the farmer rewards, of the blocks up to ClaimedUpTo,     *)
(* and no parent id is both: consecutive walks of coins_of_interest_added *)
(* leave no block out and reach no block too early, across any pattern of *)
(* transaction and non-transaction blocks.                                *)
RewardsRecognisedExactly ==
    /\ rewardIds.pool = {PoolParentId(h) : h \in 0..ClaimedUpTo}
    /\ rewardIds.farmer = {FarmerParentId(h) : h \in 0..ClaimedUpTo}
    /\ rewardIds.pool \cap rewardIds.farmer = {}

====
