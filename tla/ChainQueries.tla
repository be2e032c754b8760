---------------------------- MODULE ChainQueries ----------------------------
(***************************************************************************)
(* Chain queries served while the chain moves                              *)
(* (src/tad/full_node/full_node_api.py: FullNodeAPI.request_block,         *)
(* request_blocks, request_header_blocks, request_additions and            *)
(* request_removals).                                                      *)
(*                                                                         *)
(* None of these handlers takes blockchain.lock.  Between their awaits    *)
(* FullNode.respond_block (not under src/) may add a peak or switch the    *)
(* main chain to another fork.  The blocks are Blk(f, h): the block at     *)
(* height h of fork f, the forks sharing their blocks up to ForkAt.  The   *)
(* block store keeps the blocks of both forks; height_to_hash and the coin *)
(* store follow the main chain, and the coin records of height h are those *)
(* of the main chain's block there (a coin list is named by its block).    *)
(* Handlers only read, so one request at a time is enough: what one       *)
(* returns does not depend on the others.                                 *)
(***************************************************************************)
EXTENDS Naturals, Sequences

CONSTANTS
    Forks,       \* the competing forks
    ForkAt,      \* the last height the forks share
    MaxHeight,   \* the highest block of either fork
    NoBlock      \* no coin records at that height

Trunk == CHOOSE f \in Forks : TRUE
Heights == 0..MaxHeight

Blk(f, h) == <<IF h <= ForkAt THEN Trunk ELSE f, h>>
Blocks == {Blk(f, h) : f \in Forks, h \in Heights}

VARIABLES
    main,   \* the fork of the peak
    peak,   \* blockchain.get_peak_height()
    q,      \* the request being served: a record, or [kind |-> "none"]
    last    \* the last message sent back: a record, or [kind |-> "none"]

cvars == <<main, peak, q, last>>

None == [kind |-> "none"]
Reject == [kind |-> "reject"]

ContainsHeight(h) == h <= peak
HeightToHash(h) == Blk(main, h)
CoinsAt(h) == IF h <= peak THEN Blk(main, h) ELSE NoBlock

CInit ==
    /\ main = Trunk
    /\ peak = MaxHeight
    /\ q = None
    /\ last = None

-----------------------------------------------------------------------------
(* respond_block: a new peak on the main chain, or a heavier fork (of any *)
(* height above the fork point) becomes the main chain.                   *)
AddPeak ==
    /\ peak < MaxHeight
    /\ peak' = peak + 1
    /\ UNCHANGED <<main, q, last>>

Reorg(f, p) ==
    /\ f # main
    /\ main' = f
    /\ peak' = p
    /\ UNCHANGED <<q, last>>

(* request_block(h): one height_to_hash and one get_full_block by hash.   *)
RequestBlock(h) ==
    /\ q = None
    /\ last' = IF ContainsHeight(h) THEN [kind |-> "blocks", s |-> h, blocks |-> <<HeightToHash(h)>>]
                                    ELSE Reject
    /\ UNCHANGED <<main, peak, q>>

(* request_blocks(s, e): the range checks and contains_height for every   *)
(* height, then the loop starts.                                          *)
RequestBlocks(s, e) ==
    /\ q = None
    /\ IF e < s \/ e - s > 32 \/ \E i \in s..e : ~ContainsHeight(i)
         THEN last' = Reject /\ UNCHANGED q
         ELSE q' = [kind |-> "blocks", s |-> s, e |-> e, i |-> s, blocks |-> <<>>] /\ UNCHANGED last
    /\ UNCHANGED <<main, peak>>

(* One round of its loop: height_to_hash(i) (a KeyError when i is above   *)
(* the peak now), then await get_full_block(_bytes) of that hash; after  *)
(* the last height the blocks go out.                                     *)
BlocksRound ==
    /\ q.kind = "blocks"
    /\ IF ~ContainsHeight(q.i)
         THEN q' = None /\ UNCHANGED last
         ELSE LET bs == Append(q.blocks, HeightToHash(q.i)) IN
              IF q.i = q.e
                THEN /\ last' = [kind |-> "blocks", s |-> q.s, blocks |-> bs]
                     /\ q' = None
                ELSE /\ q' = [q EXCEPT !.i = @ + 1, !.blocks = bs]
                     /\ UNCHANGED last
    /\ UNCHANGED <<main, peak>>

(* request_header_blocks(s, e): the hashes are read without an await,     *)
(* then get_blocks_by_hash, then two coin-store awaits per block.         *)
RequestHeaderBlocks(s, e) ==
    /\ q = None
    /\ ~(e < s \/ e - s > 32)
    /\ IF \E i \in s..e : ~ContainsHeight(i)
         THEN last' = Reject /\ UNCHANGED q
         ELSE /\ q' = [kind |-> "headers", blocks |-> [k \in 1..(e - s + 1) |-> HeightToHash(s + k - 1)],
                       k |-> 1, added |-> <<>>, removed |-> <<>>]
              /\ UNCHANGED last
    /\ UNCHANGED <<main, peak>>

(* get_coins_added_at_height, then get_coins_removed_at_height, of the    *)
(* k-th block's height: two awaits, each reading the coin store as it is *)
(* then.  After the last block the header blocks go out.                  *)
HeaderCoins ==
    /\ q.kind = "headers"
    /\ LET h == q.blocks[q.k][2] IN
       IF Len(q.added) < q.k
         THEN q' = [q EXCEPT !.added = Append(@, CoinsAt(h))] /\ UNCHANGED last
         ELSE LET r == Append(q.removed, CoinsAt(h)) IN
              IF q.k = Len(q.blocks)
                THEN /\ last' = [kind |-> "headers", blocks |-> q.blocks, added |-> q.added, removed |-> r]
                     /\ q' = None
                ELSE /\ q' = [q EXCEPT !.removed = r, !.k = @ + 1]
                     /\ UNCHANGED last
    /\ UNCHANGED <<main, peak>>

(* request_additions(hash) / request_removals(hash): await get_full_block *)
(* first.  With puzzle_hashes (coin_names) the handler builds a Merkle    *)
(* set and asserts its root is the block's; without them it only lists.  *)
RequestCoins(kind, b, filtered) ==
    /\ q = None
    /\ q' = [kind |-> kind, hash |-> b, filtered |-> filtered, pc |-> "check", coins |-> NoBlock]
    /\ UNCHANGED <<main, peak, last>>

(* The block is there: reject unless it is the main chain's block at its  *)
(* height (request_removals also rejects a height above the peak), then   *)
(* start the coin-store query.                                            *)
CoinsCheck ==
    /\ q.kind \in {"additions", "removals"} /\ q.pc = "check"
    /\ IF ContainsHeight(q.hash[2]) /\ HeightToHash(q.hash[2]) = q.hash
         THEN q' = [q EXCEPT !.pc = "query"] /\ UNCHANGED last
         ELSE q' = None /\ last' = Reject
    /\ UNCHANGED <<main, peak>>

(* The coin-store query runs against the store as it is then.             *)
CoinsQuery ==
    /\ q.kind \in {"additions", "removals"} /\ q.pc = "query"
    /\ q' = [q EXCEPT !.pc = "resume", !.coins = CoinsAt(q.hash[2])]
    /\ UNCHANGED <<main, peak, last>>

(* The handler resumes: "if height_to_hash(block.height) !=                *)
(* request.header_hash: raise ValueError"; the Merkle-root assertion of   *)
(* a filtered request fails on coins of another block; else the coins go *)
(* out.                                                                   *)
CoinsResume ==
    /\ q.kind \in {"additions", "removals"} /\ q.pc = "resume"
    /\ q' = None
    /\ IF /\ ContainsHeight(q.hash[2]) /\ HeightToHash(q.hash[2]) = q.hash
          /\ q.filtered => q.coins = q.hash
         THEN last' = [kind |-> q.kind, hash |-> q.hash, coins |-> q.coins]
         ELSE UNCHANGED last
    /\ UNCHANGED <<main, peak>>

CNext ==
    \/ AddPeak
    \/ \E f \in Forks, p \in (ForkAt + 1)..MaxHeight : Reorg(f, p)
    \/ \E h \in Heights : RequestBlock(h)
    \/ \E s, e \in Heights : RequestBlocks(s, e) \/ RequestHeaderBlocks(s, e)
    \/ \E kind \in {"additions", "removals"}, b \in Blocks, fl \in BOOLEAN : RequestCoins(kind, b, fl)
    \/ BlocksRound \/ HeaderCoins \/ CoinsCheck \/ CoinsQuery \/ CoinsResume

CSpec == CInit /\ [][CNext]_cvars

-----------------------------------------------------------------------------
(* PROPERTIES                                                              *)

(* Every answer describes the chain it names: the blocks of a             *)
(* RespondBlocks are the consecutive blocks of one fork, the coin lists  *)
(* of each header block are those of that block, and the coins of a      *)
(* RespondAdditions or RespondRemovals are those of the requested block  *)
(* (the re-check after the coin-store await is there to ensure it).      *)
AnswersDescribeOneChain ==
    /\ last.kind = "blocks" =>
         \E f \in Forks : \A k \in DOMAIN last.blocks : last.blocks[k] = Blk(f, last.s + k - 1)
    /\ last.kind = "headers" =>
         \A k \in DOMAIN last.blocks : last.added[k] = last.blocks[k] /\ last.removed[k] = last.blocks[k]
    /\ last.kind \in {"additions", "removals"} => last.coins = last.hash

====
