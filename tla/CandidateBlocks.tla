--------------------------- MODULE CandidateBlocks ---------------------------
(***************************************************************************)
(* Candidate blocks awaiting the farmer's signatures                       *)
(* (src/tad/full_node/full_node_api.py: FullNodeAPI.declare_proof_of_space *)
(* and FullNodeAPI.signed_values).                                         *)
(*                                                                         *)
(* declare_proof_of_space runs under timelord_lock.  After the awaited     *)
(* mempool bundle it builds the block, stores it as the candidate of its   *)
(* quality string, sends RequestSignedValues and stores a backup without  *)
(* the generator when the block has one.  send_message only puts the      *)
(* message on the connection's unbounded outgoing queue and does not      *)
(* suspend, so all of this is one step.                                    *)
(* signed_values takes no lock: it looks the candidate up, checks the     *)
(* signature, awaits respond_unfinished_block, and when that raises puts   *)
(* the backup in the candidate's place and asks for signatures again.      *)
(*                                                                         *)
(* A block is [n, gen]: the n-th block built, with or without a generator; *)
(* the backup of [n, TRUE] is [n, FALSE].  The farmer's signature is over  *)
(* the block it was asked about, so a SignedValues names that block.  The *)
(* candidate store (add_candidate_block, get_candidate_block) is not under *)
(* src/: a key holds one candidate and one backup, and a store overwrites. *)
(* The early returns before the mempool await (sync mode, an unknown or   *)
(* old signage point or sub-slot) change nothing and are not actions.     *)
(***************************************************************************)
EXTENDS Naturals, FiniteSets

CONSTANTS
    Qualities,    \* quality strings of declared proofs
    Declarers,    \* declare_proof_of_space tasks
    Signers,      \* signed_values tasks
    MaxBlocks,    \* bound on the blocks built
    NoBlock, NoTask

Blocks == [n : 1..MaxBlocks, gen : BOOLEAN]
Backup(b) == [b EXCEPT !.gen = FALSE]

VARIABLES
    lock,       \* timelord_lock: the declarer holding it, or NoTask
    dh,         \* Declarers -> [pc, q]
    made,       \* blocks built so far
    cand,       \* Qualities -> the candidate block, or NoBlock
    backup,     \* Qualities -> the backup candidate, or NoBlock
    toFarmer,   \* RequestSignedValues in flight: <<q, blk>>
    toNode,     \* SignedValues in flight: <<q, blk>>
    sv,         \* Signers -> [pc, q, blk]
    abandoned   \* blocks whose failed round found no backup (history)

bvars == <<lock, dh, made, cand, backup, toFarmer, toNode, sv, abandoned>>

BInit ==
    /\ lock = NoTask
    /\ dh = [d \in Declarers |-> [pc |-> "idle", q |-> CHOOSE q \in Qualities : TRUE]]
    /\ made = 0
    /\ cand = [q \in Qualities |-> NoBlock]
    /\ backup = [q \in Qualities |-> NoBlock]
    /\ toFarmer = {} /\ toNode = {}
    /\ sv = [s \in Signers |-> [pc |-> "idle", q |-> CHOOSE q \in Qualities : TRUE, blk |-> NoBlock]]
    /\ abandoned = {}

-----------------------------------------------------------------------------
(* declare_proof_of_space for quality q: timelord_lock is taken, the      *)
(* signage point and sub-slot are found, and the handler awaits the       *)
(* mempool bundle under blockchain.lock.                                  *)
DeclareProofOfSpace(d, q) ==
    /\ dh[d].pc = "idle" /\ lock = NoTask
    /\ lock' = d
    /\ dh' = [dh EXCEPT ![d] = [pc |-> "bundle", q |-> q]]
    /\ UNCHANGED <<made, cand, backup, toFarmer, toNode, sv, abandoned>>

(* After the bundle: the previous block is not found within 10 hops, or   *)
(* the finished sub-slots do not match: return None, releasing the lock.  *)
DeclareFails(d) ==
    /\ dh[d].pc = "bundle"
    /\ lock' = NoTask
    /\ dh' = [dh EXCEPT ![d].pc = "idle"]
    /\ UNCHANGED <<made, cand, backup, toFarmer, toNode, sv, abandoned>>

BuildCandidate(d, gen) ==
    /\ dh[d].pc = "bundle" /\ made < MaxBlocks
    /\ LET b == [n |-> made + 1, gen |-> gen] IN
       /\ made' = made + 1
       /\ cand' = [cand EXCEPT ![dh[d].q] = b]
       /\ toFarmer' = toFarmer \cup {<<dh[d].q, b>>}
       /\ backup' = IF gen THEN [backup EXCEPT ![dh[d].q] = Backup(b)] ELSE backup
    /\ lock' = NoTask
    /\ dh' = [dh EXCEPT ![d].pc = "idle"]
    /\ UNCHANGED <<toNode, sv, abandoned>>

(* The farmer signs what it was asked, or the request or answer is lost.  *)
FarmerSigns(m) ==
    /\ m \in toFarmer
    /\ toFarmer' = toFarmer \ {m}
    /\ toNode' = toNode \cup {m}
    /\ UNCHANGED <<lock, dh, made, cand, backup, sv, abandoned>>

LoseRequest(m) ==
    /\ m \in toFarmer
    /\ toFarmer' = toFarmer \ {m}
    /\ UNCHANGED <<lock, dh, made, cand, backup, toNode, sv, abandoned>>

(* signed_values: no candidate for the quality string, or a signature     *)
(* that does not verify against the candidate's foliage: return None.     *)
(* Otherwise the signed candidate is handed to respond_unfinished_block.  *)
SignedValues(s, m) ==
    /\ sv[s].pc = "idle" /\ m \in toNode
    /\ toNode' = toNode \ {m}
    /\ sv' = IF cand[m[1]] = m[2]
               THEN [sv EXCEPT ![s] = [pc |-> "propagate", q |-> m[1], blk |-> m[2]]]
               ELSE sv
    /\ UNCHANGED <<lock, dh, made, cand, backup, toFarmer, abandoned>>

(* respond_unfinished_block returns (ok) or raises: then the backup, if   *)
(* any, becomes the candidate and RequestSignedValues goes out for it.    *)
Propagated(s, ok) ==
    /\ sv[s].pc = "propagate"
    /\ sv' = [sv EXCEPT ![s].pc = "idle"]
    /\ LET q == sv[s].q IN
       IF ok THEN UNCHANGED <<cand, toFarmer, abandoned>>
       ELSE IF backup[q] # NoBlock
              THEN /\ cand' = [cand EXCEPT ![q] = backup[q]]
                   /\ toFarmer' = toFarmer \cup {<<q, backup[q]>>}
                   /\ UNCHANGED abandoned
              ELSE /\ abandoned' = abandoned \cup {sv[s].blk}
                   /\ UNCHANGED <<cand, toFarmer>>
    /\ UNCHANGED <<lock, dh, made, backup, toNode>>

BNext ==
    \/ \E d \in Declarers :
         \/ \E q \in Qualities : DeclareProofOfSpace(d, q)
         \/ DeclareFails(d)
         \/ \E gen \in BOOLEAN : BuildCandidate(d, gen)
    \/ \E m \in toFarmer : FarmerSigns(m) \/ LoseRequest(m)
    \/ \E s \in Signers :
         \/ \E m \in toNode : SignedValues(s, m)
         \/ \E ok \in BOOLEAN : Propagated(s, ok)

BSpec == BInit /\ [][BNext]_bvars

-----------------------------------------------------------------------------
(* PROPERTIES                                                              *)

====
