----------------------------- MODULE MC_FullNode -----------------------------
(***************************************************************************)
(* The full node's request handlers that share no state, checked in one    *)
(* run: the two single-flight fetchers of the gossip handlers (TxFetch and *)
(* UnfinishedFetch, whose steps interleave), the compact-VDF admission     *)
(* gate (CompactVdf) and weight-proof sharing (WeightProof).              *)
(*                                                                         *)
(* Components that share no variable cannot affect each other's            *)
(* properties, so their interleavings add nothing but states.  Init picks  *)
(* the component that runs (mode); the others stay in their initial state, *)
(* in which each of their properties holds and none of their fair actions  *)
(* is enabled.  The state space is the sum of the components' spaces, and  *)
(* every behaviour of each component is a behaviour of this module.        *)
(***************************************************************************)
EXTENDS TLC

CONSTANTS p1, p2, tx1, k1, k2, ub1, NoPeer,
          h1, h2, h3, h4, h5, n1, n2, n3,
          w1, w2, t1, t2, t3

VARIABLES
    mode,
    seen, pendingTxRequest, peersWithTx, connections, task,  \* TxFetch
    requesting, stored, timers, asked,                       \* UnfinishedFetch
    pc, name, requests, value, waiters,                      \* CompactVdf
    pow, handler                                             \* WeightProof

\* TxFetch: two peers, one id, two fetch tasks, rounds cut to 2 (the code's 10)
TF == INSTANCE TxFetch WITH Peers <- {p1, p2}, TxIds <- {tx1}, TaskIds <- {k1, k2}, MaxRounds <- 2

\* UnfinishedFetch: one hash, room for a second eventually_clear task
UF == INSTANCE UnfinishedFetch WITH Blocks <- {ub1}, MaxTimers <- 2

\* CompactVdf: five handlers, three content hashes, one permit, a cap of
\* one waiter (the code's 20): duplicates and distinct messages compete
CV == INSTANCE CompactVdf WITH Handlers <- {h1, h2, h3, h4, h5}, Names <- {n1, n2, n3},
                               SemLimit <- 1, MaxWaiters <- 1

\* WeightProof: two requests over three tips, the dict trimmed by 2 (the
\* code's 4) once it holds more than 2: trimming happens while a creation
\* runs, and a popped event can still be unset
WP == INSTANCE WeightProof WITH Handlers <- {w1, w2}, Tips <- {t1, t2, t3}, EvictCount <- 2

gossipVars == <<seen, pendingTxRequest, peersWithTx, connections, task,
                requesting, stored, timers, asked>>
allVars == <<mode, gossipVars, pc, name, requests, value, waiters,
             pow, handler>>

Init ==
    /\ mode \in {"gossip", "vdf", "wp"}
    /\ TF!Init /\ UF!UInit /\ CV!Init /\ WP!WInit

(* One step of the running component; everything else is unchanged.       *)
Next ==
    /\ UNCHANGED mode
    /\ \/ /\ mode = "gossip"
          /\ \/ TF!Next /\ UNCHANGED <<requesting, stored, timers, asked>>
             \/ UF!UNext /\ UNCHANGED <<seen, pendingTxRequest, peersWithTx, connections, task>>
          /\ UNCHANGED <<pc, name, requests, value, waiters, pow, handler>>
       \/ /\ mode = "vdf"
          /\ CV!Next
          /\ UNCHANGED <<gossipVars, pow, handler>>
       \/ /\ mode = "wp"
          /\ WP!WNext
          /\ UNCHANGED <<gossipVars, pc, name, requests, value, waiters>>

Spec == Init /\ [][Next]_allVars
        /\ TF!Fairness /\ UF!UFairness /\ CV!Fairness /\ WP!WFairness

-----------------------------------------------------------------------------
(* PROPERTIES: those of the components, stated in their modules.          *)

(* The components' type invariants; TxFetch's also bounds the round      *)
(* counter of tx_request_and_timeout, CompactVdf's the semaphore value.   *)
TxTypeOK == TF!TypeOK
VdfTypeOK == CV!TypeOK

(* TxFetch: no pending_tx_request or peers_with_tx entry outlives every   *)
(* fetch task for its id.                                                 *)
NoOrphanMarker == TF!NoOrphanMarker

(* TxFetch: every spawned tx_request_and_timeout task runs its finally.   *)
TaskTerminates == TF!TaskTerminates

(* UnfinishedFetch: while a hash is in requesting_unfinished_blocks,      *)
(* exactly one eventually_clear task for it is pending.                   *)
OneClearPerMark == UF!OneClearPerMark

(* UnfinishedFetch: a requested hash is eventually unmarked.              *)
MarkExpires == UF!MarkExpires

(* CompactVdf: the semaphore's free permits and the handlers inside it    *)
(* add up to its limit.                                                   *)
PermitConservation == CV!PermitConservation

(* CompactVdf: no permit stays idle while a live handler waits.           *)
NoIdlePermitWhileWaiting == CV!NoIdlePermitWhileWaiting

(* CompactVdf: no two admitted new_compact_vdf handlers share a hash.     *)
OneHandlerPerName == CV!OneHandlerPerName

(* CompactVdf: waiters on compact_vdf_sem are eventually served or gone.  *)
WaitersMakeProgress == CV!WaitersMakeProgress

(* WeightProof: a request awaiting another's pow_creation event is        *)
(* eventually answered.                                                   *)
WaitersReleased == WP!WaitersReleased

(* WeightProof: pow_creation holds at most 4 entries besides those of the *)
(* requests in progress.                                                  *)
CacheBounded == WP!CacheBounded

====
