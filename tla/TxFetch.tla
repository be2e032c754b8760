------------------------------ MODULE TxFetch ------------------------------
(***************************************************************************)
(* Transaction gossip in the full node (src/tad/full_node/full_node_api.py)*)
(*                                                                         *)
(*  - new_transaction: a peer advertises a transaction id.  If no fetch is *)
(*    pending the node records the peer in pending_tx_request, starts a    *)
(*    peers_with_tx set and spawns the background task                     *)
(*    tx_request_and_timeout; otherwise the peer joins the fan-out set.    *)
(*  - tx_request_and_timeout: up to MaxRounds rounds, each popping one     *)
(*    peer, sending RequestTransaction if it is still connected and        *)
(*    sleeping; it stops early once the mempool has seen the transaction.  *)
(*    Its finally block removes both markers for the id.                   *)
(*  - respond_transaction: the full transaction arrives; both markers are  *)
(*    popped before the (awaiting) mempool admission.                      *)
(*                                                                         *)
(* The event loop is cooperative: every action below is the code between   *)
(* two suspension points (an await) of one coroutine, so it is atomic.     *)
(*                                                                         *)
(* Data abstraction: peers_with_tx is a function to sets where {} stands   *)
(* for "no entry" -- the code treats a missing entry and an empty set      *)
(* alike (both end the task loop, both make new_transaction start the set  *)
(* with the sender).  Fee, cost and sync-mode checks that only drop the    *)
(* message change no state and are left out.                               *)
(***************************************************************************)
EXTENDS Naturals, FiniteSets

CONSTANTS
    Peers,      \* peer node ids
    TxIds,      \* advertised transaction ids
    TaskIds,    \* task ids (token_bytes()) of tx_fetch_tasks; bounds the tasks ever spawned
    MaxRounds,  \* "if counter == 10: break": the code's literal is 10; a task sends at most MaxRounds requests
    NoPeer      \* no entry in pending_tx_request

ASSUME MaxRounds \in Nat \ {0}
ASSUME NoPeer \notin Peers

VARIABLES
    seen,              \* ids mempool_manager.seen() answers True for
    pendingTxRequest,  \* full_node_store.pending_tx_request : TxIds -> Peers \cup {NoPeer}
    peersWithTx,       \* full_node_store.peers_with_tx     : TxIds -> SUBSET Peers
    connections,       \* server.all_connections
    task               \* tx_fetch_tasks: TaskIds -> [tx, pc, counter]

vars == <<seen, pendingTxRequest, peersWithTx, connections, task>>

(* pc of a task: "unused" (never spawned), "created" (spawned by          *)
(* asyncio.create_task, not yet run), "sleeping" (in asyncio.sleep(5)     *)
(* after a RequestTransaction), "done" (finally block has run).           *)
TaskPc == {"unused", "created", "sleeping", "done"}

Alive(t) == task[t].pc \in {"created", "sleeping"}

AliveFor(tx) == {t \in TaskIds : Alive(t) /\ task[t].tx = tx}

(* A task sends a request only while counter < MaxRounds and stores the  *)
(* counter of its last request, so a stored counter is below MaxRounds.   *)
TypeOK ==
    /\ seen \subseteq TxIds
    /\ pendingTxRequest \in [TxIds -> Peers \cup {NoPeer}]
    /\ peersWithTx \in [TxIds -> SUBSET Peers]
    /\ connections \subseteq Peers
    /\ task \in [TaskIds -> [tx : TxIds, pc : TaskPc, counter : 0..(MaxRounds - 1)]]

Init ==
    /\ seen = {}
    /\ pendingTxRequest = [x \in TxIds |-> NoPeer]
    /\ peersWithTx = [x \in TxIds |-> {}]
    /\ connections = Peers
    /\ task = [t \in TaskIds |-> [tx |-> CHOOSE x \in TxIds : TRUE, pc |-> "unused", counter |-> 0]]

-----------------------------------------------------------------------------
(* Fault variants: each is a plausible slip in the code below, kept next   *)
(* to the definition it replaces so a run can show the properties notice.  *)

\* finally block forgets to drop the peers_with_tx entry
CleanupKeepsPeers(t) ==
    LET x == task[t].tx IN
    /\ pendingTxRequest' = [pendingTxRequest EXCEPT ![x] = NoPeer]
    /\ task' = [task EXCEPT ![t].pc = "done"]
    /\ UNCHANGED peersWithTx

-----------------------------------------------------------------------------
(* The finally block of tx_request_and_timeout: pop the peers_with_tx and *)
(* pending_tx_request entries of the id and the task from tx_fetch_tasks. *)
Cleanup(t) ==
    LET x == task[t].tx IN
    /\ pendingTxRequest' = [pendingTxRequest EXCEPT ![x] = NoPeer]
    /\ peersWithTx' = [peersWithTx EXCEPT ![x] = {}]
    /\ task' = [task EXCEPT ![t].pc = "done"]

\* off-by-one in the round limit: "if counter > 10" instead of "== 10"
LoopHeadOffByOne(t, c) ==
    LET x == task[t].tx
        S == peersWithTx[x]
    IN
    \/ /\ c > MaxRounds \/ S \subseteq Peers \ connections
       /\ Cleanup(t)
    \/ /\ c <= MaxRounds
       /\ \E p \in S \cap connections, d \in SUBSET (S \ connections) :
            /\ peersWithTx' = [peersWithTx EXCEPT ![x] = S \ (d \cup {p})]
            /\ task' = [task EXCEPT ![t].pc = "sleeping", ![t].counter = c]
            /\ UNCHANGED pendingTxRequest

(* The loop of tx_request_and_timeout from its head, with counter c, to   *)
(* the next suspension or to the loop exit.  Peers popped from the set    *)
(* that are no longer connected are skipped with "continue", which does   *)
(* not yield: d is the set of such peers set.pop() returned before the    *)
(* connected peer p that is sent RequestTransaction.  The loop exits when *)
(* counter == MaxRounds or when the set runs empty (or has no entry).     *)
LoopHead(t, c) ==
    LET x == task[t].tx
        S == peersWithTx[x]
    IN
    \/ /\ c = MaxRounds \/ S \subseteq Peers \ connections
       /\ Cleanup(t)
    \/ /\ c < MaxRounds
       /\ \E p \in S \cap connections, d \in SUBSET (S \ connections) :
            /\ peersWithTx' = [peersWithTx EXCEPT ![x] = S \ (d \cup {p})]
            /\ task' = [task EXCEPT ![t].pc = "sleeping", ![t].counter = c]
            /\ UNCHANGED pendingTxRequest

\* the counter is never advanced after a round
TaskWakeNoCount(t) ==
    /\ task[t].pc = "sleeping"
    /\ IF task[t].tx \in seen
         THEN Cleanup(t)
         ELSE LoopHead(t, task[t].counter)
    /\ UNCHANGED <<seen, connections>>

-----------------------------------------------------------------------------
(* The spawned task runs for the first time.                               *)
TaskStart(t) ==
    /\ task[t].pc = "created"
    /\ LoopHead(t, 0)
    /\ UNCHANGED <<seen, connections>>

(* asyncio.sleep(5) returns: counter += 1, stop if the mempool has seen   *)
(* the id, otherwise go round the loop again.                             *)
TaskWake(t) ==
    /\ task[t].pc = "sleeping"
    /\ IF task[t].tx \in seen
         THEN Cleanup(t)
         ELSE LoopHead(t, task[t].counter + 1)
    /\ UNCHANGED <<seen, connections>>

(* new_transaction when a fetch is pending: add the peer to the fan-out   *)
(* set (a peer already in it returns without a change).                   *)
NewTransactionJoin(p, x) ==
    /\ p \in connections
    /\ x \notin seen
    /\ pendingTxRequest[x] # NoPeer
    /\ p \notin peersWithTx[x]
    /\ peersWithTx' = [peersWithTx EXCEPT ![x] = @ \cup {p}]
    /\ UNCHANGED <<seen, pendingTxRequest, connections, task>>

(* new_transaction when no fetch is pending: record the peer, start the   *)
(* fan-out set with it and spawn tx_request_and_timeout.                  *)
NewTransactionStart(p, x) ==
    /\ p \in connections
    /\ x \notin seen
    /\ pendingTxRequest[x] = NoPeer
    /\ \E t \in TaskIds :
         /\ task[t].pc = "unused"
         /\ task' = [task EXCEPT ![t] = [tx |-> x, pc |-> "created", counter |-> 0]]
    /\ pendingTxRequest' = [pendingTxRequest EXCEPT ![x] = p]
    /\ peersWithTx' = [peersWithTx EXCEPT ![x] = {p}]
    /\ UNCHANGED <<seen, connections>>

(* respond_transaction: pop both markers of the id, then hand the bundle  *)
(* to full_node.respond_transaction (an await; its effect on the mempool  *)
(* is MempoolSeen below).  The message may be unsolicited.                *)
RespondTransaction(p, x) ==
    /\ p \in connections
    /\ pendingTxRequest' = [pendingTxRequest EXCEPT ![x] = NoPeer]
    /\ peersWithTx' = [peersWithTx EXCEPT ![x] = {}]
    /\ UNCHANGED <<seen, connections, task>>

(* The mempool admits the transaction (from a peer's respond_transaction, *)
(* a wallet's send_transaction or any other source).                      *)
MempoolSeen(x) ==
    /\ x \notin seen
    /\ seen' = seen \cup {x}
    /\ UNCHANGED <<pendingTxRequest, peersWithTx, connections, task>>

Disconnect(p) ==
    /\ p \in connections
    /\ connections' = connections \ {p}
    /\ UNCHANGED <<seen, pendingTxRequest, peersWithTx, task>>

Connect(p) ==
    /\ p \notin connections
    /\ connections' = connections \cup {p}
    /\ UNCHANGED <<seen, pendingTxRequest, peersWithTx, task>>

Next ==
    \/ \E t \in TaskIds : TaskStart(t) \/ TaskWake(t)
    \/ \E p \in Peers, x \in TxIds :
         \/ NewTransactionJoin(p, x)
         \/ NewTransactionStart(p, x)
         \/ RespondTransaction(p, x)
    \/ \E x \in TxIds : MempoolSeen(x)
    \/ \E p \in Peers : Disconnect(p) \/ Connect(p)

(* The asyncio loop runs every ready task and every sleep ends: each      *)
(* spawned task keeps getting scheduled.  Peers and the mempool get no    *)
(* fairness: they may stay silent forever.                                *)
Fairness == \A t \in TaskIds : WF_vars(TaskStart(t)) /\ WF_vars(TaskWake(t))

Spec == Init /\ [][Next]_vars /\ Fairness

-----------------------------------------------------------------------------
(* PROPERTIES                                                              *)

(* No residue: a pending_tx_request or peers_with_tx entry for an id only *)
(* exists while some fetch task for that id is still alive, i.e. every    *)
(* exit of tx_request_and_timeout (round limit, empty set, seen) leaves   *)
(* no marker behind.                                                      *)
NoOrphanMarker ==
    \A x \in TxIds :
        (pendingTxRequest[x] # NoPeer \/ peersWithTx[x] # {}) => AliveFor(x) # {}

(* Single flight (spec section 8): for every transaction id at most one   *)
(* tx_request_and_timeout task is in flight.                              *)
AtMostOneFetchPerTx ==
    \A x \in TxIds : Cardinality(AliveFor(x)) <= 1

(* Every spawned fetch task eventually runs its finally block: the round  *)
(* counter bounds the task even while peers keep re-advertising the id.   *)
TaskTerminates ==
    \A t \in TaskIds : Alive(t) ~> task[t].pc = "done"

=============================================================================
