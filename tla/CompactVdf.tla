----------------------------- MODULE CompactVdf -----------------------------
(***************************************************************************)
(* Admission of NewCompactVDF messages in the full node                    *)
(* (FullNodeAPI.new_compact_vdf, src/tad/full_node/full_node_api.py).      *)
(*                                                                         *)
(* Each message is handled by its own task (@execute_task).  A handler     *)
(*   1. drops the message if more than MaxWaiters futures sit in           *)
(*      compact_vdf_sem._waiters,                                          *)
(*   2. drops it if its content hash is in compact_vdf_requests, else      *)
(*      adds the hash,                                                     *)
(*   3. enters "async with compact_vdf_sem", runs the expensive            *)
(*      full_node.new_compact_vdf and removes the hash in a finally block  *)
(*      inside the semaphore.                                              *)
(*                                                                         *)
(* The semaphore is asyncio.Semaphore as shipped with Python 3.8/3.9, the  *)
(* versions the code reads _waiters of: acquire() takes a free permit      *)
(* without yielding, otherwise appends a future to the _waiters deque and  *)
(* awaits it; release() adds a permit and sets the result of the first     *)
(* future in the deque that is not done (popping it and the done ones      *)
(* before it).  A woken task re-checks the permit count when it runs and,  *)
(* if a newcomer took the permit meanwhile, appends a new future.  A task  *)
(* cancelled while waiting cancels its future, which stays in the deque    *)
(* until a release pops it.                                                *)
(***************************************************************************)
EXTENDS Naturals, Sequences, FiniteSets, SequencesExt

CONSTANTS
    Handlers,    \* the tasks running new_compact_vdf, one per received message
    Names,       \* std_hash(request_bytes) of the messages
    SemLimit,    \* the permits of full_node.compact_vdf_sem
    MaxWaiters   \* "len(compact_vdf_sem._waiters) > 20": the code's literal is 20

ASSUME SemLimit \in Nat \ {0}
ASSUME MaxWaiters \in Nat

VARIABLES
    pc,        \* Handlers -> phase of the handler task
    name,      \* Handlers -> the content hash the handler registered
    requests,  \* full_node.compact_vdf_requests
    value,     \* compact_vdf_sem._value
    waiters    \* compact_vdf_sem._waiters: the futures, named by their task

vars == <<pc, name, requests, value, waiters>>

(* "idle": message not yet handled; "queued": awaiting its future in the  *)
(* deque; "woken": its future has a result, the task is ready to run;     *)
(* "running": holds a permit and is in full_node.new_compact_vdf;         *)
(* "done": dropped, finished or cancelled.                                *)
Phase == {"idle", "queued", "woken", "running", "done"}

InPhase(s) == {h \in Handlers : pc[h] = s}

(* A handler task slot takes the next message once its previous task has  *)
(* ended and that task's future has left the deque.                       *)
Free(h) == pc[h] \in {"idle", "done"} /\ h \notin Range(waiters)

(* Handlers that hold their hash in compact_vdf_requests legitimately.    *)
Admitted == InPhase("queued") \cup InPhase("woken") \cup InPhase("running")

TypeOK ==
    /\ pc \in [Handlers -> Phase]
    /\ name \in [Handlers -> Names]
    /\ requests \subseteq Names
    /\ value \in 0..SemLimit
    /\ waiters \in Seq(Handlers)

Init ==
    /\ pc = [h \in Handlers |-> "idle"]
    /\ name = [h \in Handlers |-> CHOOSE n \in Names : TRUE]
    /\ requests = {}
    /\ value = SemLimit
    /\ waiters = <<>>

-----------------------------------------------------------------------------
(* Fault variants: plausible slips, each kept before the definition it    *)
(* replaces.                                                              *)

\* release wakes the head of the deque even if its future was cancelled
WakeUpNextNoSkip(w, p) ==
    IF w = <<>>
      THEN [pc |-> p, waiters |-> w]
      ELSE [pc |-> IF p[Head(w)] = "queued" THEN [p EXCEPT ![Head(w)] = "woken"] ELSE p,
            waiters |-> Tail(w)]

-----------------------------------------------------------------------------
(* Semaphore._wake_up_next as called by release(): pop futures from the   *)
(* left until one that is not done, and set its result.  Gives the new    *)
(* pc and deque.                                                          *)
WakeUpNext(w, p) ==
    LET i == SelectInSeq(w, LAMBDA h : p[h] = "queued") IN
    IF i = 0
      THEN [pc |-> p, waiters |-> <<>>]
      ELSE [pc |-> [p EXCEPT ![w[i]] = "woken"], waiters |-> SubSeq(w, i + 1, Len(w))]

\* the hash is not checked against compact_vdf_requests
ArriveNoDedup(h, n) ==
    /\ Free(h)
    /\ \/ /\ Len(waiters) > MaxWaiters
          /\ pc' = [pc EXCEPT ![h] = "done"]
          /\ UNCHANGED <<name, requests, value, waiters>>
       \/ /\ Len(waiters) <= MaxWaiters
          /\ requests' = requests \cup {n}
          /\ name' = [name EXCEPT ![h] = n]
          /\ IF value > 0
               THEN /\ value' = value - 1
                    /\ pc' = [pc EXCEPT ![h] = "running"]
                    /\ UNCHANGED waiters
               ELSE /\ waiters' = Append(waiters, h)
                    /\ pc' = [pc EXCEPT ![h] = "queued"]
                    /\ UNCHANGED value

(* new_compact_vdf from its start to the first suspension: the waiter     *)
(* cap, the dedup check and insertion, then the acquire, which takes a    *)
(* free permit without yielding or queues a future.                       *)
Arrive(h, n) ==
    /\ Free(h)
    /\ \/ /\ Len(waiters) > MaxWaiters
          /\ pc' = [pc EXCEPT ![h] = "done"]
          /\ UNCHANGED <<name, requests, value, waiters>>
       \/ /\ Len(waiters) <= MaxWaiters
          /\ n \in requests
          /\ pc' = [pc EXCEPT ![h] = "done"]
          /\ UNCHANGED <<name, requests, value, waiters>>
       \/ /\ Len(waiters) <= MaxWaiters
          /\ n \notin requests
          /\ requests' = requests \cup {n}
          /\ name' = [name EXCEPT ![h] = n]
          /\ IF value > 0
               THEN /\ value' = value - 1
                    /\ pc' = [pc EXCEPT ![h] = "running"]
                    /\ UNCHANGED waiters
               ELSE /\ waiters' = Append(waiters, h)
                    /\ pc' = [pc EXCEPT ![h] = "queued"]
                    /\ UNCHANGED value

\* a woken task takes the permit without decrementing the count
WakeNoDecrement(h) ==
    /\ pc[h] = "woken"
    /\ IF value > 0
         THEN /\ pc' = [pc EXCEPT ![h] = "running"]
              /\ UNCHANGED <<value, waiters>>
         ELSE /\ waiters' = Append(waiters, h)
              /\ pc' = [pc EXCEPT ![h] = "queued"]
              /\ UNCHANGED value
    /\ UNCHANGED <<name, requests>>

(* A woken task resumes in acquire(): "while self._value <= 0" takes the  *)
(* permit, or appends a fresh future if a newcomer took it first.         *)
Wake(h) ==
    /\ pc[h] = "woken"
    /\ IF value > 0
         THEN /\ value' = value - 1
              /\ pc' = [pc EXCEPT ![h] = "running"]
              /\ UNCHANGED waiters
         ELSE /\ waiters' = Append(waiters, h)
              /\ pc' = [pc EXCEPT ![h] = "queued"]
              /\ UNCHANGED value
    /\ UNCHANGED <<name, requests>>

\* the permit is released but no waiter is woken
FinishNoWake(h) ==
    /\ pc[h] = "running"
    /\ requests' = requests \ {name[h]}
    /\ value' = value + 1
    /\ pc' = [pc EXCEPT ![h] = "done"]
    /\ UNCHANGED <<name, waiters>>

(* full_node.new_compact_vdf returns (or raises, or the task is cancelled *)
(* in it): the finally block removes the hash, then "async with" releases *)
(* the semaphore, which wakes the next live waiter.                       *)
Finish(h) ==
    /\ pc[h] = "running"
    /\ LET r == WakeUpNext(waiters, [pc EXCEPT ![h] = "done"]) IN
         /\ pc' = r.pc
         /\ waiters' = r.waiters
    /\ requests' = requests \ {name[h]}
    /\ value' = value + 1
    /\ UNCHANGED name

(* A queued handler is cancelled: acquire() cancels its future (it stays  *)
(* in the deque) and re-raises.  The CancelledError leaves the handler    *)
(* outside the try/finally, so the hash stays in compact_vdf_requests.    *)
CancelQueued(h) ==
    /\ pc[h] = "queued"
    /\ pc' = [pc EXCEPT ![h] = "done"]
    /\ UNCHANGED <<name, requests, value, waiters>>

(* A woken handler is cancelled before it runs: its future already has a  *)
(* result, so acquire() passes the wake-up on if a permit is free.  The   *)
(* hash again stays in compact_vdf_requests.                              *)
CancelWoken(h) ==
    /\ pc[h] = "woken"
    /\ LET p == [pc EXCEPT ![h] = "done"]
           r == WakeUpNext(waiters, p)
       IN IF value > 0
            THEN pc' = r.pc /\ waiters' = r.waiters
            ELSE pc' = p /\ UNCHANGED waiters
    /\ UNCHANGED <<name, requests, value>>

Next ==
    \/ \E h \in Handlers, n \in Names : Arrive(h, n)
    \/ \E h \in Handlers : Wake(h) \/ Finish(h) \/ CancelQueued(h) \/ CancelWoken(h)

(* The event loop runs every ready task and full_node.new_compact_vdf     *)
(* returns; arrivals and cancellations are up to the peers and the node.  *)
Fairness == \A h \in Handlers : WF_vars(Wake(h)) /\ WF_vars(Finish(h))

Spec == Init /\ [][Next]_vars /\ Fairness

-----------------------------------------------------------------------------
(* PROPERTIES                                                              *)

(* No permit is lost or invented across release, wake-up, barging and     *)
(* cancellation: the free permits and the handlers inside                 *)
(* "async with compact_vdf_sem" always add up to the semaphore's limit.   *)
PermitConservation ==
    value + Cardinality(InPhase("running")) = SemLimit

(* No lost wake-up: while a live handler waits on the semaphore, every    *)
(* free permit has a woken task on its way to take it.  A release that    *)
(* wakes a cancelled future, or a cancelled woken task that does not pass *)
(* its wake-up on, leaves a permit idle while handlers wait.              *)
NoIdlePermitWhileWaiting ==
    InPhase("queued") # {} => value <= Cardinality(InPhase("woken"))

(* The dedup set of new_compact_vdf: no two admitted handlers (queued,    *)
(* woken or running) process messages with the same content hash.        *)
OneHandlerPerName ==
    \A h1, h2 \in Admitted : h1 # h2 => name[h1] # name[h2]

(* Progress of the semaphore: while handlers wait on compact_vdf_sem,    *)
(* eventually some handler holds a permit or every waiter has been        *)
(* cancelled, i.e. a release is never lost.                              *)
(* (A single waiter can still be overtaken by newcomers forever: asyncio's *)
(* semaphore lets a newcomer take a just-released permit.)               *)
WaitersMakeProgress ==
    InPhase("queued") # {} ~> (InPhase("running") # {} \/ InPhase("queued") = {})

====
