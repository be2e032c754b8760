--------------------------- MODULE UnfinishedFetch ---------------------------
(***************************************************************************)
(* Single-flight fetching of unfinished blocks                             *)
(* (src/tad/full_node/full_node_api.py: FullNodeAPI.new_unfinished_block,  *)
(* its eventually_clear task, respond_unfinished_block).                   *)
(*                                                                         *)
(* An announcement of a block the node neither has nor is requesting adds *)
(* the hash to requesting_unfinished_blocks, answers the peer with a      *)
(* RequestUnfinishedBlock and spawns eventually_clear, which after 5 s    *)
(* removes the hash if it is still there.  The peer's answer may come     *)
(* late or never; FullNode.respond_unfinished_block (not under src/)      *)
(* validates and stores it, or rejects it.                                 *)
(***************************************************************************)
EXTENDS Naturals

CONSTANTS
    Blocks,     \* unfinished reward hashes
    MaxTimers   \* bound on eventually_clear tasks per hash (model bound)

VARIABLES
    requesting,  \* full_node_store.requesting_unfinished_blocks
    stored,      \* the unfinished blocks get_unfinished_block finds
    timers,      \* Blocks -> eventually_clear tasks still sleeping for the hash
    asked        \* RequestUnfinishedBlock sent, answer not yet in

uvars == <<requesting, stored, timers, asked>>

UInit ==
    /\ requesting = {}
    /\ stored = {}
    /\ timers = [b \in Blocks |-> 0]
    /\ asked = {}

\* fault variant: eventually_clear is not scheduled
NewUnfinishedBlockNoTimer(b) ==
    /\ b \notin stored
    /\ b \notin requesting
    /\ requesting' = requesting \cup {b}
    /\ asked' = asked \cup {b}
    /\ UNCHANGED <<stored, timers>>

(* A peer announces b: dropped if stored or being requested; otherwise   *)
(* marked, requested, and an eventually_clear task created.               *)
NewUnfinishedBlock(b) ==
    /\ b \notin stored
    /\ b \notin requesting
    /\ timers[b] < MaxTimers
    /\ requesting' = requesting \cup {b}
    /\ timers' = [timers EXCEPT ![b] = @ + 1]
    /\ asked' = asked \cup {b}
    /\ UNCHANGED stored

(* An eventually_clear task wakes after its 5 s sleep and removes the    *)
(* hash if it is still marked.                                            *)
EventuallyClear(b) ==
    /\ timers[b] > 0
    /\ timers' = [timers EXCEPT ![b] = @ - 1]
    /\ requesting' = requesting \ {b}
    /\ UNCHANGED <<stored, asked>>

(* The peer's RespondUnfinishedBlock is handled: the block is stored if   *)
(* it validates.  Or the answer never comes.                              *)
RespondUnfinishedBlock(b) ==
    /\ b \in asked
    /\ asked' = asked \ {b}
    /\ \E valid \in BOOLEAN : stored' = IF valid THEN stored \cup {b} ELSE stored
    /\ UNCHANGED <<requesting, timers>>

LoseUnfinishedAnswer(b) ==
    /\ b \in asked
    /\ asked' = asked \ {b}
    /\ UNCHANGED <<requesting, stored, timers>>

UNext ==
    \E b \in Blocks :
        \/ NewUnfinishedBlock(b)
        \/ EventuallyClear(b)
        \/ RespondUnfinishedBlock(b)
        \/ LoseUnfinishedAnswer(b)

(* asyncio.sleep(5) returns and the loop runs the task. *)
UFairness == \A b \in Blocks : WF_uvars(EventuallyClear(b))

USpec == UInit /\ [][UNext]_uvars /\ UFairness

-----------------------------------------------------------------------------
(* PROPERTIES                                                              *)

(* Single flight for unfinished blocks (spec section 5): while a hash is  *)
(* marked, exactly one eventually_clear task for it is pending, so no     *)
(* second request goes out within the window and no earlier task can     *)
(* remove the mark of a later request.                                    *)
OneClearPerMark ==
    \A b \in Blocks : timers[b] = IF b \in requesting THEN 1 ELSE 0

(* The mark is time-boxed (spec section 3): a marked hash is eventually   *)
(* unmarked, so other peers' announcements can fetch it again.            *)
MarkExpires == \A b \in Blocks : b \in requesting ~> b \notin requesting

====
