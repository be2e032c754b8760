------------------------------ MODULE PoolState ------------------------------
(***************************************************************************)
(* The farmer's per-pool state machine (src/tad/farmer/farmer.py:          *)
(* update_pool_state, the _pool_* HTTP helpers, handle_failed_pool_response,*)
(* set_payout_instructions, _periodically_update_pool_state_task).         *)
(*                                                                         *)
(* The loop task calls update_pool_state at least every minute and after   *)
(* every config change.  A call reads the pool list from config.yaml and   *)
(* walks it pool by pool: it creates the pool's state on first sight,     *)
(* skips self-pooling entries, refreshes GET /pool_info when               *)
(* next_pool_info_update has passed, and when next_farmer_update has       *)
(* passed runs GET /farmer, registers an unknown farmer with POST /farmer  *)
(* and GET /farmer again, and corrects the payout instructions with        *)
(* PUT /farmer.  Every HTTP call is an await; the RPC                      *)
(* set_payout_instructions can run at each of them.                        *)
(*                                                                         *)
(* Time is abstracted to the two timers of each pool being due or not     *)
(* (time.time() >= next_*_update), and the error log to whether it holds   *)
(* entries younger and older than 24 hours.  The pool server is its        *)
(* registration and payout instructions.  While it is up it answers by   *)
(* its state (FARMER_NOT_KNOWN to GET /farmer for an unknown farmer, "ok" *)
(* otherwise); while it is down a request fails (HTTP error or exception) *)
(* or gets another "error_code" body.                                     *)
(***************************************************************************)
EXTENDS Naturals, FiniteSets

CONSTANTS
    Pools,        \* the pool_list entries, named by p2_singleton_puzzle_hash
    SelfPooled,   \* entries with pool_url "" (or not https on mainnet): skipped
    Payouts,      \* payout instruction values
    NoPayout      \* the None in the payload's last field

ASSUME SelfPooled \subseteq Pools /\ NoPayout \notin Payouts

Outcomes == {"ok", "not_known", "error_code", "failed"}

(* "sleep": the loop task between calls; "next": in update_pool_state      *)
(* between two pools (no await pending); the others: awaiting the named    *)
(* request of the current pool.                                           *)
Phases == {"sleep", "next", "pool_info", "get_farmer", "post_farmer",
           "get_farmer_again", "put_farmer"}

VARIABLES
    known,        \* p2_singleton_puzzle_hash in self.pool_state
    infoDue,      \* time.time() >= next_pool_info_update
    farmerDue,    \* time.time() >= next_farmer_update
    auth,         \* authentication_token_timeout is not None
    errRecent,    \* pool_errors_24h holds an entry younger than 24 hours
    errOld,       \* pool_errors_24h holds an entry older than 24 hours
    cfgPayout,    \* payout_instructions of the pool_list entry in config.yaml
    up,           \* the pool server is reachable and healthy
    registered,   \* the pool server knows the farmer
    serverPayout, \* the payout instructions the pool server holds
    lpc,          \* Phases
    todo,         \* pools of the current call not yet visited
    cur,          \* the pool being updated
    snap          \* the pool configs loaded at the start of the call

vars == <<known, infoDue, farmerDue, auth, errRecent, errOld, cfgPayout,
          up, registered, serverPayout, lpc, todo, cur, snap>>

poolVars == <<up, registered, serverPayout>>

TypeOK ==
    /\ known \in [Pools -> BOOLEAN]
    /\ infoDue \in [Pools -> BOOLEAN]
    /\ farmerDue \in [Pools -> BOOLEAN]
    /\ auth \in [Pools -> BOOLEAN]
    /\ errRecent \in [Pools -> BOOLEAN]
    /\ errOld \in [Pools -> BOOLEAN]
    /\ cfgPayout \in [Pools -> Payouts]
    /\ up \in [Pools -> BOOLEAN]
    /\ registered \in [Pools -> BOOLEAN]
    /\ serverPayout \in [Pools -> Payouts]
    /\ lpc \in Phases
    /\ todo \subseteq Pools
    /\ cur \in Pools
    /\ snap \in [Pools -> Payouts]

Init ==
    /\ known = [p \in Pools |-> FALSE]
    /\ infoDue = [p \in Pools |-> TRUE]
    /\ farmerDue = [p \in Pools |-> TRUE]
    /\ auth = [p \in Pools |-> FALSE]
    /\ errRecent = [p \in Pools |-> FALSE]
    /\ errOld = [p \in Pools |-> FALSE]
    /\ cfgPayout \in [Pools -> Payouts]
    /\ up \in [Pools -> BOOLEAN]
    /\ registered \in [Pools -> BOOLEAN]
    /\ serverPayout \in [Pools -> Payouts]
    /\ lpc = "sleep"
    /\ todo = {}
    /\ cur = CHOOSE p \in Pools : TRUE
    /\ snap = cfgPayout

-----------------------------------------------------------------------------
(* The answers the pool server can give to the awaited request.           *)
Answers(p) ==
    IF up[p]
      THEN IF lpc \in {"get_farmer", "get_farmer_again"} /\ ~registered[p]
             THEN {"not_known"} ELSE {"ok"}
      ELSE {"error_code", "failed"}

(* handle_failed_pool_response, and the append of an "error_code" body:   *)
(* one more entry in the pool's pool_errors_24h.                          *)
LogError(p) == errRecent' = [errRecent EXCEPT ![p] = TRUE]

(* The farmer-update part of a pool after GET /pool_info: with            *)
(* next_farmer_update passed and a token timeout known, GET /farmer is     *)
(* awaited; without the timeout a warning is logged and the loop goes on  *)
(* with the next pool.                                                    *)
FarmerUpdateFrom(p, a, fd) ==
    IF fd /\ a THEN lpc' = "get_farmer" ELSE lpc' = "next"

(* The loop of update_pool_state moves to the next pool of the list.  The *)
(* state is created on first sight with both timers at 0; self-pooling    *)
(* entries are skipped; otherwise GET /pool_info is awaited if due, else  *)
(* the farmer update starts.                                              *)
NextPool ==
    /\ lpc = "next"
    /\ \/ /\ todo = {}
          /\ lpc' = "sleep"
          /\ UNCHANGED <<known, infoDue, farmerDue, todo, cur>>
       \/ \E p \in todo :
            LET fresh == ~known[p]
                id == infoDue[p] \/ fresh
                fd == farmerDue[p] \/ fresh
            IN
            /\ todo' = todo \ {p}
            /\ cur' = p
            /\ known' = [known EXCEPT ![p] = TRUE]
            /\ infoDue' = [infoDue EXCEPT ![p] = id]
            /\ farmerDue' = [farmerDue EXCEPT ![p] = fd]
            /\ IF p \in SelfPooled THEN lpc' = "next"
               ELSE IF id THEN lpc' = "pool_info"
               ELSE FarmerUpdateFrom(p, auth[p], fd)
    /\ UNCHANGED <<auth, errRecent, errOld, cfgPayout, poolVars, snap>>

(* GET /pool_info returns.  A good answer sets the token timeout and      *)
(* moves next_pool_info_update an hour ahead; an "error_code" body is     *)
(* ignored; a failure is logged.                                          *)
GetPoolInfo(o) ==
    /\ lpc = "pool_info"
    /\ LET p == cur IN
       /\ auth' = [auth EXCEPT ![p] = auth[p] \/ o = "ok"]
       /\ infoDue' = [infoDue EXCEPT ![p] = o # "ok"]
       /\ IF o = "failed" THEN LogError(p) ELSE UNCHANGED errRecent
       /\ FarmerUpdateFrom(p, auth'[p], farmerDue[p])
    /\ UNCHANGED <<known, farmerDue, errOld, cfgPayout, poolVars, todo, cur, snap>>

\* fault variant: a PUT is sent when the instructions agree instead of when they differ
PayoutDiffersInverted(a, b) == a = b

(* The comparison of update_pool_state: the config's payout instructions  *)
(* differ (case-insensitively) from the pool's.                           *)
PayoutDiffers(a, b) == a # b

(* update_pool_farmer_info returns, from the first GET /farmer or the one *)
(* after a POST.  A good answer moves next_farmer_update 5 minutes ahead  *)
(* and, if the pool's payout instructions differ from those of the       *)
(* config loaded at the start of the call, a PUT /farmer is awaited.  An  *)
(* "error_code" body is logged; FARMER_NOT_KNOWN after the first GET      *)
(* leads to a POST /farmer.  A failure is logged.                         *)
GetFarmer(o) ==
    /\ lpc \in {"get_farmer", "get_farmer_again"}
    /\ LET p == cur IN
       /\ farmerDue' = [farmerDue EXCEPT ![p] = farmerDue[p] /\ o # "ok"]
       /\ IF o = "ok" THEN UNCHANGED errRecent ELSE LogError(p)
       /\ lpc' = CASE o = "ok" /\ PayoutDiffers(snap[p], serverPayout[p]) -> "put_farmer"
                   [] o = "not_known" /\ lpc = "get_farmer" -> "post_farmer"
                   [] OTHER -> "next"
    /\ UNCHANGED <<known, infoDue, auth, errOld, cfgPayout, poolVars, todo, cur, snap>>

\* fault variant: the payload's last two fields are swapped
PostFarmerSwapped(o) ==
    /\ lpc = "post_farmer"
    /\ LET p == cur IN
       /\ IF o = "ok"
            THEN /\ registered' = [registered EXCEPT ![p] = TRUE]
                 /\ serverPayout' = [serverPayout EXCEPT ![p] = NoPayout]
                 /\ lpc' = "get_farmer_again"
                 /\ UNCHANGED errRecent
            ELSE /\ LogError(p)
                 /\ lpc' = "next"
                 /\ UNCHANGED poolVars
    /\ UNCHANGED <<known, infoDue, farmerDue, auth, errOld, cfgPayout, up, todo, cur, snap>>

(* POST /farmer returns.  A good answer means the pool registered the     *)
(* farmer with the config's payout instructions; GET /farmer is awaited   *)
(* again.  Otherwise the error is logged and the loop goes on.            *)
PostFarmer(o) ==
    /\ lpc = "post_farmer"
    /\ LET p == cur IN
       /\ IF o = "ok"
            THEN /\ registered' = [registered EXCEPT ![p] = TRUE]
                 /\ serverPayout' = [serverPayout EXCEPT ![p] = snap[p]]
                 /\ lpc' = "get_farmer_again"
                 /\ UNCHANGED errRecent
            ELSE /\ LogError(p)
                 /\ lpc' = "next"
                 /\ UNCHANGED poolVars
    /\ UNCHANGED <<known, infoDue, farmerDue, auth, errOld, cfgPayout, up, todo, cur, snap>>

(* PUT /farmer returns.  A good answer means the pool took the config's   *)
(* payout instructions; otherwise the error is logged.  A missing         *)
(* "payout_instructions" in the answer is caught and logged only.         *)
PutFarmer(o) ==
    /\ lpc = "put_farmer"
    /\ LET p == cur IN
       /\ IF o = "ok"
            THEN /\ serverPayout' = [serverPayout EXCEPT ![p] = snap[p]]
                 /\ UNCHANGED errRecent
            ELSE /\ LogError(p)
                 /\ UNCHANGED serverPayout
    /\ lpc' = "next"
    /\ UNCHANGED <<known, infoDue, farmerDue, auth, errOld, cfgPayout, up, registered,
                   todo, cur, snap>>

(* _periodically_update_pool_state_task: a call of update_pool_state,     *)
(* which loads the pool list from config.yaml.                            *)
StartUpdate ==
    /\ lpc = "sleep"
    /\ lpc' = "next"
    /\ todo' = Pools
    /\ snap' = cfgPayout
    /\ UNCHANGED <<known, infoDue, farmerDue, auth, errRecent, errOld, cfgPayout,
                   poolVars, cur>>

(* The RPC set_payout_instructions: for a pool in self.pool_state, write  *)
(* the instructions to config.yaml and set next_farmer_update to 0.  It   *)
(* runs between two awaits of the loop task.                              *)
SetPayoutInstructions(p, x) ==
    /\ lpc # "next"
    /\ known[p]
    /\ cfgPayout' = [cfgPayout EXCEPT ![p] = x]
    /\ farmerDue' = [farmerDue EXCEPT ![p] = TRUE]
    /\ UNCHANGED <<known, infoDue, auth, errRecent, errOld, poolVars, lpc, todo, cur, snap>>

(* Time passes: an hour since the last good GET /pool_info, 5 minutes     *)
(* since the last good GET /farmer, 24 hours since the recent errors.      *)
InfoTimerExpires(p) ==
    /\ known[p] /\ ~infoDue[p]
    /\ infoDue' = [infoDue EXCEPT ![p] = TRUE]
    /\ UNCHANGED <<known, farmerDue, auth, errRecent, errOld, cfgPayout, poolVars,
                   lpc, todo, cur, snap>>

FarmerTimerExpires(p) ==
    /\ known[p] /\ ~farmerDue[p]
    /\ farmerDue' = [farmerDue EXCEPT ![p] = TRUE]
    /\ UNCHANGED <<known, infoDue, auth, errRecent, errOld, cfgPayout, poolVars,
                   lpc, todo, cur, snap>>

DayPasses(p) ==
    /\ errRecent[p]
    /\ errRecent' = [errRecent EXCEPT ![p] = FALSE]
    /\ errOld' = [errOld EXCEPT ![p] = TRUE]
    /\ UNCHANGED <<known, infoDue, farmerDue, auth, cfgPayout, poolVars, lpc, todo, cur, snap>>

(* The pool server goes down or comes back.                               *)
SetUp(p, u) ==
    /\ up[p] # u
    /\ up' = [up EXCEPT ![p] = u]
    /\ UNCHANGED <<known, infoDue, farmerDue, auth, errRecent, errOld, cfgPayout,
                   registered, serverPayout, lpc, todo, cur, snap>>

(* The awaited request of the current pool returns with an answer the     *)
(* pool server can give.                                                  *)
Request(o) ==
    /\ o \in Answers(cur)
    /\ GetPoolInfo(o) \/ GetFarmer(o) \/ PostFarmer(o) \/ PutFarmer(o)

Next ==
    \/ StartUpdate
    \/ NextPool
    \/ \E o \in Outcomes : Request(o)
    \/ \E p \in Pools :
         \/ \E x \in Payouts : SetPayoutInstructions(p, x)
         \/ InfoTimerExpires(p) \/ FarmerTimerExpires(p) \/ DayPasses(p)
         \/ \E u \in BOOLEAN : SetUp(p, u)

(* The loop task runs every second and every request returns (aiohttp's   *)
(* timeout); time passes.  The pool servers get no fairness.              *)
Fairness ==
    /\ WF_vars(StartUpdate) /\ WF_vars(NextPool)
    /\ WF_vars(\E o \in Outcomes : Request(o))
    /\ \A p \in Pools \ SelfPooled :
         WF_vars(InfoTimerExpires(p)) /\ WF_vars(FarmerTimerExpires(p))

Spec == Init /\ [][Next]_vars /\ Fairness

-----------------------------------------------------------------------------
(* PROPERTIES                                                              *)

(* Payout instructions reach the pool (set_payout_instructions' comment:  *)
(* "force a GET /farmer which triggers the PUT /farmer"): whatever the    *)
(* interleaving of the RPC with the loop's requests and failures, once    *)
(* the config holds instructions x for a pool whose server ends up        *)
(* staying up, the pool eventually has the farmer registered with x,      *)
(* unless the config changes again.                                       *)
PayoutEventuallyMatches ==
    \A p \in Pools \ SelfPooled, x \in Payouts :
        <>[]up[p] =>
            (cfgPayout[p] = x ~> ((registered[p] /\ serverPayout[p] = x) \/ cfgPayout[p] # x))

====
