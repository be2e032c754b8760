------------------------------ MODULE MC_Loops ------------------------------
(***************************************************************************)
(* Two request loops that share no state, checked in one run: the full    *)
(* node's backfill of missing sub-slots (SubSlotSync) and the farmer's     *)
(* pool-state loop (PoolState).                                           *)
(*                                                                         *)
(* As in MC_FullNode, Init picks the component that runs and the other    *)
(* stays in an initial state in which its properties hold: SubSlotSync    *)
(* with no handler task (none of its fair actions is enabled there), and  *)
(* PoolState with no pool server up.  PoolState's loop task is enabled in *)
(* its initial state, so its fairness is asked of its own steps only.     *)
(***************************************************************************)
EXTENDS TLC

CONSTANTS x1, x2, pl1, pl2, pay1, pay2, NoPayout

VARIABLES
    running,
    have, inflight, hd,                                          \* SubSlotSync
    known, infoDue, farmerDue, auth, errRecent, errOld, cfgPayout,
    up, registered, serverPayout, lpc, todo, cur, snap           \* PoolState

\* two handlers, four bundles of which 2 and 3 are non-empty, the loop
\* scaled to 3 rounds and 2 non-empty bundles (see MC_SubSlotSync)
SS == INSTANCE SubSlotSync WITH Handlers <- {x1, x2}, N <- 4, NonEmpty <- {2, 3},
                                MaxSteps <- 3, MaxNonEmpty <- 2

\* one pool the farmer talks to and one self-pooling entry, two payouts
PS == INSTANCE PoolState WITH Pools <- {pl1, pl2}, SelfPooled <- {pl2}, Payouts <- {pay1, pay2}

ssVars == <<have, inflight, hd>>
psVars == <<known, infoDue, farmerDue, auth, errRecent, errOld, cfgPayout,
            up, registered, serverPayout, lpc, todo, cur, snap>>
allVars == <<running, have, inflight, hd,
             known, infoDue, farmerDue, auth, errRecent, errOld, cfgPayout,
             up, registered, serverPayout, lpc, todo, cur, snap>>

(* PoolState's idle state: an initial state with no pool server up.       *)
PSIdle == PS!Init /\ cfgPayout = [p \in {pl1, pl2} |-> pay1] /\ up = [p \in {pl1, pl2} |-> FALSE]
                  /\ registered = [p \in {pl1, pl2} |-> FALSE] /\ serverPayout = [p \in {pl1, pl2} |-> pay1]

Init ==
    /\ SS!Init
    /\ \/ running = "subslots" /\ PSIdle
       \/ running = "pools" /\ PS!Init

Next ==
    /\ UNCHANGED running
    /\ \/ running = "subslots" /\ SS!Next /\ UNCHANGED psVars
       \/ running = "pools" /\ PS!Next /\ UNCHANGED ssVars

PSStep(A) == running = "pools" /\ A /\ UNCHANGED <<running, ssVars>>

(* SubSlotSync's fairness as it stands; PoolState's asked of its steps.   *)
Fairness ==
    /\ SS!Fairness
    /\ WF_allVars(PSStep(PS!StartUpdate)) /\ WF_allVars(PSStep(PS!NextPool))
    /\ WF_allVars(PSStep(\E o \in PS!Outcomes : PS!Request(o)))
    /\ WF_allVars(PSStep(PS!InfoTimerExpires(pl1))) /\ WF_allVars(PSStep(PS!FarmerTimerExpires(pl1)))

Spec == Init /\ [][Next]_allVars /\ Fairness

-----------------------------------------------------------------------------
(* PROPERTIES: those of the components, stated in their modules.          *)

(* The type invariants of both models.                                    *)
SubSlotTypeOK == SS!TypeOK
PoolTypeOK == PS!TypeOK

(* SubSlotSync: every bundle the backfill loop replays is stored.         *)
ReplayNeverRejected == SS!ReplayNeverRejected

(* SubSlotSync: a feasible backfill against an honest peer catches up.    *)
CatchUp == SS!CatchUp

(* PoolState: payout instructions set in the config reach a pool whose    *)
(* server ends up staying up.                                             *)
PayoutEventuallyMatches == PS!PayoutEventuallyMatches

====
