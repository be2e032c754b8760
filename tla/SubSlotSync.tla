----------------------------- MODULE SubSlotSync -----------------------------
(***************************************************************************)
(* Catching up on end-of-sub-slot bundles                                  *)
(* (src/tad/full_node/full_node_api.py:                                    *)
(* FullNodeAPI.new_signage_point_or_end_of_sub_slot and                     *)
(* respond_end_of_sub_slot).                                               *)
(*                                                                         *)
(* The peers' chain of sub-slots has challenges 0 (GENESIS_CHALLENGE),     *)
(* 1, ..., N.  The end-of-sub-slot bundle k (for k >= 1) ends the sub-slot *)
(* of challenge k-1: its challenge-chain VDF challenge is k-1, and         *)
(* get_sub_slot(k) finds it once the node stores it.  A bundle is          *)
(* "non-empty" when its CC and RC VDF iteration counts differ.             *)
(*                                                                         *)
(* An announcement of challenge k with index 0 whose previous sub-slot is  *)
(* unknown starts the backfill loop: up to MaxSteps (30) times, request    *)
(* the bundle of the current challenge from the same peer (an await), and  *)
(* as soon as the bundle's own challenge is stored (or is genesis) replay  *)
(* the collected bundles oldest first through respond_end_of_sub_slot,     *)
(* one await each; give up after MaxNonEmpty (3) non-empty bundles.       *)
(* Otherwise the handler replies with a request, and the peer's            *)
(* RespondEndOfSubSlot arrives later, or never.                            *)
(*                                                                         *)
(* FullNode.respond_end_of_sub_slot and the store's insertion rule are not *)
(* under src/: a bundle is added when it is new and the sub-slot it ends   *)
(* is stored or is the genesis one (spec section 4.1).                     *)
(***************************************************************************)
EXTENDS Naturals, FiniteSets, Sequences, SequencesExt

CONSTANTS
    Handlers,     \* concurrent new_signage_point_or_end_of_sub_slot tasks
    N,            \* the highest challenge of the peers' chain
    NonEmpty,     \* the non-empty bundles
    MaxSteps,     \* "for _ in range(30)": the code's literal is 30
    MaxNonEmpty   \* "num_non_empty_sub_slots_seen >= 3": the code's literal is 3

ASSUME NonEmpty \subseteq 1..N /\ MaxSteps \in Nat \ {0} /\ MaxNonEmpty \in Nat \ {0}

Bundles == 1..N

VARIABLES
    have,      \* the bundles in full_node_store.finished_sub_slots
    inflight,  \* RequestSignagePointOrEndOfSubSlot(k, 0) sent, answer not yet in
    hd         \* Handlers -> the state of the handler task

vars == <<have, inflight, hd>>

(* pc: "free" (no task), "await" (awaiting the peer's answer for req),     *)
(* "replay" (replaying collected, oldest last), "done".  honest: the peer  *)
(* answers every request.  feasible: when the loop started, the missing    *)
(* bundles were within MaxSteps and fewer than MaxNonEmpty of them, not    *)
(* counting the oldest, were non-empty.                                    *)
Handler == [pc : {"free", "await", "replay", "done"}, k : Bundles, req : Bundles,
            collected : Seq(Bundles), count : 0..N, steps : 0..MaxSteps,
            honest : BOOLEAN, feasible : BOOLEAN]

TypeOK ==
    /\ have \subseteq Bundles
    /\ inflight \subseteq Bundles
    /\ hd \in [Handlers -> Handler]

Init ==
    /\ have = {}
    /\ inflight = {}
    /\ hd = [x \in Handlers |-> [pc |-> "free", k |-> 1, req |-> 1, collected |-> <<>>,
                                 count |-> 0, steps |-> 0, honest |-> TRUE, feasible |-> TRUE]]

-----------------------------------------------------------------------------
\* fault variant: the comparison with GENESIS_CHALLENGE is dropped
KnownNoGenesis(c, hv) == c \in hv

(* get_sub_slot(c) is not None, or c is GENESIS_CHALLENGE. *)
Known(c, hv) == c = 0 \/ c \in hv

(* FullNode.respond_end_of_sub_slot: the store adds bundle e if it is new  *)
(* and ends a stored (or the genesis) sub-slot.                           *)
AddEndOfSubSlot(e, hv) == IF e \notin hv /\ Known(e - 1, hv) THEN hv \cup {e} ELSE hv

(* The highest stored challenge: the store only ever extends the chain.   *)
Latest == IF have = {} THEN 0 ELSE CHOOSE c \in have : \A d \in have : d <= c

Feasible(k) ==
    /\ k - Latest <= MaxSteps
    /\ Cardinality({j \in NonEmpty : Latest + 2 <= j /\ j <= k}) < MaxNonEmpty

-----------------------------------------------------------------------------
(* A peer announces challenge k: with index 0 (an end of sub-slot) or with *)
(* a positive index (a signage point in the sub-slot of k).  The handler  *)
(* drops what it has or what is older than what it has; for index 0 with  *)
(* the previous sub-slot unknown it starts the backfill loop by asking    *)
(* for bundle k itself; otherwise it answers with a request for bundle k  *)
(* (for a signage point, only when bundle k is missing).                  *)
NewSignagePointOrEndOfSubSlot(x, k, idx, honest) ==
    /\ hd[x].pc \in {"free", "done"}
    /\ \/ /\ \/ idx = 0 /\ k \in have
             \/ \E j \in have : j > k
          /\ hd' = [hd EXCEPT ![x].pc = "done"]
          /\ UNCHANGED inflight
       \/ /\ k \notin have /\ \A j \in have : j <= k
          /\ idx = 0
          /\ ~Known(k - 1, have)
          /\ hd' = [hd EXCEPT ![x] = [pc |-> "await", k |-> k, req |-> k, collected |-> <<>>,
                                      count |-> 0, steps |-> 1, honest |-> honest,
                                      feasible |-> Feasible(k)]]
          /\ UNCHANGED inflight
       \/ /\ \A j \in have : j <= k
          /\ \/ idx = 0 /\ k \notin have /\ Known(k - 1, have)
             \/ idx > 0 /\ ~Known(k, have)
          /\ inflight' = inflight \cup {k}
          /\ hd' = [hd EXCEPT ![x].pc = "done"]
       \/ /\ \A j \in have : j <= k
          /\ idx > 0 /\ Known(k, have)
          /\ hd' = [hd EXCEPT ![x].pc = "done"]
          /\ UNCHANGED inflight
    /\ UNCHANGED have

\* fault variant: the loop runs one round fewer ("range(29)")
NextRoundShort(h, c) ==
    IF h.steps = MaxSteps - 1 \/ c >= MaxNonEmpty
      THEN [h EXCEPT !.pc = "done", !.count = c]
      ELSE [h EXCEPT !.req = h.req - 1, !.steps = h.steps + 1, !.count = c]

(* The end of a loop round that did not reconverge, and the start of the  *)
(* next: after the last of MaxSteps rounds the loop gives up; a round     *)
(* starting with MaxNonEmpty non-empty bundles seen returns ("diverged"); *)
(* otherwise the bundle's own challenge is requested next.                *)
NextRound(h, c) ==
    IF h.steps = MaxSteps \/ c >= MaxNonEmpty
      THEN [h EXCEPT !.pc = "done", !.count = c]
      ELSE [h EXCEPT !.req = h.req - 1, !.steps = h.steps + 1, !.count = c]

(* The awaited RespondEndOfSubSlot for req arrives.  It is collected; if  *)
(* its challenge (req - 1) is stored now, or is genesis, the replay       *)
(* starts; otherwise a non-empty bundle is counted and the next round     *)
(* begins.                                                                *)
Response(x) ==
    /\ hd[x].pc = "await"
    /\ LET h == [hd[x] EXCEPT !.collected = Append(@, hd[x].req)] IN
       IF Known(h.req - 1, have)
         THEN hd' = [hd EXCEPT ![x] = [h EXCEPT !.pc = "replay"]]
         ELSE hd' = [hd EXCEPT ![x] =
                       NextRound(h, h.count + (IF h.req \in NonEmpty THEN 1 ELSE 0))]
    /\ UNCHANGED <<have, inflight>>

(* The peer answers with something else, or the 10 s timeout elapses:     *)
(* the handler returns.                                                   *)
BadResponse(x) ==
    /\ hd[x].pc = "await"
    /\ ~hd[x].honest
    /\ hd' = [hd EXCEPT ![x].pc = "done"]
    /\ UNCHANGED <<have, inflight>>

\* fault variant: the collected bundles are replayed newest first
ReplayNewestFirst(x) ==
    /\ hd[x].pc = "replay"
    /\ LET e == Head(hd[x].collected) IN
       /\ have' = AddEndOfSubSlot(e, have)
       /\ hd' = [hd EXCEPT ![x].collected = Tail(@),
                           ![x].pc = IF Len(hd[x].collected) = 1 THEN "done" ELSE "replay"]
    /\ UNCHANGED inflight

(* "for eos in reversed(collected_eos): await                             *)
(* self.respond_end_of_sub_slot(eos, peer)": one replay, oldest first.    *)
Replay(x) ==
    /\ hd[x].pc = "replay"
    /\ LET e == Last(hd[x].collected) IN
       /\ have' = AddEndOfSubSlot(e, have)
       /\ hd' = [hd EXCEPT ![x].collected = Front(@),
                           ![x].pc = IF Len(hd[x].collected) = 1 THEN "done" ELSE "replay"]
    /\ UNCHANGED inflight

(* The answer to a request sent by a handler arrives: the peer's          *)
(* RespondEndOfSubSlot handled by respond_end_of_sub_slot; or it is lost. *)
RespondEndOfSubSlot(k) ==
    /\ k \in inflight
    /\ inflight' = inflight \ {k}
    /\ have' = AddEndOfSubSlot(k, have)
    /\ UNCHANGED hd

LoseAnswer(k) ==
    /\ k \in inflight
    /\ inflight' = inflight \ {k}
    /\ UNCHANGED <<have, hd>>

Next ==
    \/ \E x \in Handlers, k \in Bundles, idx \in {0, 1}, honest \in BOOLEAN :
         NewSignagePointOrEndOfSubSlot(x, k, idx, honest)
    \/ \E x \in Handlers : Response(x) \/ BadResponse(x) \/ Replay(x)
    \/ \E k \in Bundles : RespondEndOfSubSlot(k) \/ LoseAnswer(k)

(* The event loop resumes the handler when its answer arrives and after   *)
(* each replayed bundle; an honest peer answers.  The network and the    *)
(* peers' announcements get no fairness.                                 *)
Fairness == \A x \in Handlers : WF_vars(Response(x)) /\ WF_vars(Replay(x))

Spec == Init /\ [][Next]_vars /\ Fairness

-----------------------------------------------------------------------------
(* PROPERTIES                                                              *)

(* Replay oldest first (spec section 4.1): every bundle a replay step of  *)
(* the backfill loop hands to respond_end_of_sub_slot is in the store     *)
(* afterwards, whatever other handlers and answers were interleaved with  *)
(* the loop's awaits: none of them is rejected for ending a sub-slot the  *)
(* node does not have.                                                    *)
ReplayNeverRejected ==
    [][\A x \in Handlers :
         hd[x].pc = "replay" /\ Len(hd'[x].collected) < Len(hd[x].collected)
           => \A e \in Range(hd[x].collected) \ Range(hd'[x].collected) : e \in have']_vars

(* Catch-up: a backfill loop started against an honest peer, with the     *)
(* missing bundles within MaxSteps rounds and fewer than MaxNonEmpty of   *)
(* them non-empty, ends with the announced bundle stored.                 *)
CatchUp ==
    \A x \in Handlers :
        (hd[x].pc = "await" /\ hd[x].honest /\ hd[x].feasible) ~> hd[x].k \in have

====
