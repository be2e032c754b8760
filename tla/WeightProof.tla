----------------------------- MODULE WeightProof -----------------------------
(***************************************************************************)
(* Sharing weight-proof creation between concurrent requests               *)
(* (src/tad/full_node/full_node_api.py: FullNodeAPI.request_proof_of_weight).*)
(*                                                                         *)
(* The first request for a tip puts a fresh asyncio.Event in               *)
(* full_node.pow_creation (a dict, so in insertion order), awaits          *)
(* get_proof_of_weight and sets the event; a request that finds the tip in *)
(* the dict awaits the event and then calls get_proof_of_weight itself.    *)
(* After its own call every request lists the dict's keys and, when there  *)
(* are more than 4, pops the 4 oldest, whether or not their events are     *)
(* set.  The last message built is cached with its tip                     *)
(* (serialized_wp_message): reply data no property looks at, left out.    *)
(*                                                                         *)
(* An event is named by the handler that created it: while a handler is   *)
(* creating, exactly one event of it is unset, and event.set() wakes every *)
(* handler awaiting it (their futures get a result; they run later).       *)
(* Awaiting an event that is already set does not suspend.  A request for  *)
(* a tip the blockchain does not contain returns before touching anything *)
(* and is not an action.  get_proof_of_weight may return None; an          *)
(* exception or a cancellation of the handler at one of its awaits is the  *)
(* separate Abort action.                                                  *)
(***************************************************************************)
EXTENDS Naturals, Sequences, FiniteSets, SequencesExt

CONSTANTS
    Handlers,  \* the request_proof_of_weight tasks
    Tips,      \* the peaks peers ask weight proofs for
    EvictCount \* "if len(tips) > 4: for i in range(0, 4)": the code's literal is 4

VARIABLES
    pow,     \* full_node.pow_creation: a sequence of [tip, by, set], oldest first
    handler  \* Handlers -> [pc, tip, on]

wvars == <<pow, handler>>

(* pc: "idle" (no request), "create" (awaiting its own                     *)
(* get_proof_of_weight with its event in the dict), "wait" (awaiting the  *)
(* event created by handler on), "fetch" (woken, awaiting                 *)
(* get_proof_of_weight).                                                  *)
Entry == [tip : Tips, by : Handlers, set : BOOLEAN]

WTypeOK ==
    /\ pow \in Seq(Entry)
    /\ Len(pow) <= Cardinality(Tips)
    /\ handler \in [Handlers -> [pc : {"idle", "create", "wait", "fetch"}, tip : Tips, on : Handlers]]

Idle(h) == [pc |-> "idle", tip |-> CHOOSE t \in Tips : TRUE, on |-> h]

WInit ==
    /\ pow = <<>>
    /\ handler = [h \in Handlers |-> Idle(h)]

Keys == {pow[i].tip : i \in DOMAIN pow}

EntryFor(t) == pow[CHOOSE i \in DOMAIN pow : pow[i].tip = t]

-----------------------------------------------------------------------------
(* A request for tip t: await the event in the dict (or run on at once    *)
(* when it is set already), or put a fresh event in the dict and start    *)
(* creating.                                                              *)
RequestProofOfWeight(h, t) ==
    /\ handler[h].pc = "idle"
    /\ IF t \in Keys
         THEN /\ handler' = [handler EXCEPT ![h] = [pc |-> IF EntryFor(t).set THEN "fetch" ELSE "wait",
                                          tip |-> t, on |-> EntryFor(t).by]]
              /\ UNCHANGED pow
         ELSE /\ pow' = Append(pow, [tip |-> t, by |-> h, set |-> FALSE])
              /\ handler' = [handler EXCEPT ![h] = [pc |-> "create", tip |-> t, on |-> h]]

(* event.set() by handler h: its event is marked set wherever it still is *)
(* in the dict, and every handler awaiting it is woken.                   *)
SetEvent(h) ==
    [p |-> [i \in DOMAIN pow |-> IF pow[i].by = h THEN [pow[i] EXCEPT !.set = TRUE] ELSE pow[i]],
     w |-> [x \in Handlers |-> IF handler[x].pc = "wait" /\ handler[x].on = h
                                 THEN [handler[x] EXCEPT !.pc = "fetch"] ELSE handler[x]]]

\* fault variant: "len(tips) > 5", one entry too many kept (off by one)
EvictLate(s) == IF Len(s) > EvictCount + 1 THEN SubSeq(s, EvictCount + 1, Len(s)) ELSE s

(* "Remove old from cache": the 4 oldest keys go when there are more.     *)
Evict(s) == IF Len(s) > EvictCount THEN SubSeq(s, EvictCount + 1, Len(s)) ELSE s

\* fault variant: the event is set only when a proof was made
FinishSetOnProof(h, wp) ==
    /\ handler[h].pc \in {"create", "fetch"}
    /\ LET ev == IF handler[h].pc = "create" /\ wp THEN SetEvent(h) ELSE [p |-> pow, w |-> handler]
       IN  /\ pow' = Evict(ev.p)
           /\ handler' = [ev.w EXCEPT ![h] = Idle(h)]

(* get_proof_of_weight returns to handler h, a proof (wp) or None: a      *)
(* creator sets its event; then the dict is trimmed, and the handler      *)
(* replies (a proof) or returns None.                                     *)
Finish(h, wp) ==
    /\ handler[h].pc \in {"create", "fetch"}
    /\ LET ev == IF handler[h].pc = "create" THEN SetEvent(h) ELSE [p |-> pow, w |-> handler]
       IN  /\ pow' = Evict(ev.p)
           /\ handler' = [ev.w EXCEPT ![h] = Idle(h)]

(* get_proof_of_weight raises, or the handler task is cancelled at an     *)
(* await: the handler ends there, with no event.set() and no trimming.    *)
Abort(h) ==
    /\ handler[h].pc \in {"create", "wait", "fetch"}
    /\ handler' = [handler EXCEPT ![h] = Idle(h)]
    /\ UNCHANGED pow

WNext ==
    \E h \in Handlers :
        \/ \E t \in Tips : RequestProofOfWeight(h, t)
        \/ \E wp \in BOOLEAN : Finish(h, wp)

WNextWithAbort == WNext \/ \E h \in Handlers : Abort(h)

(* get_proof_of_weight returns, and the event loop resumes the handler.   *)
WFairness == \A h \in Handlers : WF_wvars(\E wp \in BOOLEAN : Finish(h, wp))

WSpec == WInit /\ [][WNext]_wvars /\ WFairness

WSpecWithAbort == WInit /\ [][WNextWithAbort]_wvars /\ WFairness

-----------------------------------------------------------------------------
(* PROPERTIES                                                              *)

(* A request that awaits the event of another request for the same tip   *)
(* is eventually answered: the creator sets the event on every path out  *)
(* of get_proof_of_weight, including a None result, and an event popped   *)
(* from pow_creation is still set by its creator.                         *)
WaitersReleased == \A h \in Handlers : handler[h].pc = "wait" ~> handler[h].pc = "idle"

(* pow_creation stays small: it never holds more than 4 entries besides   *)
(* those of the requests still in progress, whatever order the requests   *)
(* finish in.                                                             *)
CacheBounded == Len(pow) <= EvictCount + Cardinality({h \in Handlers : handler[h].pc # "idle"})

====
