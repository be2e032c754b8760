--------------------------- MODULE HarvesterCache ---------------------------
(***************************************************************************)
(* The farmer's cache of its harvesters' plot lists                        *)
(* (src/tad/farmer/farmer.py: HarvesterCacheEntry, update_cached_harvesters,*)
(* get_cached_harvesters, get_harvesters).                                 *)
(*                                                                         *)
(* _periodically_clear_cache_and_refresh_task calls                        *)
(* update_cached_harvesters once a second.  A call first deletes the       *)
(* expired entries (older than 10 * UPDATE_HARVESTER_CACHE_INTERVAL), then *)
(* walks the harvester connections one by one: it gets or creates the     *)
(* connection's entry and, if the entry is older than the interval, bumps  *)
(* its last_update and awaits a RequestPlots with the interval as timeout, *)
(* storing the answer if it is a RespondPlots.  The RPC get_harvesters     *)
(* creates entries for connected harvesters too.                           *)
(*                                                                         *)
(* Time is kept as the age of each entry, time.time() - last_update, in    *)
(* units of the interval's granularity and capped one above the expiry     *)
(* age: every comparison of the code ("> interval", "> 10 * interval") is  *)
(* decided the same way on the capped age.  A fresh entry has              *)
(* last_update = 0, an age above every bound.  The two-level dictionary    *)
(* harvester_cache[host][node_id] is one map keyed by harvester.           *)
(***************************************************************************)
EXTENDS Naturals, FiniteSets

CONSTANTS
    Harvesters,     \* harvester connections, one per (peer_host, peer_node_id)
    Data,           \* the plot lists a harvester can report
    Interval,       \* UPDATE_HARVESTER_CACHE_INTERVAL (60 s) in time units
    ExpiryFactor,   \* the factor of expired(): the code's literal is 10
    NoData,         \* HarvesterCacheEntry.data = None
    Invalid,        \* a response that is not a RespondPlots
    NoEntry         \* no entry for the harvester in harvester_cache

ASSUME Interval \in Nat \ {0} /\ ExpiryFactor \in Nat \ {0}

ExpiryAge == Interval * ExpiryFactor
AgeCap == ExpiryAge + 1
Ages == 0..AgeCap
Entry == [data : Data \cup {NoData}, age : Ages]

(* How a harvester answers RequestPlots: with its plots, with another     *)
(* message, or not at all (an older version, or a harvester blocked).     *)
Modes == {"ok", "invalid", "silent"}

VARIABLES
    entry,      \* harvester_cache: Harvesters -> Entry \cup {NoEntry}
    connected,  \* server.get_connections(NodeType.HARVESTER)
    mode,       \* Harvesters -> Modes
    plots,      \* Harvesters -> the plot list the harvester reports now
    lpc,        \* the refresh task: "sleep" between calls, "request" in the await
    todo,       \* connections of the current call not yet visited
    cur,        \* the connection whose request is awaited
    waited      \* time the current request has been awaited

vars == <<entry, connected, mode, plots, lpc, todo, cur, waited>>
harvesterVars == <<connected, mode, plots>>

TypeOK ==
    /\ entry \in [Harvesters -> Entry \cup {NoEntry}]
    /\ connected \subseteq Harvesters
    /\ mode \in [Harvesters -> Modes]
    /\ plots \in [Harvesters -> Data]
    /\ lpc \in {"sleep", "request"}
    /\ todo \subseteq Harvesters
    /\ cur \in Harvesters
    /\ waited \in 0..Interval

Init ==
    /\ entry = [h \in Harvesters |-> NoEntry]
    /\ connected = {}
    /\ mode \in [Harvesters -> Modes]
    /\ plots \in [Harvesters -> Data]
    /\ lpc = "sleep"
    /\ todo = {}
    /\ cur \in Harvesters
    /\ waited = 0

-----------------------------------------------------------------------------
(* HarvesterCacheEntry *)

NewEntry == [data |-> NoData, age |-> AgeCap]

(* get_cached_harvesters: the entry, created if missing. *)
Cached(e, h) == IF e[h] = NoEntry THEN NewEntry ELSE e[h]

\* fault variant: the age comparison of needs_update is reversed
NeedsUpdateReversed(en) == en.age < Interval

needs_update(en) == en.age > Interval

expired(en) == en.age > ExpiryAge

DataOf(h) == IF entry[h] = NoEntry THEN NoData ELSE entry[h].data

-----------------------------------------------------------------------------
(* The connection loop of update_cached_harvesters from a given cache and  *)
(* set of unvisited connections up to its next suspension.  Connections    *)
(* whose entry is recent are passed over without yielding (in list order,  *)
(* any subset S of them comes before the next one to request); the first  *)
(* one that needs an update has its entry created, bumped, and its         *)
(* RequestPlots awaited.  With none left to request the call returns.     *)
NeedsRequest(e, h) == needs_update(Cached(e, h))

ScanFrom(e, T) ==
    \/ \E h \in T :
         /\ NeedsRequest(e, h)
         /\ \E S \in SUBSET {x \in T \ {h} : ~NeedsRequest(e, x)} :
              todo' = T \ (S \cup {h})
         /\ entry' = [e EXCEPT ![h] = [Cached(e, h) EXCEPT !.age = 0]]
         /\ lpc' = "request"
         /\ cur' = h
         /\ waited' = 0
    \/ /\ \A h \in T : ~NeedsRequest(e, h)
       /\ entry' = e
       /\ lpc' = "sleep"
       /\ todo' = {}
       /\ UNCHANGED <<cur, waited>>

(* A call of update_cached_harvesters: delete the expired entries (and   *)
(* with them the emptied host dictionaries), snapshot the connections and *)
(* run the loop.                                                          *)
StartUpdate ==
    /\ lpc = "sleep"
    /\ ScanFrom([h \in Harvesters |->
                   IF entry[h] # NoEntry /\ expired(entry[h]) THEN NoEntry ELSE entry[h]],
                connected)
    /\ UNCHANGED harvesterVars

\* fault variant: the isinstance check on the response is dropped
ReplyNoTypeCheck(h) ==
    /\ lpc = "request"
    /\ cur = h
    /\ h \in connected
    /\ mode[h] # "silent"
    /\ LET r == IF mode[h] = "ok" THEN plots[h] ELSE Invalid IN
         ScanFrom([entry EXCEPT ![h] = [data |-> r, age |-> 0]], todo)
    /\ UNCHANGED harvesterVars

(* The harvester answers the awaited RequestPlots.  A RespondPlots is     *)
(* stored with set_data, which bumps last_update again; any other message *)
(* is logged.  The loop then goes on with the next connections.           *)
Reply(h) ==
    /\ lpc = "request"
    /\ cur = h
    /\ h \in connected
    /\ mode[h] # "silent"
    /\ IF mode[h] = "ok"
         THEN ScanFrom([entry EXCEPT ![h] = [data |-> plots[h], age |-> 0]], todo)
         ELSE ScanFrom(entry, todo)
    /\ UNCHANGED harvesterVars

(* The request returns None: its timeout elapsed or the connection was    *)
(* closed.  The entry keeps its data and the last_update bumped before    *)
(* the request.                                                           *)
Timeout(h) ==
    /\ lpc = "request"
    /\ cur = h
    /\ waited = Interval \/ h \notin connected
    /\ ScanFrom(entry, todo)
    /\ UNCHANGED harvesterVars

(* The RPC get_harvesters: get_cached_harvesters for every connection,   *)
(* which creates the missing entries.  It does not suspend.               *)
GetHarvesters ==
    /\ entry' = [h \in Harvesters |->
                   IF h \in connected THEN Cached(entry, h) ELSE entry[h]]
    /\ entry' # entry
    /\ UNCHANGED <<harvesterVars, lpc, todo, cur, waited>>

(* One unit of time: every entry ages, and so does an awaited request.   *)
Tick ==
    /\ \/ \E h \in Harvesters : entry[h] # NoEntry /\ entry[h].age < AgeCap
       \/ lpc = "request" /\ waited < Interval
    /\ entry' = [h \in Harvesters |->
                   IF entry[h] = NoEntry THEN NoEntry
                   ELSE [entry[h] EXCEPT !.age = IF @ < AgeCap THEN @ + 1 ELSE @]]
    /\ waited' = IF lpc = "request" /\ waited < Interval THEN waited + 1 ELSE waited
    /\ UNCHANGED <<harvesterVars, lpc, todo, cur>>

(* Harvesters connect, disconnect, change their plots and their way of   *)
(* answering.                                                             *)
Connect(h) ==
    /\ h \notin connected
    /\ connected' = connected \cup {h}
    /\ UNCHANGED <<entry, mode, plots, lpc, todo, cur, waited>>

Disconnect(h) ==
    /\ h \in connected
    /\ connected' = connected \ {h}
    /\ UNCHANGED <<entry, mode, plots, lpc, todo, cur, waited>>

SetMode(h, m) ==
    /\ mode[h] # m
    /\ mode' = [mode EXCEPT ![h] = m]
    /\ UNCHANGED <<entry, connected, plots, lpc, todo, cur, waited>>

ChangePlots(h, d) ==
    /\ plots[h] # d
    /\ plots' = [plots EXCEPT ![h] = d]
    /\ UNCHANGED <<entry, connected, mode, lpc, todo, cur, waited>>

Next ==
    \/ StartUpdate
    \/ \E h \in Harvesters : Reply(h) \/ Timeout(h)
    \/ GetHarvesters
    \/ Tick
    \/ \E h \in Harvesters :
         \/ Connect(h) \/ Disconnect(h)
         \/ \E m \in Modes : SetMode(h, m)
         \/ \E d \in Data : ChangePlots(h, d)

(* The event loop runs the refresh task after its one-second sleep and    *)
(* resumes it when its request returns; time passes.  A harvester that    *)
(* answers may lose the race with the timeout on one request, but not on  *)
(* every one of infinitely many (strong fairness: Reply is disabled again *)
(* by each timeout).                                                      *)
Fairness ==
    /\ WF_vars(StartUpdate)
    /\ \A h \in Harvesters : SF_vars(Reply(h)) /\ WF_vars(Timeout(h))
    /\ WF_vars(Tick)

Spec == Init /\ [][Next]_vars /\ Fairness

-----------------------------------------------------------------------------
(* PROPERTIES                                                              *)

(* A harvester that stays connected and answers RequestPlots eventually   *)
(* has its current plot list in the farmer's cache, whatever the other    *)
(* harvesters do and however the requests and timeouts interleave.        *)
ResponsiveHarvesterCached ==
    \A h \in Harvesters :
        (h \in connected /\ mode[h] = "ok" /\ DataOf(h) # plots[h])
          ~> (DataOf(h) = plots[h] \/ h \notin connected \/ mode[h] # "ok")

====
