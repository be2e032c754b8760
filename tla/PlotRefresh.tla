---------------------------- MODULE PlotRefresh ----------------------------
(***************************************************************************)
(* The harvester's plot manager (src/tad/plotting/manager.py).             *)
(*                                                                         *)
(* A dedicated thread (_refresh_task) waits until needs_refresh(), takes a *)
(* snapshot of the plot files in the configured directories and calls     *)
(* refresh_batch until a batch leaves no file over.  refresh_batch first  *)
(* drops plot_filename_paths entries whose files are gone, then runs      *)
(* process_file on every snapshot file in a thread pool; at most          *)
(* batch_size files are opened per batch, the rest are counted as         *)
(* remaining.  plot_filename_paths maps a file name to the directory it   *)
(* was loaded from and the directories holding duplicate copies.  After   *)
(* the last batch the unused cache entries are dropped and               *)
(* last_refresh_time is set.  trigger_refresh, called from other threads, *)
(* sets last_refresh_time = 0.                                            *)
(*                                                                         *)
(* Abstractions.  Time is abstract: due is needs_refresh(); Tick is the   *)
(* refresh interval elapsing.  A file's mtime is a stamp from a counter   *)
(* bounded by MaxClock, so every write gives a new mtime.  A plot's id is *)
(* its file name (the name carries the id), so copies share the id and   *)
(* the cache is a set of names.  The worker threads of one batch are      *)
(* modelled as one process_file at a time in any order: each reads and    *)
(* writes the shared tables inside its own critical sections              *)
(* (counter_lock, plot_filename_paths_lock) and the order in which the   *)
(* threads reach them is arbitrary.  match_str is None and                *)
(* open_no_key_filenames is False (the defaults).                         *)
(***************************************************************************)
EXTENDS Naturals, FiniteSets

CONSTANTS
    Dirs,        \* plot directories (configured or not)
    Names,       \* plot file names
    NoKeyNames,  \* names whose memo carries a farmer key not in farmer_public_keys
    BatchSize,   \* refresh_parameter.batch_size
    MaxClock,    \* bound on file writes (mtime stamps)
    WriteKinds,  \* the kinds of file the file system may hold
    Absent,      \* no such file
    NotLoaded,   \* path not in self.plots
    NoEntry      \* name not in plot_filename_paths

ASSUME BatchSize \in Nat \ {0} /\ MaxClock \in Nat
ASSUME NoKeyNames \subseteq Names

Paths == Dirs \X Names

(* "good": a complete plot; "partial": smaller than 0.98 of the expected *)
(* size, assumed to be still copied; "corrupt": DiskProver raises.       *)
Kinds == {"good", "partial", "corrupt"}

ASSUME WriteKinds \subseteq Kinds

Mtimes == 1..MaxClock

VARIABLES
    disk,            \* Paths -> Absent or [kind, mtime]
    clock,           \* last mtime stamp handed out
    config,          \* plot directories in config.yaml
    plots,           \* self.plots: Paths -> NotLoaded or the recorded mtime
    fnp,             \* self.plot_filename_paths: Names -> NoEntry or [loaded, dups]
    failed,          \* keys of self.failed_to_open_filenames
    noKey,           \* self.no_key_filenames
    cache,           \* ids in self.cache
    due,             \* needs_refresh()
    phase,           \* refresh thread: "idle" (sleeping in the wait loop) or "batch"
    snapshot,        \* plot_paths taken by _refresh_task at the start of the refresh
    dirsSnap,        \* plot_directories taken with it
    todo,            \* files of the current batch process_file has not handled yet
    refreshed,       \* plots_refreshed of the current batch
    processed,       \* result.processed_files of the current batch
    remaining        \* result.remaining_files of the current batch

vars == <<disk, clock, config, plots, fnp, failed, noKey, cache, due, phase, snapshot, dirsSnap, todo, refreshed,
          processed, remaining>>

Exists(p) == disk[p] # Absent

Loaded(p) == plots[p] # NotLoaded

TypeOK ==
    /\ disk \in [Paths -> {Absent} \cup [kind : Kinds, mtime : Mtimes]]
    /\ clock \in 0..MaxClock
    /\ config \subseteq Dirs
    /\ plots \in [Paths -> {NotLoaded} \cup Mtimes]
    /\ fnp \in [Names -> {NoEntry} \cup [loaded : Dirs, dups : SUBSET Dirs]]
    /\ failed \subseteq Paths /\ noKey \subseteq Paths
    /\ cache \subseteq Names
    /\ due \in BOOLEAN
    /\ phase \in {"idle", "batch"}
    /\ snapshot \subseteq Paths /\ dirsSnap \subseteq Dirs /\ todo \subseteq snapshot
    /\ refreshed \in [Paths -> {NotLoaded} \cup Mtimes]
    /\ processed \in 0..BatchSize
    /\ remaining \in 0..Cardinality(Paths)

Init ==
    /\ disk = [p \in Paths |-> Absent]
    /\ clock = 0
    /\ config = Dirs
    /\ plots = [p \in Paths |-> NotLoaded]
    /\ fnp = [n \in Names |-> NoEntry]
    /\ failed = {} /\ noKey = {} /\ cache = {}
    /\ due = TRUE
    /\ phase = "idle"
    /\ snapshot = {} /\ dirsSnap = {} /\ todo = {}
    /\ refreshed = [p \in Paths |-> NotLoaded]
    /\ processed = 0 /\ remaining = 0

(* plot_removed() of the removal pass: the file is gone or its directory  *)
(* is no longer configured.                                                *)
PlotRemoved(p, ds) == ~Exists(p) \/ p[1] \notin ds

-----------------------------------------------------------------------------
(* Fault variants: plausible slips, each kept before the definition it    *)
(* replaces.                                                              *)

\* the whole entry is dropped as soon as one duplicate copy is gone
PrunedDropsOnDup(ds) ==
    [n \in Names |->
        IF fnp[n] = NoEntry \/ PlotRemoved(<<fnp[n].loaded, n>>, ds)
                            \/ \E x \in fnp[n].dups : PlotRemoved(<<x, n>>, ds)
          THEN NoEntry
          ELSE fnp[n]]

-----------------------------------------------------------------------------
(* The removal pass at the start of refresh_batch: drop the entries whose *)
(* loaded file is removed, and the removed duplicate directories of the   *)
(* others.                                                                *)
Pruned(ds) ==
    [n \in Names |->
        IF fnp[n] = NoEntry \/ PlotRemoved(<<fnp[n].loaded, n>>, ds)
          THEN NoEntry
          ELSE [loaded |-> fnp[n].loaded,
                dups |-> {x \in fnp[n].dups : ~PlotRemoved(<<x, n>>, ds)}]]

(* refresh_batch up to the thread pool: fresh counters and results, the   *)
(* removal pass, and every snapshot file handed to process_file.          *)
BatchBegin(ds, snap) ==
    /\ fnp' = Pruned(ds)
    /\ todo' = snap
    /\ refreshed' = [p \in Paths |-> NotLoaded]
    /\ processed' = 0
    /\ remaining' = 0

\* a copy found under an already registered name is loaded as well
RegisterNoDupCheck(p) ==
    /\ fnp' = [fnp EXCEPT ![p[2]] = [loaded |-> p[1], dups |-> {}]]
    /\ refreshed' = [refreshed EXCEPT ![p] = disk[p].mtime]
    /\ failed' = failed \ {p}

(* The plot_filename_paths critical section of process_file and what      *)
(* follows it: a name seen for the first time is registered with this     *)
(* file's directory and the plot is loaded; otherwise the directory is    *)
(* added to the duplicates and the file is not loaded.                    *)
Register(p) ==
    \/ /\ fnp[p[2]] = NoEntry
       /\ fnp' = [fnp EXCEPT ![p[2]] = [loaded |-> p[1], dups |-> {}]]
       /\ refreshed' = [refreshed EXCEPT ![p] = disk[p].mtime]
       /\ failed' = failed \ {p}
    \/ /\ fnp[p[2]] # NoEntry
       /\ fnp' = [fnp EXCEPT ![p[2]].dups = @ \cup {p[1]}]
       /\ UNCHANGED <<refreshed, failed>>

(* process_file after the batch counter: DiskProver raises on a corrupt   *)
(* file (failed_to_open_filenames), a file smaller than expected is       *)
(* skipped, a plot that is not cached and has no known key is recorded in *)
(* no_key_filenames; otherwise the cache gets the plot's entry and the    *)
(* file is registered.                                                    *)
Open(p) ==
    \/ /\ disk[p].kind = "corrupt"
       /\ failed' = failed \cup {p}
       /\ UNCHANGED <<refreshed, fnp, noKey, cache>>
    \/ /\ disk[p].kind = "partial"
       /\ UNCHANGED <<refreshed, fnp, failed, noKey, cache>>
    \/ /\ disk[p].kind = "good"
       /\ p[2] \notin cache /\ p[2] \in NoKeyNames
       /\ noKey' = noKey \cup {p}
       /\ UNCHANGED <<refreshed, fnp, failed, cache>>
    \/ /\ disk[p].kind = "good"
       /\ p[2] \in cache \/ p[2] \notin NoKeyNames
       /\ cache' = cache \cup {p[2]}
       /\ Register(p)
       /\ UNCHANGED noKey

\* the batch limit is checked with ">" instead of ">="
CountOffByOne(p) ==
    \/ /\ processed > BatchSize
       /\ remaining' = remaining + 1
       /\ UNCHANGED <<refreshed, fnp, failed, noKey, cache, processed>>
    \/ /\ processed <= BatchSize
       /\ processed' = processed + 1
       /\ Open(p)
       /\ UNCHANGED remaining

(* The counter_lock section: once batch_size files have been opened in    *)
(* this batch the file is left for the next batch.                        *)
Count(p) ==
    \/ /\ processed >= BatchSize
       /\ remaining' = remaining + 1
       /\ UNCHANGED <<refreshed, fnp, failed, noKey, cache, processed>>
    \/ /\ processed < BatchSize
       /\ processed' = processed + 1
       /\ Open(p)
       /\ UNCHANGED remaining

(* The mtime recorded for a loaded plot still matches the file.           *)
Unchanged(p) == Loaded(p) /\ disk[p].mtime = plots[p]

(* The directory of the file is already listed as holding a duplicate.    *)
DupSkip(p) == fnp[p[2]] # NoEntry /\ p[1] \in fnp[p[2]].dups

(* One worker thread runs process_file on one file of the batch: a        *)
(* missing file, a file that failed to open within the retry window (the  *)
(* window is abstract: a failed file may or may not be retried) and a     *)
(* known duplicate are skipped; a loaded plot with an unchanged mtime is  *)
(* kept as it is; any other file goes through the batch counter.          *)
ProcessFile(p) ==
    /\ phase = "batch"
    /\ p \in todo
    /\ todo' = todo \ {p}
    /\ \/ /\ \/ ~Exists(p)
             \/ p \in failed
             \/ Exists(p) /\ ~Unchanged(p) /\ DupSkip(p)
          /\ UNCHANGED <<refreshed, fnp, failed, noKey, cache, processed, remaining>>
       \/ /\ Exists(p) /\ Unchanged(p)
          /\ refreshed' = [refreshed EXCEPT ![p] = plots[p]]
          /\ UNCHANGED <<fnp, failed, noKey, cache, processed, remaining>>
       \/ /\ Exists(p) /\ ~Unchanged(p) /\ ~DupSkip(p)
          /\ Count(p)
    /\ UNCHANGED <<disk, clock, config, plots, due, phase, snapshot, dirsSnap>>

(* _refresh_task leaves its wait loop: it lists the plot files of the     *)
(* configured directories and starts the first batch.                     *)
StartRefresh ==
    /\ phase = "idle"
    /\ due
    /\ LET snap == {p \in Paths : p[1] \in config /\ Exists(p)} IN
         /\ snapshot' = snap
         /\ dirsSnap' = config
         /\ BatchBegin(config, snap)
    /\ phase' = "batch"
    /\ UNCHANGED <<disk, clock, config, plots, failed, noKey, cache, due>>

(* The thread pool is done: self.plots = plots_refreshed.  With files left *)
(* over the next batch starts (needs_refresh() still holds: only this     *)
(* thread resets last_refresh_time); otherwise the cache entries of plots *)
(* not loaded are removed, the cache is saved and last_refresh_time is    *)
(* set.                                                                   *)
EndBatch ==
    /\ phase = "batch"
    /\ todo = {}
    /\ plots' = refreshed
    /\ IF remaining > 0
         THEN /\ BatchBegin(dirsSnap, snapshot)
              /\ UNCHANGED <<cache, due, phase, snapshot, dirsSnap>>
         ELSE /\ cache' = cache \cap {p[2] : p \in {q \in Paths : refreshed[q] # NotLoaded}}
              /\ due' = FALSE
              /\ phase' = "idle"
              /\ snapshot' = {} /\ dirsSnap' = {}
              /\ refreshed' = [p \in Paths |-> NotLoaded]
              /\ processed' = 0 /\ remaining' = 0
              /\ UNCHANGED <<fnp, todo>>
    /\ UNCHANGED <<disk, clock, config, failed, noKey>>

(* trigger_refresh from another thread: last_refresh_time = 0.            *)
TriggerRefresh ==
    /\ ~due
    /\ due' = TRUE
    /\ UNCHANGED <<disk, clock, config, plots, fnp, failed, noKey, cache, phase,
                   snapshot, dirsSnap, todo, refreshed, processed, remaining>>

(* refresh_parameter.interval_seconds pass: needs_refresh() becomes true. *)
Tick ==
    /\ ~due
    /\ due' = TRUE
    /\ UNCHANGED <<disk, clock, config, plots, fnp, failed, noKey, cache,
                   phase, snapshot, dirsSnap, todo, refreshed, processed, remaining>>

ManagerVars == <<plots, fnp, failed, noKey, cache, due, phase,
                 snapshot, dirsSnap, todo, refreshed, processed, remaining>>

(* The file system and the configuration change under the manager: a plot *)
(* file is written (new mtime), rewritten or copied over, deleted; a plot *)
(* directory is added to or removed from the configuration.               *)
WriteFile(p, k) ==
    /\ clock < MaxClock
    /\ clock' = clock + 1
    /\ disk' = [disk EXCEPT ![p] = [kind |-> k, mtime |-> clock + 1]]
    /\ UNCHANGED <<config>> /\ UNCHANGED ManagerVars

DeleteFile(p) ==
    /\ Exists(p)
    /\ disk' = [disk EXCEPT ![p] = Absent]
    /\ UNCHANGED <<clock, config>> /\ UNCHANGED ManagerVars

ToggleDir(d) ==
    /\ config' = IF d \in config THEN config \ {d} ELSE config \cup {d}
    /\ UNCHANGED <<disk, clock>> /\ UNCHANGED ManagerVars

Next ==
    \/ StartRefresh \/ EndBatch \/ \E p \in Paths : ProcessFile(p)
    \/ TriggerRefresh \/ Tick
    \/ \E p \in Paths, k \in WriteKinds : WriteFile(p, k)
    \/ \E p \in Paths : DeleteFile(p)
    \/ \E d \in Dirs : ToggleDir(d)

(* The refresh thread and its worker threads keep running; the file      *)
(* system, the configuration and the clock get no fairness.               *)
Fairness ==
    /\ WF_vars(StartRefresh)
    /\ WF_vars(EndBatch)
    /\ WF_vars(\E p \in Paths : ProcessFile(p))

Spec == Init /\ [][Next]_vars /\ Fairness

-----------------------------------------------------------------------------
(* PROPERTIES                                                              *)

(* Duplicate detection: for every plot name at most one copy is loaded,   *)
(* across deletions, re-creations, directory changes and batches.         *)
OneLoadedCopyPerName ==
    \A n \in Names : Cardinality({d \in Dirs : Loaded(<<d, n>>)}) <= 1

(* After a completed refresh every loaded plot is the one recorded as     *)
(* loaded for its name in plot_filename_paths, so the removal pass of the *)
(* next refresh will notice when it disappears.                           *)
LoadedIsRecorded ==
    phase = "idle" =>
        \A p \in Paths : Loaded(p) => fnp[p[2]] # NoEntry /\ fnp[p[2]].loaded = p[1]

(* A duplicate is a copy in another directory (the "Have multiple copies *)
(* of the plot" warning): the directory a name is loaded from is never    *)
(* also listed among that name's duplicates.                             *)
NoSelfDuplicate ==
    \A n \in Names : fnp[n] # NoEntry => fnp[n].loaded \notin fnp[n].dups

(* Every refresh started by _refresh_task eventually finishes and resets  *)
(* last_refresh_time.                                                     *)
RefreshCompletes ==
    phase = "batch" ~> phase = "idle"

====
