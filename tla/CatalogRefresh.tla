--------------------------- MODULE CatalogRefresh ---------------------------
(***************************************************************************)
(* ModelsEngine::start_refresh and the catalog it keeps                    *)
(* (src/models_dashboard.cpp): HTTP threads find the snapshot of the       *)
(* HuggingFace catalog stale, or are told to renew it, and one of them     *)
(* starts a thread that fetches it, publishes it and saves it to a file    *)
(* for the next start.  The process may die at any moment.                 *)
(*                                                                         *)
(* A catalog is a version number: the n-th answer fetched is version n, no *)
(* catalog is 0.  Each starter owns at most one refresh thread object in   *)
(* flight: the temporary of line 2014 before the assignment, the thread of *)
(* refresh_thread_ after it.                                               *)
(***************************************************************************)
EXTENDS Integers, FiniteSets

CONSTANTS
  Starter,      \* HTTP threads that may call start_refresh
  None,         \* no thread
  Ttl,          \* kSnapshotTtlSec, in ticks of the clock
  MaxTime,      \* bound of the model: the clock stops there
  MaxFetches,   \* bound of the model: refresh threads started
  MaxCrashes    \* bound of the model: deaths of the process

ASSUME CatalogAssumption ==
  /\ None \notin Starter
  /\ {Ttl, MaxTime, MaxFetches, MaxCrashes} \subseteq Nat

VARIABLES
  up, crashes,   \* the process runs; how often it has died
  now,           \* now_sec()
  snapshot,      \* hf_cache_->snapshot
  lastRefresh,   \* hf_cache_->last_refresh
  refreshing,    \* refreshing_
  handle,        \* refresh_thread_: whose thread it joins, or None
  at,            \* where each starter is in start_refresh
  thread,        \* where each starter's refresh thread is
  hits,          \* what each thread fetched (version 0 after a failure), when
  fetched,       \* refresh threads started so far
  barren,        \* the answers that list no model
  file,          \* easyai_hf_catalog.json
  tmp            \* the temporary beside it

memory == <<snapshot, lastRefresh, refreshing, handle>>
disk   == <<file, tmp>>
vars   == <<up, crashes, now, memory, at, thread, hits, fetched, barren,
           disk>>

(* A file is still being written ("part"), cut short by a full disk, or    *)
(* whole.                                                                  *)
File(v, w) == [version |-> v, when |-> w, body |-> "whole"]
NoFile == File(0, 0)
Working == {"fetch", "publish", "open", "write", "rename", "clear"}

Empty(v) == v = 0 \/ v \in barren
Stale == Empty(snapshot) \/ now - lastRefresh > Ttl

(* The constructor: what the file holds, if it parses and holds anything.  *)
Loadable(f) == f.body = "whole" /\ ~Empty(f.version)
Loaded(f)   == IF Loadable(f) THEN f ELSE NoFile

Init ==
  /\ up = TRUE /\ crashes = 0 /\ now = 0
  /\ snapshot = 0 /\ lastRefresh = 0 /\ refreshing = FALSE /\ handle = None
  /\ at = [s \in Starter |-> "idle"]
  /\ thread = [s \in Starter |-> "none"] /\ hits = [s \in Starter |-> NoFile]
  /\ fetched = 0 /\ barren = {}
  /\ file = NoFile /\ tmp = NoFile
-----------------------------------------------------------------------------
(* start_refresh.                                                          *)
Goes(s, from, to) == up /\ at[s] = from /\ at' = [at EXCEPT ![s] = to]

(* The check under hf_cache_mu_; a forced refresh only looks.              *)
Check(s, force) ==
  /\ Goes(s, "idle", IF force \/ Stale THEN "claim" ELSE "idle")
  /\ UNCHANGED <<up, crashes, now, memory, thread, hits, fetched, barren, disk>>

(* The compare-and-swap on refreshing_.                                    *)
AlwaysFree == fetched < MaxFetches                                \* mutant
Free       == ~refreshing
Claim(s) ==
  /\ fetched < MaxFetches
  /\ Goes(s, "claim", IF Free THEN "reap" ELSE "idle")
  /\ refreshing' = TRUE
  /\ UNCHANGED <<up, crashes, now, snapshot, lastRefresh, handle, thread,
                 hits, fetched, barren, disk>>

(* Joining the previous thread, if it is joinable.                         *)
Reap(s) ==
  /\ Goes(s, "reap", "spawn")
  /\ handle # None => thread[handle] = "none"
  /\ handle' = None
  /\ UNCHANGED <<up, crashes, now, snapshot, lastRefresh, refreshing, thread,
                 hits, fetched, barren, disk>>

(* The new thread runs before refresh_thread_ is assigned.                 *)
Spawn(s) ==
  /\ Goes(s, "spawn", "assign")
  /\ thread' = [thread EXCEPT ![s] = "fetch"]
  /\ fetched' = fetched + 1
  /\ UNCHANGED <<up, crashes, now, memory, hits, barren, disk>>

(* Assigning over a joinable thread calls std::terminate.                  *)
Assign(s) ==
  /\ Goes(s, "assign", "idle")
  /\ IF handle = None
     THEN handle' = s /\ UNCHANGED up
     ELSE up' = FALSE /\ UNCHANGED handle
  /\ UNCHANGED <<crashes, now, snapshot, lastRefresh, refreshing, thread, hits,
                 fetched, barren, disk>>
-----------------------------------------------------------------------------
(* The refresh thread.                                                     *)
Runs(s, from, to) ==
  up /\ thread[s] = from /\ thread' = [thread EXCEPT ![s] = to]

(* Both listings failed, or at least one came back; a page nobody can      *)
(* parse ends a listing without an error, and so with no model.            *)
Fetch(s) ==
  /\ Runs(s, "fetch", "publish")
  /\ \E v \in {0, fetched} : hits' = [hits EXCEPT ![s] = File(v, now)]
  /\ barren' \in {barren, barren \cup {fetched}}
  /\ UNCHANGED <<up, crashes, now, memory, at, fetched, disk>>

(* The snapshot under hf_cache_mu_; last_refresh moves even on a failure.  *)
NewSnapshot(v) == IF v # 0 THEN v ELSE snapshot
ReturnIfFailed(v) == IF v # 0 THEN "open" ELSE "none"             \* mutant
AfterPublish(v)   == IF v # 0 THEN "open" ELSE "clear"
Publish(s) ==
  /\ Runs(s, "publish", AfterPublish(hits[s].version))
  /\ snapshot' = NewSnapshot(hits[s].version) /\ lastRefresh' = hits[s].when
  /\ UNCHANGED <<up, crashes, now, refreshing, handle, at, hits, fetched,
                 barren, disk>>

(* save_catalog_file.  The temporary is opened, and truncated; if it       *)
(* cannot be, nothing is saved.                                            *)
OpenInPlace(f) == file' = f /\ UNCHANGED tmp                      \* mutant
Truncate(f)    == tmp' = f /\ UNCHANGED file
Open(s) ==
  /\ \/ Runs(s, "open", "write") /\ Truncate([hits[s] EXCEPT !.body = "part"])
     \/ Runs(s, "open", "clear") /\ UNCHANGED <<file, tmp>>
  /\ UNCHANGED <<up, crashes, now, memory, at, hits, fetched, barren>>

(* The document is written; whether all of it got there is not looked at.  *)
Write(s) ==
  /\ Runs(s, "write", "rename")
  /\ \E b \in {"whole", "short"} : tmp' = [hits[s] EXCEPT !.body = b]
  /\ UNCHANGED <<up, crashes, now, memory, at, hits, fetched, barren, file>>

(* The rename replaces the file at once; if it fails the temporary goes.   *)
Rename(s) ==
  /\ Runs(s, "rename", "clear")
  /\ tmp' = NoFile /\ file' \in {tmp, file}
  /\ UNCHANGED <<up, crashes, now, memory, at, hits, fetched, barren>>

Clear(s) ==
  /\ Runs(s, "clear", "none")
  /\ refreshing' = FALSE
  /\ UNCHANGED <<up, crashes, now, snapshot, lastRefresh, handle, at, hits,
                 fetched, barren, disk>>
-----------------------------------------------------------------------------
(* The world: time passes, the process dies and is started again.          *)
Tick ==
  /\ up /\ now < MaxTime /\ now' = now + 1
  /\ UNCHANGED <<up, crashes, memory, at, thread, hits, fetched, barren, disk>>

Crash ==
  /\ up /\ crashes < MaxCrashes
  /\ up' = FALSE /\ crashes' = crashes + 1
  /\ UNCHANGED <<now, memory, at, thread, hits, fetched, barren, disk>>

Restart ==
  /\ ~up /\ up' = TRUE
  /\ snapshot' = Loaded(file).version /\ lastRefresh' = Loaded(file).when
  /\ refreshing' = FALSE /\ handle' = None
  /\ at' = [s \in Starter |-> "idle"]
  /\ thread' = [s \in Starter |-> "none"] /\ hits' = [s \in Starter |-> NoFile]
  /\ UNCHANGED <<crashes, now, fetched, barren, disk>>

StarterStep(s) == Claim(s) \/ Reap(s) \/ Spawn(s) \/ Assign(s)
ThreadStep(s)  == \/ Fetch(s) \/ Publish(s) \/ Open(s) \/ Write(s) \/ Rename(s)
                  \/ Clear(s)
Next == \/ \E s \in Starter : \/ \E force \in BOOLEAN : Check(s, force)
                              \/ StarterStep(s) \/ ThreadStep(s)
        \/ Tick \/ Crash \/ Restart
Spec == Init /\ [][Next]_vars

(* Threads run when they can, and a fetch ends (curl has a timeout).       *)
FairSpec == Spec /\ \A s \in Starter : /\ WF_vars(StarterStep(s))
                                       /\ WF_vars(ThreadStep(s))
-----------------------------------------------------------------------------
Version == 0..MaxFetches
FileType == [version : Version, when : 0..MaxTime,
             body : {"part", "short", "whole"}]

TypeOK ==
  /\ {up, refreshing} \subseteq BOOLEAN
  /\ crashes \in 0..MaxCrashes /\ now \in 0..MaxTime
  /\ snapshot \in Version /\ fetched \in Version /\ barren \subseteq Version
  /\ lastRefresh \in 0..MaxTime
  /\ handle \in Starter \cup {None}
  /\ at \in [Starter -> {"idle", "claim", "reap", "spawn", "assign"}]
  /\ thread \in [Starter -> Working \cup {"none"}]
  /\ hits \in [Starter -> FileType] /\ {file, tmp} \subseteq FileType

(* However many requests find the catalog stale at once, one refresh runs, *)
(* from the moment its starter has claimed it to the end of its save: HF   *)
(* is asked once and the temporary has one writer ("one at a time",        *)
(* models_dashboard.cpp:2012).                                             *)
Busy(s) == at[s] \in {"reap", "spawn"} \/ thread[s] \in Working
OneRefreshAtATime == \A s, t \in Starter : Busy(s) /\ Busy(t) => s = t

(* The flag is up exactly while somebody will take it down: no outcome of  *)
(* a refresh leaves the catalog unable to refresh until the next start.    *)
RefreshingIsOwned == up => (refreshing <=> \E s \in Starter : Busy(s))

(* Wherever the process dies, the file the next start will load is not one *)
(* that was still being written.  (It may be one a full disk cut short:    *)
(* nobody looks at the result of the write.)                               *)
CatalogFileIsFinished == file.body # "part"

(* One refresh, owned, and a file that can be loaded.                      *)
RefreshIsSafe == /\ TypeOK /\ OneRefreshAtATime /\ RefreshingIsOwned
                 /\ CatalogFileIsFinished

(* The file never goes back to an older answer, and a next start would     *)
(* never load what has not been published.                                 *)
DiskFollowsMemory ==
  [][ /\ file'.version >= file.version
      /\ up' => file'.version <= snapshot' \/ ~Loadable(file)' ]_vars

(* A refresh that was begun ends, unless the process does.                 *)
RefreshEnds == refreshing ~> (~refreshing \/ ~up)
=============================================================================
