--------------------------- MODULE ModelDownloads ---------------------------
(***************************************************************************)
(* The download manager of ModelsEngine (src/models_dashboard.cpp):        *)
(* HTTP threads ask for a set of shards, or for one file; one download     *)
(* runs at a time, on a thread of its own, shard after shard, each written *)
(* to a temporary and renamed.  A client may cancel it, a model file may   *)
(* be deleted, the process may die.                                        *)
(*                                                                         *)
(* A download is the number start_download returns, so worker[d] is the    *)
(* thread of download d; handle is the one worker_ joins.  A file is its   *)
(* position in the sorted list of shards; its body names the download that *)
(* wrote it.                                                               *)
(***************************************************************************)
EXTENDS Integers, FiniteSets, FiniteSetsExt

CONSTANTS
  Caller,        \* HTTP threads that may start a download
  None,          \* nobody
  Shards,        \* the files of the repository are 1..Shards
  MaxDownloads,  \* bound of the model: downloads started
  MaxDeletes,    \* bound of the model: files deleted by a client
  MaxCrashes     \* bound of the model: deaths of the process

ASSUME DownloadsAssumption ==
  /\ None \notin Caller
  /\ {Shards, MaxDownloads, MaxDeletes, MaxCrashes} \subseteq Nat

File     == 1..Shards
Download == 1..MaxDownloads

VARIABLES
  up, crashes,   \* the process runs; how often it has died
  starter,       \* who holds dl_start_mu_
  at,            \* where each caller is in start_download
  status,        \* st_: the download it is about, and its state
  cancel,        \* cancel_
  handle,        \* worker_: the download whose thread it joins, 0 if none
  started,       \* next_id_
  wanted,        \* the files of each download
  worker,        \* where the thread of each download is
  todo,          \* the files it still has to fetch
  outcome,       \* ok and err of the thread: "ok", "cancelled" or "failed"
  part, dest,    \* the temporary and the file: the download that wrote it,
                 \* 0 if there is none, and whether it is whole
  deletes,       \* files deleted so far
  asked, lost    \* history: downloads a client cancelled while they ran;
                 \* files deleted since the last download began

request == <<starter, at>>
thread  == <<worker, todo, outcome>>
disk    == <<part, dest>>
history == <<deletes, asked, lost>>
vars    == <<up, crashes, request, status, cancel, handle, started, wanted,
             thread, disk, history>>

Body(d, b) == [by |-> d, body |-> b]
Absent     == Body(0, "none")
Shard(d)   == Min(todo[d])
Running(d) == worker[d] \in {"next", "transfer", "rename", "finish"}

Init ==
  /\ up = TRUE /\ crashes = 0
  /\ starter = None /\ at = [c \in Caller |-> "idle"]
  /\ status = [id |-> 0, state |-> "idle"] /\ cancel = FALSE
  /\ handle = 0 /\ started = 0 /\ wanted = [d \in Download |-> {}]
  /\ worker = [d \in Download |-> "none"] /\ todo = [d \in Download |-> {}]
  /\ outcome = [d \in Download |-> "ok"]
  /\ part = [f \in File |-> Absent]
  /\ dest \in [File -> {Absent, Body(0, "whole")}]
  /\ deletes = 0 /\ asked = {} /\ lost = {}
-----------------------------------------------------------------------------
(* start_download and start_download_file, under dl_start_mu_.  A download *)
(* that runs refuses the caller at once.                                   *)
AlwaysFree == TRUE                                                \* mutant
Free       == starter = None
Lock(c) ==
  /\ up /\ at[c] = "idle" /\ Free
  /\ status.state # "downloading" /\ started < MaxDownloads
  /\ starter' = c /\ at' = [at EXCEPT ![c] = "list"]
  /\ UNCHANGED <<up, crashes, status, cancel, handle, started, wanted, thread,
                 disk, history>>

(* The listing may fail, name no such file, or the disk be too full.       *)
Refuse(c) ==
  /\ up /\ at[c] = "list"
  /\ starter' = None /\ at' = [at EXCEPT ![c] = "idle"]
  /\ UNCHANGED <<up, crashes, status, cancel, handle, started, wanted, thread,
                 disk, history>>

(* The whole set or one file of it, none of them on the disk; the previous *)
(* thread, if there is one, is joined.                                     *)
NonePresent(files) == \A f \in files : dest[f] = Absent
Choose(c, files) ==
  /\ up /\ at[c] = "list" /\ NonePresent(files) /\ started < MaxDownloads
  /\ handle # 0 => worker[handle] = "none"
  /\ at' = [at EXCEPT ![c] = "reset"] /\ handle' = 0
  /\ wanted' = [wanted EXCEPT ![started + 1] = files]
  /\ UNCHANGED <<up, crashes, starter, status, cancel, started, thread, disk,
                 history>>

(* Under dl_mu_: the flag, the number and the status of the new download.  *)
KeepCancel == cancel                                              \* mutant
NoCancel   == FALSE
Reset(c) ==
  /\ up /\ at[c] = "reset" /\ started < MaxDownloads
  /\ at' = [at EXCEPT ![c] = "spawn"]
  /\ cancel' = NoCancel /\ started' = started + 1
  /\ status' = [id |-> started + 1, state |-> "downloading"]
  /\ lost' = {}
  /\ UNCHANGED <<up, crashes, starter, handle, wanted, thread, disk, deletes,
                 asked>>

Spawn(c) ==
  /\ up /\ at[c] = "spawn"
  /\ handle' = started /\ starter' = None /\ at' = [at EXCEPT ![c] = "idle"]
  /\ worker' = [worker EXCEPT ![started] = "next"]
  /\ todo' = [todo EXCEPT ![started] = wanted[started]]
  /\ UNCHANGED <<up, crashes, status, cancel, started, wanted, outcome, disk,
                 history>>
-----------------------------------------------------------------------------
(* download_worker.                                                        *)
Goes(d, from, to) ==
  up /\ worker[d] = from /\ worker' = [worker EXCEPT ![d] = to]
Ends(d, from, how) ==
  /\ Goes(d, from, "finish")
  /\ outcome' = [outcome EXCEPT ![d] = how] /\ UNCHANGED todo
Temporary(d, body) == part' = [part EXCEPT ![Shard(d)] = body]

(* The top of the loop: no shard left, the flag, or the next temporary,    *)
(* which is truncated.  Without a handle from curl it is left there.       *)
NextShard(d) ==
  /\ IF todo[d] = {} THEN Ends(d, "next", "ok") /\ UNCHANGED part
     ELSE IF cancel THEN Ends(d, "next", "cancelled") /\ UNCHANGED part
     ELSE \/ /\ Goes(d, "next", "transfer") /\ UNCHANGED <<todo, outcome>>
             /\ Temporary(d, Body(d, "partial"))
          \/ /\ Ends(d, "next", "failed")
             /\ UNCHANGED part \/ Temporary(d, Body(d, "partial"))
  /\ UNCHANGED <<up, crashes, request, status, cancel, handle, started, wanted,
                 dest, history>>

(* xfer_cb, called about once a second even when nothing arrives.          *)
LooksAway   == FALSE                                              \* mutant
HeedsCancel == cancel
Abort(d) ==
  /\ HeedsCancel /\ Ends(d, "transfer", "cancelled") /\ Temporary(d, Absent)
  /\ UNCHANGED <<up, crashes, request, status, cancel, handle, started, wanted,
                 dest, history>>

(* curl or the server reports an error.                                    *)
SkipShard(d) ==                                                   \* mutant
  /\ Goes(d, "transfer", "next") /\ Temporary(d, Absent)
  /\ todo' = [todo EXCEPT ![d] = @ \ {Shard(d)}] /\ UNCHANGED outcome
GiveUp(d) == Ends(d, "transfer", "failed") /\ Temporary(d, Absent)
Fail(d) ==
  /\ GiveUp(d)
  /\ UNCHANGED <<up, crashes, request, status, cancel, handle, started, wanted,
                 dest, history>>

(* The transfer ends; what fclose cannot flush is not looked at, so the    *)
(* temporary may be short.                                                 *)
Transfer(d) ==
  /\ Goes(d, "transfer", "rename")
  /\ \E b \in {"whole", "short"} : Temporary(d, Body(d, b))
  /\ UNCHANGED <<up, crashes, request, status, cancel, handle, started, wanted,
                 todo, outcome, dest, history>>

(* The rename replaces the file at once; if it fails the temporary goes.   *)
Rename(d) ==
  /\ \/ /\ Goes(d, "rename", "next")
        /\ dest' = [dest EXCEPT ![Shard(d)] = part[Shard(d)]]
        /\ todo' = [todo EXCEPT ![d] = @ \ {Shard(d)}] /\ UNCHANGED outcome
     \/ Ends(d, "rename", "failed") /\ UNCHANGED dest
  /\ Temporary(d, Absent)
  /\ UNCHANGED <<up, crashes, request, status, cancel, handle, started, wanted,
                 history>>

(* The last words of the thread, under dl_mu_.                             *)
Shown(how) == CASE how = "ok" -> "done" [] how = "cancelled" -> "idle"
                [] how = "failed" -> "error"
Finish(d) ==
  /\ Goes(d, "finish", "none")
  /\ status' = [status EXCEPT !.state = Shown(outcome[d])]
  /\ UNCHANGED <<up, crashes, request, cancel, handle, started, wanted, todo,
                 outcome, disk, history>>
-----------------------------------------------------------------------------
(* The clients and the world.                                              *)
Cancel ==
  /\ up /\ cancel' = TRUE
  /\ asked' = IF status.state = "downloading" THEN asked \cup {status.id}
              ELSE asked
  /\ UNCHANGED <<up, crashes, request, status, handle, started, wanted, thread,
                 disk, deletes, lost>>

(* delete_local takes model files only, never a temporary.                 *)
Delete(f) ==
  /\ up /\ dest[f] # Absent /\ deletes < MaxDeletes
  /\ dest' = [dest EXCEPT ![f] = Absent]
  /\ deletes' = deletes + 1 /\ lost' = lost \cup {f}
  /\ UNCHANGED <<up, crashes, request, status, cancel, handle, started, wanted,
                 thread, part, asked>>

Crash ==
  /\ up /\ crashes < MaxCrashes
  /\ up' = FALSE /\ crashes' = crashes + 1
  /\ UNCHANGED <<request, status, cancel, handle, started, wanted, thread, disk,
                 history>>

(* The numbers begin again in the code; here they go on, to tell the       *)
(* downloads of two lives apart.                                           *)
Restart ==
  /\ ~up /\ up' = TRUE
  /\ starter' = None /\ at' = [c \in Caller |-> "idle"]
  /\ status' = [id |-> 0, state |-> "idle"] /\ cancel' = FALSE /\ handle' = 0
  /\ worker' = [d \in Download |-> "none"] /\ todo' = [d \in Download |-> {}]
  /\ outcome' = [d \in Download |-> "ok"]
  /\ UNCHANGED <<crashes, started, wanted, disk, history>>

CallerStep(c) == \/ Lock(c) \/ Refuse(c) \/ Reset(c) \/ Spawn(c)
                 \/ \E files \in {File} \cup {{f} : f \in File} : Choose(c, files)
WorkerStep(d) == NextShard(d) \/ Abort(d) \/ Rename(d) \/ Finish(d)
Next == \/ \E c \in Caller : CallerStep(c)
        \/ \E d \in Download : WorkerStep(d) \/ Transfer(d) \/ Fail(d)
        \/ \E f \in File : Delete(f)
        \/ Cancel \/ Crash \/ Restart
Spec == Init /\ [][Next]_vars

(* A thread runs when it can, and curl calls xfer_cb; nothing makes a      *)
(* transfer end by itself, for the code sets no timeout on it.             *)
FairSpec == Spec /\ \A c \in Caller : WF_vars(Spawn(c))
                 /\ \A d \in Download : WF_vars(WorkerStep(d))
-----------------------------------------------------------------------------
FileType == [by : 0..MaxDownloads, body : {"none", "partial", "short", "whole"}]

TypeOK ==
  /\ {up, cancel} \subseteq BOOLEAN /\ crashes \in 0..MaxCrashes
  /\ starter \in Caller \cup {None}
  /\ at \in [Caller -> {"idle", "list", "reset", "spawn"}]
  /\ status \in [id : 0..MaxDownloads,
                 state : {"idle", "downloading", "done", "error"}]
  /\ {handle, started} \subseteq 0..MaxDownloads
  /\ wanted \in [Download -> SUBSET File] /\ todo \in [Download -> SUBSET File]
  /\ worker \in [Download -> {"none", "next", "transfer", "rename", "finish"}]
  /\ outcome \in [Download -> {"ok", "cancelled", "failed"}]
  /\ part \in [File -> FileType] /\ dest \in [File -> FileType]
  /\ deletes \in 0..MaxDeletes /\ asked \subseteq Download /\ lost \subseteq File

(* However many clients ask at once, one thread downloads, so that the     *)
(* temporaries and the status have one writer.                             *)
OneDownloadAtATime == \A d, e \in Download : Running(d) /\ Running(e) => d = e

(* The status says "downloading" exactly while a thread will change it: no *)
(* outcome leaves the manager refusing every download until a restart.     *)
StatusTellsTheWorker ==
  up => (status.state = "downloading" <=>
           (\E d \in Download : Running(d)) \/ (\E c \in Caller : at[c] = "spawn"))

(* Wherever a download is cancelled, fails or dies, no file under a final  *)
(* name is one that was still being transferred.                           *)
FinalFilesAreFinished == \A f \in File : dest[f].body # "partial"

(* One download, shown for what it is, and no torso under a final name.    *)
DownloadsAreSafe == /\ TypeOK /\ OneDownloadAtATime /\ StatusTellsTheWorker
                    /\ FinalFilesAreFinished

(* A download reported as done has brought every file it was asked for,    *)
(* but for those a client has deleted since it began.                      *)
DoneHasArrived ==
  up /\ status.state = "done" =>
    \A f \in wanted[status.id] \ lost : dest[f].by = status.id

(* Only a cancel issued while a download ran stops it: one that came late  *)
(* for the download before does not.                                       *)
CancelIsOwn == \A d \in Download : outcome[d] = "cancelled" => d \in asked

(* A cancelled download ends, even if its transfer never would.            *)
CancelStops ==
  \A d \in Download :
    (d \in asked) ~> ~(up /\ status.state = "downloading" /\ status.id = d)
=============================================================================
