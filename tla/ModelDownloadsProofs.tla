------------------------- MODULE ModelDownloadsProofs -------------------------
(***************************************************************************)
(* Proofs about ModelDownloads: one download at a time, shown for what it  *)
(* is, stopped only by its own cancel, and done only when every file has   *)
(* come, for any number of clients, files, downloads and deaths.           *)
(***************************************************************************)
EXTENDS ModelDownloads, TLAPS

(* Whoever is in start_download holds dl_start_mu_, and no download is on  *)
(* before it says so.                                                      *)
StarterAlone ==
  /\ \A c \in Caller : at[c] # "idle" => starter = c
  /\ up /\ starter # None => at[starter] # "idle"
  /\ up => \A c \in Caller : at[c] \in {"list", "reset"} => status.state # "downloading"
  /\ up => \A c \in Caller : at[c] = "spawn" =>
       status.id = started /\ started > 0 /\ \A d \in Download : ~Running(d)
  /\ status.id <= started

(* A thread that runs is the one the status is about.                      *)
RunsAsShown ==
  up => \A d \in Download : Running(d) =>
    status.id = d /\ \A c \in Caller : at[c] # "spawn"

(* A cancel that is up while a download is on was meant for it.            *)
CancelIsMeant ==
  up /\ cancel /\ status.state = "downloading" => status.id \in asked

(* What the thread has fetched is there, and what it is about to rename is *)
(* its own and finished.                                                   *)
HasFetched ==
  \A d \in Download :
    /\ up /\ Running(d) =>
         \A f \in wanted[d] \ (todo[d] \cup lost) : dest[f].by = d
    /\ worker[d] = "rename" =>
         \A f \in File : f = Shard(d) => part[f].by = d /\ part[f].body # "partial"
    /\ worker[d] = "finish" /\ outcome[d] = "ok" => todo[d] = {}

DownloadsInv == /\ DownloadsAreSafe /\ StarterAlone /\ RunsAsShown /\ CancelIsMeant
                /\ HasFetched /\ DoneHasArrived /\ CancelIsOwn

LEMMA DownloadsInit == DownloadsAssumption /\ Init => DownloadsInv
<1> SUFFICES ASSUME DownloadsAssumption, Init PROVE DownloadsInv
  OBVIOUS
<1>1. /\ Absent \in FileType /\ Body(0, "whole") \in FileType
      /\ Absent.body = "none" /\ Body(0, "whole").body = "whole"
  BY DEF DownloadsAssumption, Absent, Body, FileType
<1>2. /\ part \in [File -> FileType] /\ dest \in [File -> FileType]
      /\ \A f \in File : dest[f].body # "partial"
  BY <1>1 DEF Init
<1>3. status \in [id : 0..MaxDownloads, state : {"idle", "downloading", "done", "error"}]
  BY DEF Init, DownloadsAssumption
<1>4. \A d \in Download : worker[d] = "none" /\ outcome[d] = "ok" /\ ~Running(d)
  BY DEF Init, Running
<1>5. \A c \in Caller : at[c] = "idle"
  BY DEF Init
<1>6. TypeOK
  <2>1. {handle, started} \subseteq 0..MaxDownloads /\ crashes \in 0..MaxCrashes
        /\ deletes \in 0..MaxDeletes
    BY DEF Init, DownloadsAssumption
  <2>2. {up, cancel} \subseteq BOOLEAN
    BY DEF Init
  <2>3. QED
    BY <1>2, <1>3, <2>1, <2>2 DEF Init, TypeOK
<1>7. DownloadsAreSafe
  BY <1>2, <1>4, <1>5, <1>6 DEF Init, DownloadsAreSafe, OneDownloadAtATime,
     StatusTellsTheWorker, FinalFilesAreFinished
<1>8. QED
  BY <1>4, <1>5, <1>7 DEF Init, DownloadsInv, StarterAlone, RunsAsShown, CancelIsMeant,
     HasFetched, DoneHasArrived, CancelIsOwn
-----------------------------------------------------------------------------
(* start_download.  While a caller lists or resets nothing runs.           *)
LEMMA NothingRuns ==
  ASSUME DownloadsInv, NEW c \in Caller, up, at[c] \in {"list", "reset", "spawn"}
  PROVE  /\ \A d \in Download : ~Running(d)
         /\ starter = c /\ \A b \in Caller \ {c} : at[b] = "idle"
<1>1. starter = c /\ \A b \in Caller \ {c} : at[b] = "idle"
  BY DEF DownloadsInv, StarterAlone
<1>2. \A d \in Download : ~Running(d)
  BY DEF DownloadsInv, StarterAlone, DownloadsAreSafe, StatusTellsTheWorker
<1>3. QED
  BY <1>1, <1>2

(* A step of a caller that starts nothing.                                 *)
LEMMA CallerMoves ==
  ASSUME DownloadsInv, TypeOK', StarterAlone', up, up',
         UNCHANGED <<status, cancel, started, thread, disk, history>>,
         \A b \in Caller : at'[b] = "spawn" <=> at[b] = "spawn",
         \A d \in Download : Running(d) => wanted'[d] = wanted[d],
         up /\ status.state = "done" => wanted'[status.id] = wanted[status.id]
  PROVE  DownloadsInv'
<1> USE DEF thread, disk, history
<1>1. \A d \in Download : Running(d)' <=> Running(d)
  BY DEF Running
<1>2. DownloadsAreSafe'
  BY <1>1 DEF DownloadsInv, DownloadsAreSafe, OneDownloadAtATime, StatusTellsTheWorker,
     FinalFilesAreFinished
<1>3. RunsAsShown' /\ CancelIsMeant' /\ DoneHasArrived' /\ CancelIsOwn'
  BY <1>1 DEF DownloadsInv, RunsAsShown, CancelIsMeant, DoneHasArrived, CancelIsOwn
<1>4. HasFetched'
  BY <1>1 DEF DownloadsInv, HasFetched, Shard
<1>5. QED
  BY <1>2, <1>3, <1>4 DEF DownloadsInv

LEMMA CallerKeeps ==
  ASSUME DownloadsAssumption, DownloadsInv, NEW c \in Caller, CallerStep(c)
  PROVE  DownloadsInv'
<1>t. TypeOK /\ StarterAlone /\ MaxDownloads \in Nat /\ None \notin Caller
  BY DEF DownloadsInv, DownloadsAreSafe, DownloadsAssumption
<1>1. CASE Lock(c)
  <2>1. TypeOK'
    BY <1>t, <1>1 DEF Lock, TypeOK, thread, disk, history
  <2>2. \A b \in Caller : at[b] = "idle"
    BY <1>t, <1>1 DEF Lock, Free, StarterAlone
  <2>3. /\ at'[c] = "list" /\ \A b \in Caller \ {c} : at'[b] = "idle"
        /\ starter' = c /\ status.state # "downloading"
        /\ UNCHANGED <<up, status, started, worker>>
    BY <1>t, <1>1, <2>2 DEF Lock, TypeOK, thread
  <2>4. StarterAlone'
    BY <1>t, <2>3 DEF StarterAlone
  <2>5. QED
    BY <1>1, <2>1, <2>2, <2>3, <2>4, CallerMoves DEF Lock
<1>2. CASE Refuse(c)
  <2>1. TypeOK'
    BY <1>t, <1>2 DEF Refuse, TypeOK, thread, disk, history
  <2>2. /\ \A b \in Caller : at'[b] = "idle"
        /\ \A b \in Caller : at[b] # "spawn"
        /\ starter' = None
        /\ UNCHANGED <<up, status, started, worker>>
    BY <1>t, <1>2, NothingRuns DEF Refuse, TypeOK, thread
  <2>3. StarterAlone'
    BY <1>t, <2>2 DEF StarterAlone
  <2>4. QED
    BY <1>2, <2>1, <2>2, <2>3, CallerMoves DEF Refuse
<1>3. ASSUME NEW files \in {File} \cup {{f} : f \in File}, Choose(c, files)
      PROVE  DownloadsInv'
  <2>1. /\ up /\ at[c] = "list" /\ at' = [at EXCEPT ![c] = "reset"] /\ handle' = 0
        /\ started < MaxDownloads
        /\ wanted' = [wanted EXCEPT ![started + 1] = files]
        /\ UNCHANGED <<up, crashes, starter, status, cancel, started, worker, todo,
                       outcome, part, dest, deletes, asked, lost>>
    BY <1>3 DEF Choose, thread, disk, history
  <2>2. TypeOK'
    <3>1. files \in SUBSET File
      BY <1>3
    <3>2. wanted' \in [Download -> SUBSET File]
      BY <1>t, <2>1, <3>1 DEF TypeOK
    <3>3. handle' \in 0..MaxDownloads
      BY <1>t, <2>1
    <3>4. at' \in [Caller -> {"idle", "list", "reset", "spawn"}]
      BY <1>t, <2>1 DEF TypeOK
    <3>5. QED
      BY <1>t, <2>1, <3>2, <3>3, <3>4 DEF TypeOK
  <2>3. /\ starter = c /\ at'[c] = "reset"
        /\ \A b \in Caller \ {c} : at'[b] = "idle" /\ at[b] = "idle"
        /\ \A d \in Download : ~Running(d)
    BY <1>t, <2>1, NothingRuns DEF TypeOK
  <2>4. StarterAlone'
    BY <1>t, <2>1, <2>3 DEF StarterAlone
  <2>5. wanted'[status.id] = wanted[status.id]
    BY <1>t, <2>1 DEF TypeOK, StarterAlone
  <2>6. QED
    BY <2>1, <2>2, <2>3, <2>4, <2>5, CallerMoves DEF thread, disk, history
<1>4. CASE Reset(c)
  <2>1. /\ up /\ at[c] = "reset" /\ at' = [at EXCEPT ![c] = "spawn"]
        /\ started < MaxDownloads /\ started' = started + 1 /\ cancel' = FALSE
        /\ status' = [id |-> started + 1, state |-> "downloading"] /\ lost' = {}
        /\ UNCHANGED <<up, crashes, starter, handle, wanted, worker, todo, outcome,
                       part, dest, deletes, asked>>
    BY <1>4 DEF Reset, NoCancel, thread, disk
  <2>2. /\ starter = c /\ at'[c] = "spawn"
        /\ \A b \in Caller \ {c} : at'[b] = "idle"
        /\ \A d \in Download : ~Running(d) /\ ~Running(d)'
    BY <1>t, <2>1, NothingRuns DEF TypeOK, Running
  <2>3. started + 1 \in 1..MaxDownloads /\ started \in Nat
    BY <1>t, <2>1 DEF TypeOK
  <2>4. TypeOK'
    <3>1. status' \in [id : 0..MaxDownloads,
                       state : {"idle", "downloading", "done", "error"}]
      BY <2>1, <2>3
    <3>2. started' \in 0..MaxDownloads
      BY <1>t, <2>1, <2>3
    <3>3. cancel' \in BOOLEAN /\ lost' \subseteq File
      BY <2>1
    <3>4. at' \in [Caller -> {"idle", "list", "reset", "spawn"}]
      BY <1>t, <2>1 DEF TypeOK
    <3>5. QED
      BY <1>t, <2>1, <3>1, <3>2, <3>3, <3>4 DEF TypeOK
  <2>5. StarterAlone'
    BY <2>1, <2>2, <2>3 DEF StarterAlone
  <2>6. DownloadsAreSafe'
    BY <2>1, <2>2, <2>4 DEF DownloadsInv, DownloadsAreSafe, OneDownloadAtATime,
       StatusTellsTheWorker, FinalFilesAreFinished
  <2>7. RunsAsShown' /\ CancelIsMeant' /\ DoneHasArrived' /\ CancelIsOwn'
    BY <2>1, <2>2 DEF DownloadsInv, RunsAsShown, CancelIsMeant, DoneHasArrived,
       CancelIsOwn
  <2>8. HasFetched'
    BY <2>1, <2>2 DEF DownloadsInv, HasFetched, Shard
  <2>9. QED
    BY <2>5, <2>6, <2>7, <2>8 DEF DownloadsInv
<1>5. CASE Spawn(c)
  <2>1. /\ up /\ at[c] = "spawn" /\ at' = [at EXCEPT ![c] = "idle"]
        /\ handle' = started /\ starter' = None
        /\ worker' = [worker EXCEPT ![started] = "next"]
        /\ todo' = [todo EXCEPT ![started] = wanted[started]]
        /\ UNCHANGED <<up, crashes, status, cancel, started, wanted, outcome, part,
                       dest, deletes, asked, lost>>
    BY <1>5 DEF Spawn, disk, history
  <2>2. /\ started \in Download /\ status.id = started
        /\ status.state = "downloading"
    BY <1>t, <2>1 DEF StarterAlone, TypeOK, Download, DownloadsInv, DownloadsAreSafe,
       StatusTellsTheWorker
  <2>3. \A b \in Caller : at'[b] = "idle"
    BY <1>t, <2>1, NothingRuns DEF TypeOK
  <2>4. /\ worker'[started] = "next" /\ todo'[started] = wanted[started]
        /\ \A d \in Download \ {started} :
             worker'[d] = worker[d] /\ todo'[d] = todo[d]
    BY <1>t, <2>1, <2>2 DEF TypeOK
  <2>5. Running(started)' /\ \A d \in Download \ {started} : ~Running(d)'
    BY <2>1, <2>4, NothingRuns DEF Running
  <2>6. TypeOK'
    BY <1>t, <2>1, <2>2 DEF TypeOK
  <2>7. StarterAlone'
    BY <1>t, <2>1, <2>3 DEF StarterAlone
  <2>8. DownloadsAreSafe'
    BY <2>1, <2>2, <2>3, <2>5, <2>6 DEF DownloadsInv, DownloadsAreSafe,
       OneDownloadAtATime, StatusTellsTheWorker, FinalFilesAreFinished
  <2>9. RunsAsShown' /\ CancelIsMeant' /\ DoneHasArrived' /\ CancelIsOwn'
    BY <2>1, <2>2, <2>3, <2>5 DEF DownloadsInv, RunsAsShown, CancelIsMeant,
       DoneHasArrived, CancelIsOwn
  <2>10. HasFetched'
    <3>1. \A d \in Download \ {started} : Shard(d)' = Shard(d)
      BY <2>4 DEF Shard
    <3>2. QED
      BY <2>1, <2>4, <2>5, <3>1 DEF DownloadsInv, HasFetched
  <2>11. QED
    BY <2>7, <2>8, <2>9, <2>10 DEF DownloadsInv
<1>6. QED
  BY <1>1, <1>2, <1>3, <1>4, <1>5 DEF CallerStep
-----------------------------------------------------------------------------
(* download_worker.  Beside a thread that runs there is no other, and      *)
(* nobody is in start_download.                                            *)
LEMMA RunsAlone ==
  ASSUME DownloadsInv, NEW d \in Download, up, Running(d)
  PROVE  /\ status.id = d /\ status.state = "downloading"
         /\ \A e \in Download \ {d} : ~Running(e)
         /\ \A c \in Caller : at[c] = "idle"
<1>1. status.id = d /\ status.state = "downloading"
  BY DEF DownloadsInv, DownloadsAreSafe, RunsAsShown, StatusTellsTheWorker
<1>2. \A e \in Download \ {d} : ~Running(e)
  BY DEF DownloadsInv, DownloadsAreSafe, OneDownloadAtATime
<1>3. \A c \in Caller : at[c] = "idle"
  BY <1>1 DEF DownloadsInv, DownloadsAreSafe, TypeOK, RunsAsShown, StarterAlone
<1>4. QED
  BY <1>1, <1>2, <1>3

(* A step of the thread that leaves it running keeps the invariant if what *)
(* it has fetched, what it will rename and why it ends are right.          *)
LEMMA WorkerMoves ==
  ASSUME DownloadsInv, NEW d \in Download, up, Running(d), Running(d)', TypeOK',
         UNCHANGED <<up, request, status, cancel, started, wanted, history>>,
         \A e \in Download \ {d} : worker'[e] = worker[e] /\ outcome'[e] = outcome[e],
         \A f \in File : dest'[f].body # "partial",
         \A f \in wanted[d] \ (todo'[d] \cup lost) : dest'[f].by = d,
         worker'[d] = "rename" => \A f \in File :
           f = Shard(d)' => part'[f].by = d /\ part'[f].body # "partial",
         worker'[d] = "finish" /\ outcome'[d] = "ok" => todo'[d] = {},
         outcome'[d] = "cancelled" => d \in asked
  PROVE  DownloadsInv'
<1>1. UNCHANGED <<up, starter, at, status, cancel, started, wanted, asked, lost>>
  BY DEF request, history
<1>2. \A e \in Download : Running(e)' <=> Running(e)
  BY DEF Running
<1>3. \A e \in Download \ {d} : ~Running(e)
  BY RunsAlone
<1>4. DownloadsAreSafe'
  BY <1>1, <1>2 DEF DownloadsInv, DownloadsAreSafe, OneDownloadAtATime,
     StatusTellsTheWorker, FinalFilesAreFinished
<1>5. StarterAlone' /\ RunsAsShown' /\ CancelIsMeant'
  BY <1>1, <1>2 DEF DownloadsInv, StarterAlone, RunsAsShown, CancelIsMeant
<1>6. DoneHasArrived'
  BY <1>1, RunsAlone DEF DoneHasArrived
<1>7. CancelIsOwn'
  BY <1>1 DEF DownloadsInv, CancelIsOwn
<1>8. HasFetched'
  BY <1>1, <1>2, <1>3 DEF HasFetched, Running
<1>9. QED
  BY <1>4, <1>5, <1>6, <1>7, <1>8 DEF DownloadsInv

(* Whatever is written over a shard is a file, and a thread that ends does *)
(* not touch the others.                                                   *)
LEMMA BodiesAreFiles ==
  ASSUME DownloadsAssumption, NEW d \in Download
  PROVE  /\ Absent \in FileType
         /\ \A b \in {"partial", "short", "whole"} : Body(d, b) \in FileType
BY DEF DownloadsAssumption, Download, Absent, Body, FileType

LEMMA Typed ==
  ASSUME DownloadsInv,
         part' \in [File -> FileType], dest' \in [File -> FileType],
         worker' \in [Download -> {"none", "next", "transfer", "rename", "finish"}],
         todo' \in [Download -> SUBSET File],
         outcome' \in [Download -> {"ok", "cancelled", "failed"}],
         UNCHANGED <<up, crashes, request, status, cancel, handle, started, wanted,
                     history>>
  PROVE  TypeOK'
BY DEF DownloadsInv, DownloadsAreSafe, TypeOK, request, history

LEMMA EndsWell ==
  ASSUME DownloadsInv, NEW d \in Download,
         NEW from \in {"next", "transfer", "rename"},
         NEW how \in {"ok", "cancelled", "failed"}, Ends(d, from, how)
  PROVE  /\ up /\ Running(d) /\ Running(d)' /\ todo' = todo
         /\ worker[d] = from /\ worker'[d] = "finish" /\ outcome'[d] = how
         /\ \A e \in Download \ {d} : worker'[e] = worker[e] /\ outcome'[e] = outcome[e]
         /\ worker' \in [Download -> {"none", "next", "transfer", "rename", "finish"}]
         /\ outcome' \in [Download -> {"ok", "cancelled", "failed"}]
BY DEF DownloadsInv, DownloadsAreSafe, TypeOK, Ends, Goes, Running

LEMMA GoesWell ==
  ASSUME DownloadsInv, NEW d \in Download,
         NEW from \in {"next", "transfer", "rename"},
         NEW to \in {"next", "transfer", "rename"}, Goes(d, from, to)
  PROVE  /\ up /\ Running(d) /\ Running(d)' /\ worker[d] = from /\ worker'[d] = to
         /\ \A e \in Download \ {d} : worker'[e] = worker[e]
         /\ worker' \in [Download -> {"none", "next", "transfer", "rename", "finish"}]
BY DEF DownloadsInv, DownloadsAreSafe, TypeOK, Goes, Running

(* A cancel that is up is for the thread that runs.                        *)
LEMMA CancelIsForRunner ==
  ASSUME DownloadsInv, NEW d \in Download, up, Running(d)
  PROVE  /\ cancel => d \in asked
         /\ \A f \in wanted[d] \ (todo[d] \cup lost) : dest[f].by = d
         /\ \A f \in File : dest[f].body # "partial"
         /\ outcome[d] = "cancelled" => d \in asked
BY RunsAlone DEF DownloadsInv, CancelIsMeant, HasFetched, DownloadsAreSafe,
   FinalFilesAreFinished, CancelIsOwn

LEMMA WorkerKeeps ==
  ASSUME DownloadsAssumption, DownloadsInv, NEW d \in Download,
         WorkerStep(d) \/ Transfer(d) \/ Fail(d)
  PROVE  DownloadsInv'
<1>t. TypeOK /\ part \in [File -> FileType] /\ dest \in [File -> FileType]
      /\ todo \in [Download -> SUBSET File]
      /\ outcome \in [Download -> {"ok", "cancelled", "failed"}]
  BY DEF DownloadsInv, DownloadsAreSafe, TypeOK
<1>e. ASSUME NEW from \in {"next", "transfer", "rename"},
             NEW how \in {"ok", "cancelled", "failed"}, Ends(d, from, how),
             how = "ok" => todo[d] = {}, how = "cancelled" => cancel,
             part' \in [File -> FileType], dest' = dest,
             UNCHANGED <<up, crashes, request, status, cancel, handle, started,
                         wanted, history>>
      PROVE  DownloadsInv'
  <2>1. /\ up /\ Running(d) /\ Running(d)' /\ todo' = todo
        /\ worker'[d] = "finish" /\ outcome'[d] = how
        /\ \A x \in Download \ {d} : worker'[x] = worker[x] /\ outcome'[x] = outcome[x]
        /\ worker' \in [Download -> {"none", "next", "transfer", "rename", "finish"}]
        /\ outcome' \in [Download -> {"ok", "cancelled", "failed"}]
    BY <1>e, EndsWell
  <2>2. TypeOK'
    BY <1>t, <1>e, <2>1, Typed
  <2>3. /\ \A f \in File : dest'[f].body # "partial"
        /\ \A f \in wanted[d] \ (todo'[d] \cup lost) : dest'[f].by = d
        /\ outcome'[d] = "cancelled" => d \in asked
    BY <1>e, <2>1, CancelIsForRunner
  <2>4. QED
    BY <1>e, <2>1, <2>2, <2>3, WorkerMoves
<1>1. CASE NextShard(d)
  <2>p. ASSUME Temporary(d, Body(d, "partial")) PROVE part' \in [File -> FileType]
    BY <1>t, <2>p, BodiesAreFiles DEF Temporary
  <2>1. /\ dest' = dest
        /\ UNCHANGED <<up, crashes, request, status, cancel, handle, started, wanted,
                       history>>
    BY <1>1 DEF NextShard
  <2>2. CASE todo[d] = {} /\ Ends(d, "next", "ok") /\ part' = part
    BY <1>t, <1>e, <2>1, <2>2
  <2>3. CASE cancel /\ Ends(d, "next", "cancelled") /\ part' = part
    BY <1>t, <1>e, <2>1, <2>3
  <2>4. CASE Ends(d, "next", "failed")
             /\ (part' = part \/ Temporary(d, Body(d, "partial")))
    BY <1>t, <1>e, <2>1, <2>4, <2>p
  <2>5. CASE /\ Goes(d, "next", "transfer") /\ todo' = todo /\ outcome' = outcome
             /\ Temporary(d, Body(d, "partial"))
    <3>1. /\ up /\ Running(d) /\ Running(d)' /\ worker'[d] = "transfer"
          /\ \A e \in Download \ {d} : worker'[e] = worker[e]
          /\ worker' \in [Download -> {"none", "next", "transfer", "rename", "finish"}]
      BY <2>5, GoesWell
    <3>2. TypeOK'
      BY <1>t, <2>1, <2>5, <2>p, <3>1, Typed
    <3>3. QED
      BY <2>1, <2>5, <3>1, <3>2, CancelIsForRunner, WorkerMoves
  <2>6. QED
    BY <1>1, <2>2, <2>3, <2>4, <2>5 DEF NextShard
<1>2. CASE Abort(d)
  <2>1. part' \in [File -> FileType]
    BY <1>t, <1>2, BodiesAreFiles DEF Abort, Temporary
  <2>2. QED
    BY <1>2, <1>e, <2>1 DEF Abort, HeedsCancel
<1>3. CASE Fail(d)
  <2>1. part' \in [File -> FileType]
    BY <1>t, <1>3, BodiesAreFiles DEF Fail, GiveUp, Temporary
  <2>2. QED
    BY <1>3, <1>e, <2>1 DEF Fail, GiveUp
<1>4. CASE Transfer(d)
  <2>1. /\ Goes(d, "transfer", "rename") /\ todo' = todo /\ outcome' = outcome
        /\ dest' = dest
        /\ UNCHANGED <<up, crashes, request, status, cancel, handle, started, wanted,
                       history>>
    BY <1>4 DEF Transfer
  <2>2. PICK b \in {"whole", "short"} : part' = [part EXCEPT ![Shard(d)] = Body(d, b)]
    BY <1>4 DEF Transfer, Temporary
  <2>3. /\ up /\ Running(d) /\ Running(d)' /\ worker'[d] = "rename"
        /\ \A e \in Download \ {d} : worker'[e] = worker[e]
        /\ worker' \in [Download -> {"none", "next", "transfer", "rename", "finish"}]
    BY <2>1, GoesWell
  <2>4. Body(d, b) \in FileType /\ Body(d, b).by = d /\ Body(d, b).body # "partial"
    BY <2>2, BodiesAreFiles DEF Body
  <2>5. TypeOK'
    BY <1>t, <2>1, <2>2, <2>3, <2>4, Typed
  <2>6. \A f \in File : f = Shard(d)' => part'[f].by = d /\ part'[f].body # "partial"
    BY <1>t, <2>1, <2>2, <2>4 DEF Shard
  <2>7. QED
    BY <2>1, <2>3, <2>5, <2>6, CancelIsForRunner, WorkerMoves
<1>5. CASE Rename(d)
  <2>1. /\ part' = [part EXCEPT ![Shard(d)] = Absent]
        /\ UNCHANGED <<up, crashes, request, status, cancel, handle, started, wanted,
                       history>>
    BY <1>5 DEF Rename, Temporary
  <2>2. part' \in [File -> FileType]
    BY <1>t, <2>1, BodiesAreFiles
  <2>3. CASE Ends(d, "rename", "failed") /\ dest' = dest
    BY <1>e, <2>1, <2>2, <2>3
  <2>4. CASE /\ Goes(d, "rename", "next") /\ outcome' = outcome
             /\ dest' = [dest EXCEPT ![Shard(d)] = part[Shard(d)]]
             /\ todo' = [todo EXCEPT ![d] = todo[d] \ {Shard(d)}]
    <3>1. /\ up /\ Running(d) /\ Running(d)' /\ worker[d] = "rename"
          /\ worker'[d] = "next" /\ \A e \in Download \ {d} : worker'[e] = worker[e]
          /\ worker' \in [Download -> {"none", "next", "transfer", "rename", "finish"}]
      BY <2>4, GoesWell
    <3>2. \A f \in File :
            f = Shard(d) => part[f].by = d /\ part[f].body # "partial"
      BY <3>1 DEF DownloadsInv, HasFetched
    <3>3. dest' \in [File -> FileType] /\ todo' \in [Download -> SUBSET File]
          /\ todo'[d] = todo[d] \ {Shard(d)}
      BY <1>t, <2>4
    <3>4. TypeOK'
      BY <1>t, <2>1, <2>2, <2>4, <3>1, <3>3, Typed
    <3>5. \A f \in File : dest'[f].body # "partial"
      BY <1>t, <2>4, <3>1, <3>2, CancelIsForRunner
    <3>6. \A f \in wanted[d] \ (todo'[d] \cup lost) : dest'[f].by = d
      <4>1. wanted[d] \subseteq File
        BY <1>t DEF TypeOK
      <4>2. QED
        BY <1>t, <2>4, <3>1, <3>2, <3>3, <4>1, CancelIsForRunner
    <3>7. QED
      BY <2>1, <2>4, <3>1, <3>4, <3>5, <3>6, CancelIsForRunner, WorkerMoves
  <2>5. QED
    BY <1>5, <2>3, <2>4 DEF Rename
<1>6. CASE Finish(d)
  <2>1. /\ up /\ worker[d] = "finish" /\ worker' = [worker EXCEPT ![d] = "none"]
        /\ status' = [status EXCEPT !.state = Shown(outcome[d])]
        /\ UNCHANGED <<up, crashes, starter, at, cancel, handle, started, wanted, todo,
                       outcome, part, dest, deletes, asked, lost>>
    BY <1>6 DEF Finish, Goes, request, disk, history
  <2>2. Running(d)
    BY <2>1 DEF Running
  <2>3. /\ status.id = d /\ \A e \in Download \ {d} : ~Running(e)
        /\ \A c \in Caller : at[c] = "idle"
    BY <2>1, <2>2, RunsAlone
  <2>4. \A e \in Download : ~Running(e)'
    BY <1>t, <2>1, <2>3 DEF Running, TypeOK
  <2>5. /\ Shown(outcome[d]) \in {"done", "idle", "error"}
        /\ Shown(outcome[d]) = "done" => outcome[d] = "ok"
    BY <1>t DEF Shown
  <2>6. /\ status' \in [id : 0..MaxDownloads,
                        state : {"idle", "downloading", "done", "error"}]
        /\ status'.id = d /\ status'.state = Shown(outcome[d])
    BY <1>t, <2>1, <2>3, <2>5 DEF TypeOK
  <2>7. TypeOK'
    <3>1. worker' \in [Download -> {"none", "next", "transfer", "rename", "finish"}]
      BY <1>t, <2>1 DEF TypeOK
    <3>2. QED
      BY <1>t, <2>1, <2>6, <3>1 DEF TypeOK
  <2>8. DownloadsAreSafe'
    BY <2>1, <2>3, <2>4, <2>5, <2>6, <2>7 DEF DownloadsInv, DownloadsAreSafe,
       OneDownloadAtATime, StatusTellsTheWorker, FinalFilesAreFinished
  <2>9. StarterAlone' /\ RunsAsShown' /\ CancelIsMeant' /\ CancelIsOwn'
    BY <2>1, <2>3, <2>4, <2>5, <2>6 DEF DownloadsInv, StarterAlone, RunsAsShown,
       CancelIsMeant, CancelIsOwn
  <2>10. HasFetched'
    BY <2>4 DEF HasFetched, Running
  <2>11. DoneHasArrived'
    <3>1. outcome[d] = "ok" => todo[d] = {}
      BY <2>1 DEF DownloadsInv, HasFetched
    <3>2. QED
      BY <2>1, <2>2, <2>5, <2>6, <3>1, CancelIsForRunner DEF DoneHasArrived
  <2>12. QED
    BY <2>8, <2>9, <2>10, <2>11 DEF DownloadsInv
<1>7. QED
  BY <1>1, <1>2, <1>3, <1>4, <1>5, <1>6 DEF WorkerStep
-----------------------------------------------------------------------------
(* The clients and the world.                                              *)
LEMMA WorldKeeps ==
  ASSUME DownloadsAssumption, DownloadsInv,
         (\E f \in File : Delete(f)) \/ Cancel \/ Crash \/ Restart \/ UNCHANGED vars
  PROVE  DownloadsInv'
<1>t. TypeOK /\ MaxDownloads \in Nat
  BY DEF DownloadsInv, DownloadsAreSafe, DownloadsAssumption
<1>1. ASSUME NEW f \in File, Delete(f) PROVE DownloadsInv'
  <2>1. /\ dest' = [dest EXCEPT ![f] = Absent] /\ lost' = lost \cup {f}
        /\ deletes < MaxDeletes /\ deletes' = deletes + 1
        /\ UNCHANGED <<up, crashes, starter, at, status, cancel, handle, started,
                       wanted, worker, todo, outcome, part, asked>>
    BY <1>1 DEF Delete, request, thread
  <2>2. \A d \in Download : Running(d)' <=> Running(d)
    BY <2>1 DEF Running
  <2>3. Absent \in FileType /\ Absent.body # "partial"
    BY <1>t DEF Absent, Body, FileType
  <2>4. dest' \in [File -> FileType] /\ lost' \subseteq File
    BY <1>t, <2>1, <2>3 DEF TypeOK
  <2>5. deletes' \in 0..MaxDeletes
    BY <1>t, <2>1 DEF TypeOK, DownloadsAssumption
  <2>6. TypeOK'
    BY <1>t, <2>1, <2>4, <2>5 DEF TypeOK
  <2>7. \A g \in File : dest'[g] = IF g = f THEN Absent ELSE dest[g]
    BY <1>t, <2>1 DEF TypeOK
  <2>8. DownloadsAreSafe'
    BY <2>1, <2>2, <2>3, <2>6, <2>7 DEF DownloadsInv, DownloadsAreSafe,
       OneDownloadAtATime, StatusTellsTheWorker, FinalFilesAreFinished
  <2>9. StarterAlone' /\ RunsAsShown' /\ CancelIsMeant' /\ CancelIsOwn'
    BY <2>1, <2>2 DEF DownloadsInv, StarterAlone, RunsAsShown, CancelIsMeant,
       CancelIsOwn
  <2>10. HasFetched'
    <3>1. \A d \in Download : wanted[d] \subseteq File
      BY <1>t DEF TypeOK
    <3>2. \A d \in Download : Shard(d)' = Shard(d)
      BY <2>1 DEF Shard
    <3>3. QED
      BY <2>1, <2>2, <2>7, <3>1, <3>2 DEF DownloadsInv, HasFetched
  <2>11. DoneHasArrived'
    <3>1. CASE up /\ status.state = "done" /\ status.id \in Download
      <4>1. wanted[status.id] \subseteq File
        BY <1>t, <3>1 DEF TypeOK
      <4>2. QED
        BY <2>1, <2>7, <4>1 DEF DownloadsInv, DoneHasArrived
    <3>2. CASE up /\ status.state = "done" /\ status.id \notin Download
      BY <2>1, <3>2 DEF DownloadsInv, DoneHasArrived
    <3>3. QED
      BY <2>1, <3>1, <3>2 DEF DoneHasArrived
  <2>12. QED
    BY <2>8, <2>9, <2>10, <2>11 DEF DownloadsInv
<1>2. CASE Cancel
  <2>1. /\ up /\ cancel' = TRUE
        /\ asked \subseteq asked'
        /\ status.state = "downloading" => asked' = asked \cup {status.id}
        /\ status.state # "downloading" => asked' = asked
        /\ UNCHANGED <<up, crashes, starter, at, status, handle, started, wanted,
                       worker, todo, outcome, part, dest, deletes, lost>>
    BY <1>2 DEF Cancel, request, thread, disk
  <2>2. \A d \in Download : Running(d)' <=> Running(d)
    BY <2>1 DEF Running
  <2>3. status.state = "downloading" => status.id \in Download
    <3>1. ASSUME status.state = "downloading"
          PROVE  status.id \in Download
      <4>1. CASE \E d \in Download : Running(d)
        BY <2>1, <4>1 DEF DownloadsInv, RunsAsShown
      <4>2. CASE \E c \in Caller : at[c] = "spawn"
        BY <1>t, <2>1, <4>2 DEF DownloadsInv, StarterAlone, TypeOK, Download
      <4>3. QED
        BY <2>1, <3>1, <4>1, <4>2 DEF DownloadsInv, DownloadsAreSafe,
           StatusTellsTheWorker
    <3>2. QED
      BY <3>1
  <2>4. TypeOK'
    <3>1. asked' \subseteq Download
      BY <1>t, <2>1, <2>3 DEF TypeOK
    <3>2. cancel' \in BOOLEAN
      BY <2>1
    <3>3. QED
      BY <1>t, <2>1, <3>1, <3>2 DEF TypeOK
  <2>5. DownloadsAreSafe'
    BY <2>1, <2>2, <2>4 DEF DownloadsInv, DownloadsAreSafe, OneDownloadAtATime,
       StatusTellsTheWorker, FinalFilesAreFinished
  <2>6. StarterAlone' /\ RunsAsShown' /\ CancelIsMeant' /\ CancelIsOwn'
    BY <2>1, <2>2 DEF DownloadsInv, StarterAlone, RunsAsShown, CancelIsMeant,
       CancelIsOwn
  <2>7. HasFetched' /\ DoneHasArrived'
    BY <2>1, <2>2 DEF DownloadsInv, HasFetched, DoneHasArrived, Shard
  <2>8. QED
    BY <2>5, <2>6, <2>7 DEF DownloadsInv
<1>3. CASE Crash
  <2>1. /\ up' = FALSE /\ crashes' = crashes + 1 /\ crashes < MaxCrashes
        /\ UNCHANGED <<starter, at, status, cancel, handle, started, wanted, worker,
                       todo, outcome, part, dest, deletes, asked, lost>>
    BY <1>3 DEF Crash, request, thread, disk, history
  <2>2. \A d \in Download : Running(d)' <=> Running(d)
    BY <2>1 DEF Running
  <2>3. TypeOK'
    <3>1. crashes' \in 0..MaxCrashes
      BY <1>t, <2>1 DEF TypeOK, DownloadsAssumption
    <3>2. up' \in BOOLEAN
      BY <2>1
    <3>3. QED
      BY <1>t, <2>1, <3>1, <3>2 DEF TypeOK
  <2>4. DownloadsAreSafe'
    BY <2>1, <2>2, <2>3 DEF DownloadsInv, DownloadsAreSafe, OneDownloadAtATime,
       StatusTellsTheWorker, FinalFilesAreFinished
  <2>5. /\ StarterAlone' /\ RunsAsShown' /\ CancelIsMeant' /\ CancelIsOwn'
        /\ DoneHasArrived' /\ HasFetched'
    BY <2>1, <2>2 DEF DownloadsInv, StarterAlone, RunsAsShown, CancelIsMeant,
       CancelIsOwn, DoneHasArrived, HasFetched, Shard
  <2>6. QED
    BY <2>4, <2>5 DEF DownloadsInv
<1>4. CASE Restart
  <2>1. /\ up' = TRUE /\ starter' = None /\ at' = [c \in Caller |-> "idle"]
        /\ status' = [id |-> 0, state |-> "idle"] /\ cancel' = FALSE /\ handle' = 0
        /\ worker' = [d \in Download |-> "none"]
        /\ todo' = [d \in Download |-> {}] /\ outcome' = [d \in Download |-> "ok"]
        /\ UNCHANGED <<crashes, started, wanted, part, dest, deletes, asked, lost>>
    BY <1>4 DEF Restart, disk, history
  <2>2. /\ \A d \in Download : worker'[d] = "none" /\ outcome'[d] = "ok" /\ ~Running(d)'
        /\ \A c \in Caller : at'[c] = "idle"
    BY <2>1 DEF Running
  <2>3. TypeOK'
    <3>1. /\ status' \in [id : 0..MaxDownloads,
                          state : {"idle", "downloading", "done", "error"}]
          /\ handle' \in 0..MaxDownloads
      BY <1>t, <2>1
    <3>2. {up', cancel'} \subseteq BOOLEAN
      BY <2>1
    <3>3. QED
      BY <1>t, <2>1, <3>1, <3>2 DEF TypeOK
  <2>4. DownloadsAreSafe'
    BY <2>1, <2>2, <2>3 DEF DownloadsInv, DownloadsAreSafe, OneDownloadAtATime,
       StatusTellsTheWorker, FinalFilesAreFinished
  <2>5. StarterAlone'
    BY <1>t, <2>1, <2>2 DEF StarterAlone, TypeOK
  <2>6. /\ RunsAsShown' /\ CancelIsMeant' /\ CancelIsOwn' /\ DoneHasArrived'
        /\ HasFetched'
    BY <2>1, <2>2 DEF RunsAsShown, CancelIsMeant, CancelIsOwn, DoneHasArrived,
       HasFetched
  <2>7. QED
    BY <2>4, <2>5, <2>6 DEF DownloadsInv
<1>5. CASE UNCHANGED vars
  <2>1. UNCHANGED <<up, crashes, starter, at, status, cancel, handle, started, wanted,
                    worker, todo, outcome, part, dest, deletes, asked, lost>>
    BY <1>5 DEF vars, request, thread, disk, history
  <2>2. \A d \in Download : Running(d)' <=> Running(d)
    BY <2>1 DEF Running
  <2>3. DownloadsAreSafe'
    BY <2>1, <2>2 DEF DownloadsInv, DownloadsAreSafe, TypeOK, OneDownloadAtATime,
       StatusTellsTheWorker, FinalFilesAreFinished
  <2>4. /\ StarterAlone' /\ RunsAsShown' /\ CancelIsMeant' /\ CancelIsOwn'
        /\ DoneHasArrived' /\ HasFetched'
    BY <2>1, <2>2 DEF DownloadsInv, StarterAlone, RunsAsShown, CancelIsMeant,
       CancelIsOwn, DoneHasArrived, HasFetched, Shard
  <2>5. QED
    BY <2>3, <2>4 DEF DownloadsInv
<1>6. CASE \E f \in File : Delete(f)
  BY <1>1, <1>6
<1>7. QED
  BY <1>2, <1>3, <1>4, <1>5, <1>6, Zenon

LEMMA DownloadsInvariant == Spec => []DownloadsInv
<1>1. Init => DownloadsInv
  BY DownloadsAssumption, DownloadsInit
<1>2. DownloadsInv /\ [Next]_vars => DownloadsInv'
  BY DownloadsAssumption, CallerKeeps, WorkerKeeps, WorldKeeps DEF Next
<1>3. QED
  BY <1>1, <1>2, PTL DEF Spec
-----------------------------------------------------------------------------
(* However many clients ask and cancel, and wherever the process dies, one *)
(* thread downloads, the status says so exactly while it does, and no file *)
(* under a final name was still being transferred.                         *)
THEOREM DownloadsAreAlwaysSafe == Spec => []DownloadsAreSafe
<1>1. DownloadsInv => DownloadsAreSafe
  BY DEF DownloadsInv
<1>2. QED
  BY <1>1, DownloadsInvariant, PTL

(* A download reported as done has brought every file it was asked for.    *)
THEOREM DoneMeansArrived == Spec => []DoneHasArrived
<1>1. DownloadsInv => DoneHasArrived
  BY DEF DownloadsInv
<1>2. QED
  BY <1>1, DownloadsInvariant, PTL

(* Only a cancel issued while a download ran stops it.                     *)
THEOREM CancelsAreOwn == Spec => []CancelIsOwn
<1>1. DownloadsInv => CancelIsOwn
  BY DEF DownloadsInv
<1>2. QED
  BY <1>1, DownloadsInvariant, PTL
=============================================================================
