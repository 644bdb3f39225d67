------------------------ MODULE CatalogRefreshProofs ------------------------
(***************************************************************************)
(* Proofs about CatalogRefresh: one refresh at a time, a flag that is up   *)
(* exactly while it runs, a file that is never a torso and never goes      *)
(* back, for any number of threads, refreshes and deaths.                  *)
(***************************************************************************)
EXTENDS CatalogRefresh, TLAPS

(* A starter that has claimed the refresh has no thread yet.               *)
NotStartedYet ==
  \A s \in Starter : at[s] \in {"reap", "spawn"} =>
    thread[s] = "none" /\ fetched < MaxFetches

(* What a thread carries is the latest fetch there has been.               *)
CarriesTheLatest ==
  \A s \in Starter :
    /\ thread[s] = "publish" => hits[s].version \in {0, fetched}
    /\ thread[s] \in {"open", "write", "rename"} =>
         hits[s].version = fetched /\ snapshot = fetched
    /\ thread[s] = "rename" => tmp.version = fetched /\ tmp.body # "part"

FileIsPublished ==
  /\ file.version <= fetched
  /\ up /\ Loadable(file) => file.version <= snapshot

RefreshInv == RefreshIsSafe /\ NotStartedYet /\ CarriesTheLatest /\ FileIsPublished

LEMMA FilesAreTyped ==
  ASSUME CatalogAssumption, TypeOK, NEW s \in Starter, NEW b \in {"part", "short", "whole"}
  PROVE  /\ NoFile \in FileType
         /\ \A v \in {0, fetched} : File(v, now) \in FileType
         /\ [hits[s] EXCEPT !.body = b] \in FileType
         /\ [hits[s] EXCEPT !.body = b].version = hits[s].version
         /\ [hits[s] EXCEPT !.body = b].body = b
<1>1. 0 \in Version /\ 0 \in 0..MaxTime /\ fetched \in Version /\ now \in 0..MaxTime
  BY DEF CatalogAssumption, TypeOK, Version
<1>2. NoFile \in FileType /\ \A v \in {0, fetched} : File(v, now) \in FileType
  BY <1>1 DEF NoFile, File, FileType
<1>3. hits[s] \in FileType
  BY DEF TypeOK
<1>4. QED
  BY <1>2, <1>3 DEF FileType

LEMMA RefreshInit == CatalogAssumption /\ Init => RefreshInv
<1> SUFFICES ASSUME CatalogAssumption, Init PROVE RefreshInv
  OBVIOUS
<1>1. NoFile \in FileType /\ NoFile.version = 0 /\ NoFile.body = "whole"
  BY DEF CatalogAssumption, NoFile, File, FileType, Version
<1>2. TypeOK
  <2>1. 0 \in 0..MaxCrashes /\ 0 \in 0..MaxTime /\ 0 \in Version
    BY DEF CatalogAssumption, Version
  <2>2. {file, tmp} \subseteq FileType /\ hits \in [Starter -> FileType]
    BY <1>1 DEF Init
  <2>3. up \in BOOLEAN /\ refreshing \in BOOLEAN
    BY DEF Init
  <2>4. at \in [Starter -> {"idle", "claim", "reap", "spawn", "assign"}]
    BY DEF Init
  <2>5. thread \in [Starter -> Working \cup {"none"}]
    BY DEF Init
  <2>6. QED
    BY <2>1, <2>2, <2>3, <2>4, <2>5 DEF Init, TypeOK
<1>3. \A s \in Starter : at[s] = "idle" /\ thread[s] = "none" /\ ~Busy(s)
  BY DEF Init, Busy, Working
<1>4. QED
  BY <1>1, <1>2, <1>3 DEF Init, RefreshInv, RefreshIsSafe, OneRefreshAtATime,
     RefreshingIsOwned, CatalogFileIsFinished, NotStartedYet, CarriesTheLatest,
     FileIsPublished, Loadable, Empty

(* The steps of a starter.                                                 *)
LEMMA StarterKeeps ==
  ASSUME CatalogAssumption, RefreshInv, NEW s \in Starter,
         StarterStep(s) \/ \E force \in BOOLEAN : Check(s, force)
  PROVE  RefreshInv'
<1> USE DEF RefreshInv, RefreshIsSafe, Goes, memory, disk
<1>1. ASSUME UNCHANGED <<up, crashes, now, snapshot, lastRefresh, refreshing, thread,
                         hits, fetched, barren, file, tmp, handle>>,
             \E from, to \in {"idle", "claim", "assign"} : Goes(s, from, to)
      PROVE  RefreshInv'
  <2>1. TypeOK'
    BY <1>1 DEF TypeOK
  <2>2. \A t \in Starter : (at'[t] \in {"reap", "spawn"}) <=> (at[t] \in {"reap", "spawn"})
    BY <1>1 DEF TypeOK
  <2>3. \A t \in Starter : Busy(t)' <=> Busy(t)
    BY <1>1, <2>2 DEF Busy
  <2>4. OneRefreshAtATime' /\ RefreshingIsOwned' /\ CatalogFileIsFinished'
    BY <1>1, <2>3 DEF OneRefreshAtATime, RefreshingIsOwned, CatalogFileIsFinished
  <2>5. NotStartedYet' /\ CarriesTheLatest' /\ FileIsPublished'
    BY <1>1, <2>2 DEF NotStartedYet, CarriesTheLatest, FileIsPublished, Loadable, Empty
  <2>6. QED
    BY <2>1, <2>4, <2>5
<1>2. ASSUME NEW force \in BOOLEAN, Check(s, force) PROVE RefreshInv'
  BY <1>1, <1>2 DEF Check
<1>3. CASE Claim(s)
  <2>1. CASE refreshing
    <3>1. refreshing' = refreshing
      BY <1>3, <2>1 DEF Claim, TypeOK
    <3>2. QED
      BY <1>1, <1>3, <2>1, <3>1 DEF Claim, Free
  <2>2. CASE ~refreshing
    <3>1. /\ at[s] = "claim" /\ at' = [at EXCEPT ![s] = "reap"] /\ refreshing' = TRUE
          /\ fetched < MaxFetches /\ up
          /\ UNCHANGED <<up, crashes, now, snapshot, lastRefresh, handle, thread,
                         hits, fetched, barren, file, tmp>>
      BY <1>3, <2>2 DEF Claim, Free
    <3>2. \A t \in Starter : ~Busy(t)
      BY <2>2, <3>1 DEF RefreshingIsOwned
    <3>3. TypeOK'
      BY <3>1 DEF TypeOK
    <3>4. thread[s] = "none"
      BY <3>2 DEF TypeOK, Busy
    <3>5. Busy(s)' /\ \A t \in Starter \ {s} : ~Busy(t)'
      BY <3>1, <3>2 DEF Busy, TypeOK
    <3>6. OneRefreshAtATime' /\ RefreshingIsOwned' /\ CatalogFileIsFinished'
      BY <3>1, <3>5 DEF OneRefreshAtATime, RefreshingIsOwned, CatalogFileIsFinished
    <3>7. NotStartedYet' /\ CarriesTheLatest' /\ FileIsPublished'
      BY <3>1, <3>4 DEF NotStartedYet, CarriesTheLatest, FileIsPublished, Loadable, Empty, TypeOK
    <3>8. QED
      BY <3>3, <3>6, <3>7
  <2>3. QED
    BY <2>1, <2>2
<1>4. CASE Reap(s)
  <2>1. TypeOK'
    BY <1>4 DEF Reap, TypeOK
  <2>2. \A t \in Starter : (at'[t] \in {"reap", "spawn"}) <=> (at[t] \in {"reap", "spawn"})
    BY <1>4 DEF Reap, TypeOK
  <2>3. UNCHANGED <<up, snapshot, refreshing, thread, hits, fetched, barren, file, tmp>>
    BY <1>4 DEF Reap
  <2>4. \A t \in Starter : Busy(t)' <=> Busy(t)
    BY <2>2, <2>3 DEF Busy
  <2>5. OneRefreshAtATime' /\ RefreshingIsOwned' /\ CatalogFileIsFinished'
    BY <2>3, <2>4 DEF OneRefreshAtATime, RefreshingIsOwned, CatalogFileIsFinished
  <2>6. NotStartedYet' /\ CarriesTheLatest' /\ FileIsPublished'
    BY <2>2, <2>3 DEF NotStartedYet, CarriesTheLatest, FileIsPublished, Loadable, Empty
  <2>7. QED
    BY <2>1, <2>5, <2>6
<1>5. CASE Spawn(s)
  <2>1. /\ at[s] = "spawn" /\ at' = [at EXCEPT ![s] = "assign"] /\ up
        /\ thread' = [thread EXCEPT ![s] = "fetch"] /\ fetched' = fetched + 1
        /\ UNCHANGED <<up, crashes, now, snapshot, lastRefresh, refreshing, handle,
                       hits, barren, file, tmp>>
    BY <1>5 DEF Spawn
  <2>2. Busy(s) /\ fetched < MaxFetches
    BY <2>1 DEF Busy, NotStartedYet
  <2>3. \A t \in Starter \ {s} : ~Busy(t)
    BY <2>2 DEF OneRefreshAtATime
  <2>4. TypeOK'
    BY <2>1, <2>2 DEF TypeOK, Version, CatalogAssumption, Working
  <2>5. Busy(s)' /\ \A t \in Starter \ {s} : ~Busy(t)'
    BY <2>1, <2>3 DEF Busy, TypeOK, Working
  <2>6. OneRefreshAtATime' /\ RefreshingIsOwned' /\ CatalogFileIsFinished'
    BY <2>1, <2>2, <2>5 DEF OneRefreshAtATime, RefreshingIsOwned, CatalogFileIsFinished
  <2>7. \A t \in Starter : /\ at'[t] \notin {"reap", "spawn"}
                           /\ thread'[t] \in {"none", "fetch"}
    BY <2>1, <2>3 DEF Busy, TypeOK, Working
  <2>8. file.version <= fetched'
    BY <2>1 DEF FileIsPublished, Loadable, Empty, TypeOK, FileType, Version, CatalogAssumption
  <2>9. NotStartedYet' /\ CarriesTheLatest' /\ FileIsPublished'
    BY <2>1, <2>7, <2>8 DEF NotStartedYet, CarriesTheLatest, FileIsPublished, Loadable, Empty
  <2>10. QED
    BY <2>4, <2>6, <2>9
<1>6. CASE Assign(s)
  <2>1. TypeOK'
    BY <1>6 DEF Assign, TypeOK
  <2>2. /\ \A t \in Starter :
             (at'[t] \in {"reap", "spawn"}) <=> (at[t] \in {"reap", "spawn"})
        /\ up' => up
        /\ UNCHANGED <<snapshot, refreshing, thread, hits, fetched, barren, file, tmp>>
    BY <1>6 DEF Assign, TypeOK
  <2>3. \A t \in Starter : Busy(t)' <=> Busy(t)
    BY <2>2 DEF Busy
  <2>4. OneRefreshAtATime' /\ RefreshingIsOwned' /\ CatalogFileIsFinished'
    BY <2>2, <2>3 DEF OneRefreshAtATime, RefreshingIsOwned, CatalogFileIsFinished
  <2>5. NotStartedYet' /\ CarriesTheLatest' /\ FileIsPublished'
    BY <2>2 DEF NotStartedYet, CarriesTheLatest, FileIsPublished, Loadable, Empty
  <2>6. QED
    BY <2>1, <2>4, <2>5
<1>7. QED
  BY <1>2, <1>3, <1>4, <1>5, <1>6 DEF StarterStep

(* The steps of a refresh thread: it is the only one, and it holds the     *)
(* claim until it ends.                                                    *)
LEMMA RunnerIsAlone ==
  ASSUME RefreshInv, NEW s \in Starter, thread[s] \in Working
  PROVE  /\ Busy(s) /\ at[s] \notin {"reap", "spawn"}
         /\ \A t \in Starter \ {s} :
              thread[t] = "none" /\ at[t] \notin {"reap", "spawn"}
<1>1. Busy(s)
  BY DEF Busy
<1>2. thread[s] # "none"
  BY DEF Working
<1>3. \A t \in Starter \ {s} : ~Busy(t)
  BY <1>1 DEF RefreshInv, RefreshIsSafe, OneRefreshAtATime
<1>4. QED
  BY <1>1, <1>2, <1>3 DEF Busy, RefreshInv, RefreshIsSafe, TypeOK, NotStartedYet

LEMMA ThreadMoves ==
  ASSUME RefreshInv, NEW s \in Starter, NEW to \in Working, thread[s] \in Working,
         Runs(s, thread[s], to),
         UNCHANGED <<up, at, refreshing, fetched>>,
         TypeOK', CatalogFileIsFinished', FileIsPublished',
         to = "publish" => hits'[s].version \in {0, fetched},
         to \in {"open", "write", "rename"} =>
           hits'[s].version = fetched /\ snapshot' = fetched,
         to = "rename" => tmp'.version = fetched /\ tmp'.body # "part"
  PROVE  RefreshInv'
<1>1. /\ thread'[s] = to
      /\ \A t \in Starter \ {s} : thread'[t] = "none"
      /\ \A t \in Starter : at'[t] \notin {"reap", "spawn"}
  BY RunnerIsAlone DEF Runs, RefreshInv, RefreshIsSafe, TypeOK
<1>2. Busy(s)' /\ \A t \in Starter \ {s} : ~Busy(t)'
  BY <1>1 DEF Busy, Working
<1>3. up => refreshing
  BY RunnerIsAlone DEF RefreshInv, RefreshIsSafe, RefreshingIsOwned
<1>4. OneRefreshAtATime' /\ RefreshingIsOwned'
  BY <1>2, <1>3 DEF OneRefreshAtATime, RefreshingIsOwned, RefreshInv, RefreshIsSafe,
     TypeOK
<1>5. NotStartedYet' /\ CarriesTheLatest'
  BY <1>1 DEF NotStartedYet, CarriesTheLatest
<1>6. QED
  BY <1>4, <1>5 DEF RefreshInv, RefreshIsSafe

LEMMA ThreadKeeps ==
  ASSUME CatalogAssumption, RefreshInv, NEW s \in Starter, ThreadStep(s)
  PROVE  RefreshInv'
<1> USE DEF Runs, memory, disk
<1>a. TypeOK /\ CatalogFileIsFinished /\ FileIsPublished /\ CarriesTheLatest
  BY DEF RefreshInv, RefreshIsSafe
<1>b. {"fetch", "publish", "open", "write", "rename", "clear"} = Working
  BY DEF Working
<1>1. CASE Fetch(s)
  <2>1. PICK v \in {0, fetched} : hits' = [hits EXCEPT ![s] = File(v, now)]
    BY <1>1 DEF Fetch
  <2>2. File(v, now) \in FileType /\ File(v, now).version = v
    BY <1>a, FilesAreTyped DEF File
  <2>3. TypeOK'
    <3>1. hits' \in [Starter -> FileType] /\ barren' \subseteq Version
      BY <1>a, <1>1, <2>1, <2>2 DEF Fetch, TypeOK
    <3>2. thread' \in [Starter -> Working \cup {"none"}]
      BY <1>a, <1>1 DEF Fetch, TypeOK, Working
    <3>3. QED
      BY <1>a, <1>1, <3>1, <3>2 DEF Fetch, TypeOK
  <2>4. hits'[s].version \in {0, fetched}
    BY <1>a, <2>1, <2>2 DEF TypeOK
  <2>5. CatalogFileIsFinished' /\ FileIsPublished'
    <3>1. Loadable(file)' => Loadable(file)
      BY <1>1 DEF Fetch, Loadable, Empty
    <3>2. QED
      BY <1>a, <1>1, <3>1 DEF Fetch, CatalogFileIsFinished, FileIsPublished
  <2>6. QED
    BY <1>b, <1>1, <2>3, <2>4, <2>5, ThreadMoves DEF Fetch
<1>2. CASE Publish(s)
  <2>1. /\ hits[s].version \in {0, fetched} /\ hits[s] \in FileType
        /\ snapshot' = NewSnapshot(hits[s].version) /\ lastRefresh' = hits[s].when
        /\ thread[s] = "publish"
        /\ UNCHANGED <<up, crashes, now, refreshing, handle, at, hits, fetched, barren, file, tmp>>
    BY <1>a, <1>2 DEF Publish, CarriesTheLatest, TypeOK
  <2>2. /\ hits[s].version # 0 => snapshot' = fetched
        /\ hits[s].version = 0 => snapshot' = snapshot
    BY <2>1 DEF NewSnapshot
  <2>3. AfterPublish(hits[s].version) \in {"open", "clear"}
        /\ (AfterPublish(hits[s].version) = "open" => hits[s].version = fetched /\ snapshot' = fetched)
    BY <2>1, <2>2 DEF AfterPublish
  <2>4. TypeOK'
    <3>1. snapshot' \in Version /\ lastRefresh' \in 0..MaxTime
      BY <1>a, <2>1, <2>2 DEF TypeOK, FileType
    <3>2. thread' \in [Starter -> Working \cup {"none"}]
      BY <1>a, <1>2, <2>3 DEF Publish, TypeOK, Working
    <3>3. QED
      BY <1>a, <2>1, <3>1, <3>2 DEF TypeOK
  <2>5. CatalogFileIsFinished' /\ FileIsPublished'
    BY <1>a, <2>1, <2>2 DEF CatalogFileIsFinished, FileIsPublished, Loadable, Empty
  <2>6. QED
    BY <1>b, <1>2, <2>1, <2>3, <2>4, <2>5, ThreadMoves DEF Publish
<1>3. CASE Open(s)
  <2>1. /\ thread[s] = "open" /\ hits[s].version = fetched /\ snapshot = fetched
        /\ UNCHANGED <<up, crashes, now, snapshot, lastRefresh, refreshing, handle, at,
                       hits, fetched, barren, file>>
    BY <1>a, <1>3 DEF Open, CarriesTheLatest, Truncate
  <2>2. tmp' \in FileType
    BY <1>a, <1>3, FilesAreTyped DEF Open, Truncate, TypeOK
  <2>3. PICK to \in {"write", "clear"} : thread' = [thread EXCEPT ![s] = to]
    BY <1>3 DEF Open
  <2>4. TypeOK'
    BY <1>a, <2>1, <2>2, <2>3 DEF TypeOK, Working
  <2>5. CatalogFileIsFinished' /\ FileIsPublished'
    BY <1>a, <2>1 DEF CatalogFileIsFinished, FileIsPublished, Loadable, Empty
  <2>6. up
    BY <1>3 DEF Open
  <2>7. QED
    BY <1>b, <2>1, <2>3, <2>4, <2>5, <2>6, ThreadMoves
<1>4. CASE Write(s)
  <2>1. /\ thread[s] = "write" /\ hits[s].version = fetched /\ snapshot = fetched
        /\ thread' = [thread EXCEPT ![s] = "rename"] /\ up
        /\ UNCHANGED <<up, crashes, now, snapshot, lastRefresh, refreshing, handle, at,
                       hits, fetched, barren, file>>
    BY <1>a, <1>4 DEF Write, CarriesTheLatest
  <2>2. PICK b \in {"whole", "short"} : tmp' = [hits[s] EXCEPT !.body = b]
    BY <1>4 DEF Write
  <2>3. tmp' \in FileType /\ tmp'.version = hits[s].version /\ tmp'.body = b
    BY <1>a, <2>2, FilesAreTyped
  <2>4. TypeOK'
    BY <1>a, <2>1, <2>3 DEF TypeOK, Working
  <2>5. CatalogFileIsFinished' /\ FileIsPublished'
    BY <1>a, <2>1 DEF CatalogFileIsFinished, FileIsPublished, Loadable, Empty
  <2>6. QED
    BY <1>b, <2>1, <2>3, <2>4, <2>5, ThreadMoves
<1>5. CASE Rename(s)
  <2>1. /\ thread[s] = "rename" /\ hits[s].version = fetched /\ snapshot = fetched
        /\ tmp.version = fetched /\ tmp.body # "part"
        /\ thread' = [thread EXCEPT ![s] = "clear"] /\ up
        /\ tmp' = NoFile /\ (file' = file \/ file' = tmp)
        /\ UNCHANGED <<up, crashes, now, snapshot, lastRefresh, refreshing, handle, at,
                       hits, fetched, barren>>
    BY <1>a, <1>5 DEF Rename, CarriesTheLatest
  <2>2. TypeOK'
    BY <1>a, <2>1, FilesAreTyped DEF TypeOK, Working
  <2>3. CatalogFileIsFinished' /\ FileIsPublished'
    BY <1>a, <2>1 DEF CatalogFileIsFinished, FileIsPublished, Loadable, Empty, TypeOK, Version,
       CatalogAssumption
  <2>4. QED
    BY <1>b, <2>1, <2>2, <2>3, ThreadMoves
<1>6. CASE Clear(s)
  <2>1. /\ thread[s] = "clear" /\ thread' = [thread EXCEPT ![s] = "none"] /\ up
        /\ refreshing' = FALSE
        /\ UNCHANGED <<up, crashes, now, snapshot, lastRefresh, handle, at, hits, fetched,
                       barren, file, tmp>>
    BY <1>6 DEF Clear
  <2>2. \A t \in Starter : thread'[t] = "none" /\ at'[t] \notin {"reap", "spawn"}
    BY <1>a, <1>b, <2>1, RunnerIsAlone DEF TypeOK
  <2>3. \A t \in Starter : ~Busy(t)'
    BY <2>2 DEF Busy, Working
  <2>4. TypeOK'
    BY <1>a, <2>1 DEF TypeOK
  <2>5. OneRefreshAtATime' /\ RefreshingIsOwned' /\ CatalogFileIsFinished'
    BY <1>a, <2>1, <2>3 DEF OneRefreshAtATime, RefreshingIsOwned, CatalogFileIsFinished
  <2>6. NotStartedYet' /\ CarriesTheLatest' /\ FileIsPublished'
    BY <1>a, <2>1, <2>2 DEF NotStartedYet, CarriesTheLatest, FileIsPublished, Loadable, Empty
  <2>7. QED
    BY <2>4, <2>5, <2>6 DEF RefreshInv, RefreshIsSafe
<1>7. QED
  BY <1>1, <1>2, <1>3, <1>4, <1>5, <1>6 DEF ThreadStep

(* The clock, and the death of the process.                                *)
LEMMA WorldKeeps ==
  ASSUME CatalogAssumption, RefreshInv, Tick \/ Crash \/ UNCHANGED vars
  PROVE  RefreshInv'
<1>1. /\ UNCHANGED <<snapshot, lastRefresh, refreshing, handle, at, thread, hits,
                     fetched, barren, file, tmp>>
      /\ up' => up
  BY DEF Tick, Crash, vars, memory, disk
<1>2. TypeOK'
  <2>1. TypeOK /\ MaxTime \in Nat /\ MaxCrashes \in Nat
    BY DEF RefreshInv, RefreshIsSafe, CatalogAssumption
  <2>2. up' \in BOOLEAN
    BY <2>1 DEF Tick, Crash, vars, TypeOK
  <2>3. now' \in 0..MaxTime /\ crashes' \in 0..MaxCrashes
    BY <2>1 DEF Tick, Crash, vars, TypeOK
  <2>4. QED
    BY <1>1, <2>1, <2>2, <2>3 DEF TypeOK
<1>3. \A t \in Starter : Busy(t)' <=> Busy(t)
  BY <1>1 DEF Busy
<1>4. OneRefreshAtATime' /\ RefreshingIsOwned' /\ CatalogFileIsFinished'
  BY <1>1, <1>3 DEF RefreshInv, RefreshIsSafe, OneRefreshAtATime, RefreshingIsOwned,
     CatalogFileIsFinished
<1>5. NotStartedYet' /\ CarriesTheLatest' /\ FileIsPublished'
  BY <1>1 DEF RefreshInv, NotStartedYet, CarriesTheLatest, FileIsPublished, Loadable, Empty
<1>6. QED
  BY <1>2, <1>4, <1>5 DEF RefreshInv, RefreshIsSafe

LEMMA RestartKeeps ==
  ASSUME CatalogAssumption, RefreshInv, Restart
  PROVE  RefreshInv'
<1> USE DEF Restart, disk
<1>1. NoFile \in FileType /\ Loaded(file) \in FileType
  BY DEF CatalogAssumption, RefreshInv, RefreshIsSafe, TypeOK, NoFile, File, FileType,
     Version, Loaded
<1>2. TypeOK'
  <2>1. snapshot' \in Version /\ lastRefresh' \in 0..MaxTime /\ hits' \in [Starter -> FileType]
    BY <1>1 DEF FileType
  <2>2. thread' \in [Starter -> Working \cup {"none"}]
    OBVIOUS
  <2>3. QED
    BY <2>1, <2>2 DEF RefreshInv, RefreshIsSafe, TypeOK
<1>3. \A t \in Starter : thread'[t] = "none" /\ at'[t] = "idle" /\ ~Busy(t)'
  BY DEF Busy, Working
<1>4. OneRefreshAtATime' /\ RefreshingIsOwned' /\ CatalogFileIsFinished'
  BY <1>3 DEF RefreshInv, RefreshIsSafe, OneRefreshAtATime, RefreshingIsOwned,
     CatalogFileIsFinished
<1>5. Loadable(file) => snapshot' = file.version
  BY DEF Loaded
<1>6. NotStartedYet' /\ CarriesTheLatest'
  BY <1>3 DEF NotStartedYet, CarriesTheLatest
<1>7. FileIsPublished'
  BY <1>5 DEF RefreshInv, RefreshIsSafe, FileIsPublished, Loadable, Empty, TypeOK, FileType, Version,
     CatalogAssumption
<1>8. QED
  BY <1>2, <1>4, <1>6, <1>7 DEF RefreshInv, RefreshIsSafe

LEMMA RefreshInvariant == Spec => []RefreshInv
<1>1. Init => RefreshInv
  BY CatalogAssumption, RefreshInit
<1>2. RefreshInv /\ [Next]_vars => RefreshInv'
  <2> SUFFICES ASSUME RefreshInv, [Next]_vars PROVE RefreshInv'
    OBVIOUS
  <2>1. CASE Tick \/ Crash \/ UNCHANGED vars
    BY <2>1, CatalogAssumption, WorldKeeps
  <2>2. CASE Restart
    BY <2>2, CatalogAssumption, RestartKeeps
  <2>3. ASSUME NEW s \in Starter,
               (\E force \in BOOLEAN : Check(s, force)) \/ StarterStep(s)
        PROVE  RefreshInv'
    BY <2>3, CatalogAssumption, StarterKeeps
  <2>4. ASSUME NEW s \in Starter, ThreadStep(s) PROVE RefreshInv'
    BY <2>4, CatalogAssumption, ThreadKeeps
  <2>5. QED
    BY <2>1, <2>2, <2>3, <2>4 DEF Next
<1>3. QED
  BY <1>1, <1>2, PTL DEF Spec

(* One refresh runs at a time, the flag is up exactly while it does, and   *)
(* the file is finished wherever the process dies.                         *)
THEOREM RefreshesAreSafe == Spec => []RefreshIsSafe
<1>1. RefreshInv => RefreshIsSafe
  BY DEF RefreshInv
<1>2. QED
  BY <1>1, RefreshInvariant, PTL

(* The catalog on the disk never goes back, and never holds what has not   *)
(* been published, through any number of refreshes and deaths.             *)
THEOREM FileFollowsCatalog == Spec => DiskFollowsMemory
<1>1. RefreshInv /\ RefreshInv' /\ [Next]_vars =>
        [/\ file'.version >= file.version
         /\ up' => file'.version <= snapshot' \/ ~Loadable(file)']_vars
  <2> SUFFICES ASSUME RefreshInv, RefreshInv', [Next]_vars
               PROVE  /\ file'.version >= file.version
                      /\ up' => file'.version <= snapshot' \/ ~Loadable(file)'
    OBVIOUS
  <2>1. file.version <= fetched /\ file.version \in Nat /\ fetched \in Nat
    BY CatalogAssumption DEF RefreshInv, RefreshIsSafe, TypeOK, FileIsPublished, Loadable, Empty,
       FileType, Version
  <2>2. file' = file \/ file'.version = fetched
    <3>1. ASSUME NEW s \in Starter, Rename(s) PROVE file' = file \/ file'.version = fetched
      BY <3>1 DEF Rename, Runs, RefreshInv, CarriesTheLatest
    <3>2. ASSUME NEW s \in Starter,
                 Fetch(s) \/ Publish(s) \/ Open(s) \/ Write(s) \/ Clear(s)
          PROVE  file' = file
      BY <3>2 DEF Fetch, Publish, Open, Truncate, Write, Clear, disk
    <3>3. ASSUME NEW s \in Starter,
                 (\E force \in BOOLEAN : Check(s, force)) \/ StarterStep(s)
          PROVE  file' = file
      BY <3>3 DEF Check, StarterStep, Claim, Reap, Spawn, Assign, disk
    <3>4. CASE Tick \/ Crash \/ Restart \/ UNCHANGED vars
      BY <3>4 DEF Tick, Crash, Restart, vars, disk
    <3>5. QED
      BY <3>1, <3>2, <3>3, <3>4 DEF Next, ThreadStep
  <2>3. up' => file'.version <= snapshot' \/ ~Loadable(file)'
    BY DEF RefreshInv, FileIsPublished, Loadable, Empty
  <2>4. QED
    BY <2>1, <2>2, <2>3
<1>2. QED
  BY <1>1, RefreshInvariant, PTL DEF Spec, DiskFollowsMemory
=============================================================================
