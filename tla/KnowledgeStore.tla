--------------------------- MODULE KnowledgeStore ---------------------------
(***************************************************************************)
(* The knowledge tools (src/rag_tools.cpp): entries kept one per file,     *)
(* written to a temporary and renamed, an index of them in memory behind a *)
(* shared mutex, and the vocabulary rendered for every prompt from a scan  *)
(* of the directory, cached under the directory's mtime and number of      *)
(* names.  The process may die at any moment.                              *)
(*                                                                         *)
(* A key is the stem of a file, which the keywords determine; the body of  *)
(* an entry is the set of contents learned into it, numbered in order.     *)
(***************************************************************************)
EXTENDS Integers, FiniteSets

CONSTANTS
  Thread,       \* threads that run a tool or render a prompt
  None,         \* nobody
  Key,          \* stems of the entries
  Pinned,       \* those with the prefix "fix-"
  BadTitle,     \* those is_valid_title rejects (too long, a leading dot)
  MaxCalls,     \* bound of the model: writing calls
  MaxRenders,   \* bound of the model: prompts rendered
  MaxTicks,     \* bound of the model: ticks of the clock
  MaxCrashes    \* bound of the model: deaths of the process

ASSUME KnowledgeAssumption ==
  /\ Key # {} /\ IsFiniteSet(Key) /\ None \notin Thread
  /\ Pinned \subseteq Key /\ BadTitle \subseteq Key
  /\ {MaxCalls, MaxRenders, MaxCrashes} \subseteq Nat /\ MaxTicks \in Nat \ {0}

VARIABLES
  up, crashes,     \* the process runs; how often it has died
  writer, readers, \* who holds the shared_mutex
  at, key, body,   \* of each thread: where it is, on which key, with what
  index,           \* RagStore::index, and what each entry held then
  dir,             \* the files: absent ({}), cut short ({Cut}), or what was
                   \* learned into them
  tmp,             \* the temporary of each key: "none", "part" or "whole"
  orphans,         \* temporaries left by earlier lives
  now, mtime,      \* the file system's clock; the directory's modification
                   \* time, the tick of its last change
  calls, renders,  \* how many there have been
  probe, left, seen, \* of each thread: the signature it read, the keys it
                   \* has still to look at and those it found
  cache,           \* the vocabulary cache: signature and keys
  acked,           \* history: contents acknowledged and not replaced since
  skipped,         \* history: keys an I/O error kept out of the index
  sure, trusted    \* history: renders, and whether the cache is of one, that
                   \* nothing but a lost change of the signature can mislead

lock     == <<writer, readers>>
thread   == <<at, key, body>>
disk     == <<dir, tmp, orphans, mtime>>
trust    == <<sure, trusted>>
vocab    == <<renders, probe, left, seen, cache>>
history  == <<acked, skipped, trust>>
vars     == <<up, crashes, lock, thread, index, disk, now, calls, vocab, history>>

Cut == 0
Present == {k \in Key : dir[k] # {}}
Listed  == Present \ BadTitle
Temporaries == {k \in Key : tmp[k] # "none"}
Names == Cardinality(Present) + Cardinality(Temporaries) + orphans
SomeKey == CHOOSE k \in Key : TRUE
NoSignature == [mtime |-> -1, count |-> 0]

Init ==
  /\ up = TRUE /\ crashes = 0 /\ writer = None /\ readers = {}
  /\ at = [t \in Thread |-> "idle"] /\ key = [t \in Thread |-> SomeKey]
  /\ body = [t \in Thread |-> {}]
  /\ index = [k \in Key |-> {}] /\ dir = [k \in Key |-> {}]
  /\ tmp = [k \in Key |-> "none"] /\ orphans = 0 /\ now = 1 /\ mtime = 1
  /\ calls = 0 /\ renders = 0
  /\ probe = [t \in Thread |-> NoSignature]
  /\ left = [t \in Thread |-> {}] /\ seen = [t \in Thread |-> {}]
  /\ cache = [sig |-> NoSignature, keys |-> {}]
  /\ acked = [k \in Key |-> {}] /\ skipped = {}
  /\ sure = {} /\ trusted = FALSE
-----------------------------------------------------------------------------
Goes(t, from, to) == up /\ at[t] = from /\ at' = [at EXCEPT ![t] = to]

(* std::unique_lock, held from here to the end of the call.                *)
CanWrite     == writer = None /\ readers = {}
Enters(t, k, to) ==
  /\ CanWrite /\ calls < MaxCalls /\ Goes(t, "idle", to)
  /\ writer' = t /\ key' = [key EXCEPT ![t] = k] /\ calls' = calls + 1
Leaves(t)      == writer' = None

(* learning_knowledge: a pinned entry the index knows is refused.          *)
NeverRefused(k)   == FALSE                                        \* mutant
PinnedAndKnown(k) == k \in Pinned /\ index[k] # {}
Learn(t, k) ==
  /\ ~PinnedAndKnown(k) /\ Enters(t, k, "open")
  /\ body' = [body EXCEPT ![t] = {calls + 1}]
  /\ acked' = [acked EXCEPT ![k] = {}]
  /\ UNCHANGED <<up, crashes, readers, index, disk, now, vocab, skipped, trust>>

(* learning_more_knowledge: a new entry, or the old one read back from its *)
(* file (which may fail) and the new content behind it.                    *)
Forgets(k) == {}                                                  \* mutant
OldBody(k) == IF index[k] = {} THEN {} ELSE dir[k]
LearnMore(t, k) ==
  /\ ~PinnedAndKnown(k) /\ (index[k] # {} => dir[k] # {})
  /\ Enters(t, k, "open")
  /\ body' = [body EXCEPT ![t] = OldBody(k) \cup {calls + 1}]
  /\ UNCHANGED <<up, crashes, readers, index, disk, now, vocab, history>>

(* save_locked.  The temporary is opened, or cannot be.                    *)
Change(d, p) == dir' = d /\ tmp' = p /\ mtime' = now /\ UNCHANGED orphans
Open(t) ==
  /\ \/ /\ Goes(t, "open", "write") /\ UNCHANGED writer
        /\ Change(dir, [tmp EXCEPT ![key[t]] = "part"])
     \/ Goes(t, "open", "idle") /\ Leaves(t) /\ UNCHANGED disk
  /\ UNCHANGED <<up, crashes, readers, key, body, index, now, calls, vocab, history>>

(* Written and flushed; a write that failed removes the temporary.         *)
GoesOn(t) == Goes(t, "write", "rename") /\ UNCHANGED <<writer, disk>> \* mutant
Drops(t, from) == /\ Goes(t, from, "idle") /\ Leaves(t)
                  /\ Change(dir, [tmp EXCEPT ![key[t]] = "none"])
GivesUp(t) == Drops(t, "write")
Write(t) ==
  /\ \/ /\ Goes(t, "write", "rename")
        /\ tmp' = [tmp EXCEPT ![key[t]] = "whole"]
        /\ UNCHANGED <<writer, dir, orphans, mtime>>
     \/ GivesUp(t)
  /\ UNCHANGED <<up, crashes, readers, key, body, index, now, calls, vocab, history>>

(* The rename replaces the file at once.                                   *)
Rename(t) ==
  /\ \/ /\ Goes(t, "rename", "index") /\ key[t] \in Temporaries /\ UNCHANGED writer
        /\ Change([dir EXCEPT ![key[t]] = IF tmp[key[t]] = "whole" THEN body[t] ELSE {Cut}],
                  [tmp EXCEPT ![key[t]] = "none"])
     \/ Drops(t, "rename")
  /\ UNCHANGED <<up, crashes, readers, key, body, index, now, calls, vocab, history>>

Indexed(t)    == [index EXCEPT ![key[t]] = body[t]]
Index(t) ==
  /\ Goes(t, "index", "idle") /\ Leaves(t)
  /\ index' = Indexed(t) /\ acked' = [acked EXCEPT ![key[t]] = @ \cup body[t]]
  /\ UNCHANGED <<up, crashes, readers, key, body, disk, now, calls, vocab, skipped, trust>>

(* forget_knowledge: the file goes and the entry with it.  A file that     *)
(* seems not to be there (it may be an error) takes the entry too; one     *)
(* that cannot be removed does not.                                        *)
Forget(t, k) ==
  /\ k \notin Pinned /\ Enters(t, k, "remove")
  /\ acked' = [acked EXCEPT ![k] = {}]
  /\ UNCHANGED <<up, crashes, readers, body, index, disk, now, vocab, skipped, trust>>
Doubt == IF mtime = now THEN sure' = {} /\ trusted' = FALSE ELSE UNCHANGED trust
Remove(t) ==
  /\ Goes(t, "remove", "idle") /\ Leaves(t)
  /\ \/ /\ dir[key[t]] # {}
        /\ Change([dir EXCEPT ![key[t]] = {}], tmp)
        /\ index' = [index EXCEPT ![key[t]] = {}] /\ Doubt /\ UNCHANGED skipped
     \/ /\ index' = [index EXCEPT ![key[t]] = {}] /\ UNCHANGED disk
        /\ skipped' = skipped \cup ({key[t]} \cap Present) /\ UNCHANGED trust
     \/ UNCHANGED <<index, disk, skipped, trust>>
  /\ UNCHANGED <<up, crashes, readers, key, body, now, calls, vocab, acked>>

(* recall_knowledge, under a shared_lock: is the file there, then read it. *)
Recall(t, k) ==
  /\ writer = None /\ dir[k] # {} /\ Goes(t, "idle", "read")
  /\ readers' = readers \cup {t} /\ key' = [key EXCEPT ![t] = k]
  /\ UNCHANGED <<up, crashes, writer, body, index, disk, now, calls, vocab, history>>
Read(t) ==
  /\ Goes(t, "read", "idle") /\ readers' = readers \ {t}
  /\ UNCHANGED <<up, crashes, writer, key, body, index, disk, now, calls, vocab, history>>
-----------------------------------------------------------------------------
(* render_knowledge_vocabulary: without any lock of the store, the mtime   *)
(* and the number of names (either may fail), the cache, and if need be a  *)
(* scan of the files.  A render is sure when it counted every name, with   *)
(* no save under way or after the tick of the last change, and read every  *)
(* file, and no entry was forgotten since in that tick.                    *)
NoTime == 0                                                       \* mutant
DirTime == mtime
Signature == [mtime |-> DirTime, count |-> Names]
Settled == Temporaries = {} \/ mtime < now

ProbeTime(t) ==
  /\ renders < MaxRenders /\ Goes(t, "idle", "count")
  /\ renders' = renders + 1
  /\ \E time \in {DirTime, 0} : probe' = [probe EXCEPT ![t].mtime = time]
  /\ UNCHANGED <<up, crashes, lock, key, body, index, disk, now, calls, left, seen, cache,
                 history>>
ProbeCount(t) ==
  /\ Goes(t, "count", "look")
  /\ \E n \in 0..Names :
       /\ probe' = [probe EXCEPT ![t].count = n]
       /\ sure' = IF n = Names /\ Settled THEN sure \cup {t} ELSE sure \ {t}
  /\ UNCHANGED <<up, crashes, lock, key, body, index, disk, now, calls, renders, left, seen,
                 cache, acked, skipped, trusted>>
Returns(t) == probe' = [probe EXCEPT ![t] = NoSignature] /\ sure' = sure \ {t}
Look(t) ==
  /\ \/ cache.sig = probe[t] /\ Goes(t, "look", "idle") /\ Returns(t) /\ UNCHANGED left
     \/ /\ cache.sig # probe[t] /\ Goes(t, "look", "scan")
        /\ left' = [left EXCEPT ![t] = Key] /\ UNCHANGED <<probe, sure>>
  /\ UNCHANGED <<up, crashes, lock, key, body, index, disk, now, calls, renders, seen,
                 cache, acked, skipped, trusted>>
Scan(t, k) ==
  /\ up /\ at[t] = "scan" /\ k \in left[t]
  /\ left' = [left EXCEPT ![t] = @ \ {k}]
  /\ \/ /\ seen' = [seen EXCEPT ![t] = @ \cup ({k} \cap Listed)] /\ UNCHANGED sure
     \/ k \in Listed /\ sure' = sure \ {t} /\ UNCHANGED seen
  /\ UNCHANGED <<up, crashes, lock, thread, index, disk, now, calls, renders, probe, cache,
                 acked, skipped, trusted>>
Store(t) ==
  /\ left[t] = {} /\ Goes(t, "scan", "idle") /\ Returns(t)
  /\ cache' = [sig |-> probe[t], keys |-> seen[t]]
  /\ seen' = [seen EXCEPT ![t] = {}] /\ trusted' = (t \in sure)
  /\ UNCHANGED <<up, crashes, lock, key, body, index, disk, now, calls, renders, left, acked,
                 skipped>>
-----------------------------------------------------------------------------
Crash ==
  /\ up /\ crashes < MaxCrashes
  /\ up' = FALSE /\ crashes' = crashes + 1
  /\ UNCHANGED <<lock, thread, index, disk, now, calls, vocab, history>>

(* load_index_locked: the files with a valid title that can be read.       *)
Restart ==
  /\ ~up /\ up' = TRUE /\ writer' = None /\ readers' = {}
  /\ at' = [t \in Thread |-> "idle"]
  /\ key' = [t \in Thread |-> SomeKey] /\ body' = [t \in Thread |-> {}]
  /\ \E unread \in SUBSET Present :
       /\ index' = [k \in Key |-> IF k \in BadTitle \cup unread THEN {} ELSE dir[k]]
       /\ skipped' = skipped \cup unread
  /\ tmp' = [k \in Key |-> "none"] /\ orphans' = orphans + Cardinality(Temporaries)
  /\ cache' = [sig |-> NoSignature, keys |-> {}]
  /\ left' = [t \in Thread |-> {}] /\ seen' = [t \in Thread |-> {}]
  /\ probe' = [t \in Thread |-> NoSignature] /\ sure' = {} /\ trusted' = FALSE
  /\ UNCHANGED <<crashes, dir, mtime, now, calls, renders, acked>>

(* The clock stamps a change with its tick, not with an instant.           *)
Tick ==
  /\ now < MaxTicks /\ now' = now + 1
  /\ UNCHANGED <<up, crashes, lock, thread, index, disk, calls, vocab, history>>

ToolStep(t) ==
  \/ \E k \in Key : Learn(t, k) \/ LearnMore(t, k) \/ Forget(t, k) \/ Recall(t, k)
  \/ Open(t) \/ Write(t) \/ Rename(t) \/ Index(t) \/ Remove(t) \/ Read(t)
RenderStep(t) == \/ ProbeTime(t) \/ ProbeCount(t) \/ Look(t) \/ Store(t)
                 \/ \E k \in Key : Scan(t, k)
Next == \/ \E t \in Thread : ToolStep(t) \/ RenderStep(t)
        \/ Crash \/ Restart \/ Tick
Spec == Init /\ [][Next]_vars
-----------------------------------------------------------------------------
Writing  == {"open", "write", "rename", "index", "remove"}
Contents == 1..MaxCalls
SignatureType == [mtime : Int, count : Nat]
TypeOK ==
  /\ up \in BOOLEAN /\ crashes \in 0..MaxCrashes
  /\ writer \in Thread \cup {None} /\ readers \subseteq Thread
  /\ \A t \in Thread : t = writer <=> at[t] \in Writing
  /\ at \in [Thread -> {"idle", "open", "write", "rename", "index", "remove", "read",
                        "count", "look", "scan"}]
  /\ key \in [Thread -> Key] /\ body \in [Thread -> SUBSET (Contents \cup {Cut})]
  /\ index \in [Key -> SUBSET (Contents \cup {Cut})]
  /\ dir \in [Key -> SUBSET (Contents \cup {Cut})]
  /\ tmp \in [Key -> {"none", "part", "whole"}] /\ orphans \in Nat
  /\ now \in 1..MaxTicks /\ mtime \in 1..now
  /\ calls \in 0..MaxCalls /\ renders \in 0..MaxRenders
  /\ probe \in [Thread -> SignatureType]
  /\ left \in [Thread -> SUBSET Key] /\ seen \in [Thread -> SUBSET Key]
  /\ cache \in [sig : SignatureType, keys : SUBSET Key]
  /\ acked \in [Key -> SUBSET (Contents \cup {Cut})] /\ skipped \subseteq Key
  /\ sure \subseteq Thread /\ trusted \in BOOLEAN

(* Keys no start has failed to index.                                      *)
Sound == Key \ (BadTitle \cup skipped)

(* Wherever the process dies, and whatever write fails, no entry is cut    *)
(* short ("atomic tempfile + rename", rag_tools.cpp:633).                  *)
EntriesAreWhole == \A k \in Key : Cut \notin dir[k]

(* What the tool has said it learned is still in the file, through later   *)
(* additions, failed writes and restarts, until somebody learns the key    *)
(* anew or forgets it.                                                     *)
LearnedIsKept == \A k \in Sound : acked[k] \subseteq dir[k]

(* Between two writers the index is what the disk holds: what is found can *)
(* be recalled, what was learned is found, after any restart.              *)
IndexIsTheDisk == up /\ writer = None => \A k \in Sound : index[k] = dir[k]

(* A file that was there when a reader looked is there when it reads.      *)
RecallFindsItsFile == \A t \in Thread : up /\ at[t] = "read" => dir[key[t]] # {}

(* What is kept is whole, indexed and found again.                         *)
StoreIsSafe == TypeOK /\ EntriesAreWhole /\ IndexIsTheDisk /\ RecallFindsItsFile

(* While the directory has the time and the number of names the cache was  *)
(* stored under, a vocabulary of a sure render names the keywords the      *)
(* store has, though writers change the files during the scan, renders     *)
(* overlap, and several saves fall in one tick of the mtime: those the     *)
(* count tells apart (rag_tools.cpp:1445).                                 *)
CacheIsCurrent == up /\ trusted /\ cache.sig = Signature => cache.keys = Listed

(* A pinned entry the index knows is never written again nor removed.      *)
KnownPinnedIsKept ==
  [][\A k \in Pinned : index[k] # {} => dir'[k] = dir[k]]_vars

(* "Files starting with `fix-` cannot be overwritten or deleted by the     *)
(* model" (rag_tools.cpp:116).                                             *)
PinnedIsForever == [][\A k \in Pinned : dir[k] # {} => dir'[k] = dir[k]]_vars
=============================================================================
