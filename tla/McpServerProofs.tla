--------------------------- MODULE McpServerProofs ---------------------------
(***************************************************************************)
(* Proofs about the two parts of the MCP server that its threads share:    *)
(* InFlightLimiter, for any number of threads and any cap, and             *)
(* KnowledgeStore, for any number of threads, entries, calls, prompts and  *)
(* crashes.                                                                *)
(***************************************************************************)
EXTENDS InFlightLimiter, KnowledgeStore, FiniteSetTheorems, TLAPS

-----------------------------------------------------------------------------
(* The limiter.                                                            *)
(* A slot is held from the comparison to the end of the handler, by every  *)
(* tools/call that runs and by nobody else.                                *)
HeldWhileServed ==
  \A t \in Worker :
    /\ held[t] => stage[t] \in {"dispatch", "answer"}
    /\ call[t] /\ stage[t] = "dispatch" => held[t]

LimiterInv ==
  /\ LimiterTypeOK /\ HeldWhileServed
  /\ Cardinality(Holders) <= Cap
  /\ count = Cardinality(Holders) + Cardinality(Refusing)

(* The sets counted are finite, whatever the state.                        *)
LEMMA CountsAreNumbers ==
  ASSUME LimiterAssumption
  PROVE  /\ IsFiniteSet(Holders) /\ Cardinality(Holders) \in Nat
         /\ IsFiniteSet(Refusing) /\ Cardinality(Refusing) \in Nat
<1>1. Holders \in SUBSET Worker /\ Refusing \in SUBSET Worker
  BY DEF Holders, Refusing
<1>2. IsFiniteSet(Holders) /\ IsFiniteSet(Refusing)
  BY <1>1, FS_Subset DEF LimiterAssumption
<1>3. QED
  BY <1>2, FS_CardinalityType

LEMMA LimiterInvInit == LimiterAssumption /\ LimiterInit => LimiterInv
<1> SUFFICES ASSUME LimiterAssumption, LimiterInit PROVE LimiterInv
  OBVIOUS
<1>1. Holders = {} /\ Refusing = {}
  BY DEF LimiterInit, Holders, Refusing
<1>2. Cardinality(Holders) = 0 /\ Cardinality(Refusing) = 0
  BY <1>1, FS_EmptySet
<1>3. LimiterTypeOK /\ HeldWhileServed
  BY DEF LimiterInit, LimiterTypeOK, HeldWhileServed
<1>4. QED
  BY <1>2, <1>3 DEF LimiterInv, LimiterInit, LimiterAssumption

(* What each step of a thread does to the two sets.                        *)
LEMMA LimiterInvStep ==
  ASSUME LimiterAssumption, LimiterInv, NEW t \in Worker, Step(t)
  PROVE  LimiterInv'
<1>t. LimiterTypeOK /\ HeldWhileServed /\ Cap \in Nat /\ IsFiniteSet(Worker)
  BY DEF LimiterInv, LimiterAssumption
<1>n. /\ IsFiniteSet(Holders) /\ Cardinality(Holders) \in Nat
      /\ IsFiniteSet(Refusing) /\ Cardinality(Refusing) \in Nat
  BY CountsAreNumbers
<1>k. Cardinality(Holders) <= Cap /\ count = Cardinality(Holders) + Cardinality(Refusing)
  BY DEF LimiterInv
<1>s. ASSUME Holders' = Holders, Refusing' = Refusing, count' = count,
             LimiterTypeOK', HeldWhileServed'
      PROVE  LimiterInv'
  BY <1>s, <1>k DEF LimiterInv
<1>1. CASE Arrive(t)
  <2>1. LimiterTypeOK' /\ HeldWhileServed'
    <3>1. LimiterTypeOK'
      <4>1. stage' \in [Worker -> {"idle", "enter", "rollback", "dispatch", "answer"}]
        BY <1>t, <1>1 DEF Arrive, Moves, LimiterTypeOK
      <4>2. call' \in [Worker -> BOOLEAN]
        <5>1. PICK b \in BOOLEAN : call' = [call EXCEPT ![t] = b]
          BY <1>1 DEF Arrive
        <5>2. QED
          BY <1>t, <5>1, Zenon DEF LimiterTypeOK
      <4>3. QED
        BY <1>t, <1>1, <4>1, <4>2 DEF Arrive, LimiterTypeOK
    <3>2. HeldWhileServed'
      <4>1. /\ ~held[t] /\ held' = held
            /\ stage'[t] = "dispatch" => ~call'[t]
        BY <1>t, <1>1 DEF Arrive, Moves, LimiterTypeOK, HeldWhileServed
      <4>2. \A u \in Worker \ {t} : stage'[u] = stage[u] /\ call'[u] = call[u]
        BY <1>t, <1>1 DEF Arrive, Moves, LimiterTypeOK
      <4>3. QED
        BY <1>t, <4>1, <4>2 DEF HeldWhileServed
    <3>3. QED
      BY <3>1, <3>2
  <2>2. Holders' = Holders /\ Refusing' = Refusing
    BY <1>t, <1>1 DEF Arrive, Moves, Holders, Refusing, LimiterTypeOK
  <2>3. QED
    BY <1>1, <1>s, <2>1, <2>2 DEF Arrive
<1>2. CASE Acquire(t)
  <2>1. count' = count + 1 /\ count' \in Nat /\ stage[t] = "enter" /\ ~held[t]
    BY <1>t, <1>2 DEF Acquire, Moves, LimiterTypeOK, HeldWhileServed
  <2>2. LimiterTypeOK'
    <3>1. stage' \in [Worker -> {"idle", "enter", "rollback", "dispatch", "answer"}]
      BY <1>t, <1>2 DEF Acquire, Moves, LimiterTypeOK
    <3>2. held' \in [Worker -> BOOLEAN]
      <4>1. held' = held \/ held' = [held EXCEPT ![t] = TRUE]
        BY <1>2 DEF Acquire
      <4>2. held \in [Worker -> BOOLEAN]
        BY <1>t DEF LimiterTypeOK
      <4>3. CASE held' = held
        BY <4>2, <4>3
      <4>4. CASE held' = [held EXCEPT ![t] = TRUE]
        BY <4>2, <4>4
      <4>5. QED
        BY <4>1, <4>3, <4>4
    <3>3. QED
      BY <1>t, <1>2, <2>1, <3>1, <3>2 DEF Acquire, LimiterTypeOK
  <2>3. HeldWhileServed'
    <3>1. CASE AtCap
      BY <1>t, <1>2, <2>1, <3>1 DEF Acquire, Moves, LimiterTypeOK, HeldWhileServed
    <3>2. CASE ~AtCap
      <4>1. stage'[t] = "dispatch" /\ held'[t] /\ call' = call
        BY <1>t, <1>2, <3>2 DEF Acquire, Moves, LimiterTypeOK
      <4>2. \A u \in Worker \ {t} : stage'[u] = stage[u] /\ held'[u] = held[u]
        BY <1>t, <1>2, <3>2 DEF Acquire, Moves, LimiterTypeOK
      <4>3. QED
        BY <1>t, <4>1, <4>2 DEF HeldWhileServed
    <3>3. QED
      BY <3>1, <3>2
  <2>4. CASE AtCap
    <3>1. Holders' = Holders /\ Refusing' = Refusing \cup {t} /\ t \notin Refusing
      BY <1>t, <1>2, <2>1, <2>4 DEF Acquire, Moves, Holders, Refusing, LimiterTypeOK
    <3>2. Cardinality(Refusing') = Cardinality(Refusing) + 1
      BY <1>n, <3>1, FS_AddElement
    <3>3. QED
      BY <1>n, <1>k, <2>1, <2>2, <2>3, <3>1, <3>2 DEF LimiterInv
  <2>5. CASE ~AtCap
    <3>1. Holders' = Holders \cup {t} /\ t \notin Holders /\ Refusing' = Refusing
      BY <1>t, <1>2, <2>1, <2>5 DEF Acquire, Moves, Holders, Refusing, LimiterTypeOK
    <3>2. Cardinality(Holders') = Cardinality(Holders) + 1
      BY <1>n, <3>1, FS_AddElement
    <3>3. Cardinality(Holders) + 1 <= Cap
      BY <1>t, <1>n, <1>k, <2>5 DEF AtCap
    <3>4. QED
      BY <1>n, <1>k, <2>1, <2>2, <2>3, <3>1, <3>2, <3>3 DEF LimiterInv
  <2>6. QED
    BY <2>4, <2>5
<1>3. CASE RollBack(t)
  <2>1. Holders' = Holders /\ Refusing' = Refusing \ {t} /\ t \in Refusing
    BY <1>t, <1>3 DEF RollBack, Moves, Holders, Refusing, LimiterTypeOK
  <2>2. Cardinality(Refusing') = Cardinality(Refusing) - 1
    BY <1>n, <2>1, FS_RemoveElement
  <2>3. Cardinality(Refusing') \in Nat
    BY <2>1, <1>n, FS_RemoveElement, FS_CardinalityType
  <2>4. count' = Cardinality(Holders') + Cardinality(Refusing') /\ count' \in Nat
    BY <1>3, <1>n, <1>k, <2>1, <2>2, <2>3 DEF RollBack
  <2>5. LimiterTypeOK'
    BY <1>t, <1>3, <2>4 DEF RollBack, Moves, LimiterTypeOK
  <2>6. HeldWhileServed'
    BY <1>t, <1>3 DEF RollBack, Moves, LimiterTypeOK, HeldWhileServed
  <2>7. QED
    BY <1>k, <2>1, <2>4, <2>5, <2>6 DEF LimiterInv
<1>4. CASE Dispatch(t)
  <2>1. LimiterTypeOK' /\ HeldWhileServed'
    <3>1. LimiterTypeOK'
      BY <1>t, <1>4 DEF Dispatch, Moves, LimiterTypeOK
    <3>2. HeldWhileServed'
      BY <1>t, <1>4 DEF Dispatch, Moves, LimiterTypeOK, HeldWhileServed
    <3>3. QED
      BY <3>1, <3>2
  <2>2. Holders' = Holders /\ Refusing' = Refusing
    BY <1>t, <1>4 DEF Dispatch, Moves, Holders, Refusing, LimiterTypeOK
  <2>3. QED
    BY <1>4, <1>s, <2>1, <2>2 DEF Dispatch
<1>5. CASE Return(t)
  <2>1. Refusing' = Refusing /\ Holders' = Holders \ {t}
    BY <1>t, <1>5 DEF Return, Moves, Holders, Refusing, LimiterTypeOK
  <2>2. t \in Holders <=> held[t]
    BY DEF Holders
  <2>3. /\ Cardinality(Holders') \in Nat
        /\ Cardinality(Holders') =
             IF held[t] THEN Cardinality(Holders) - 1 ELSE Cardinality(Holders)
    BY <1>n, <2>1, <2>2, FS_RemoveElement, FS_CardinalityType
  <2>4. count' = IF held[t] THEN count - 1 ELSE count
    BY <1>5 DEF Return, Releases
  <2>5. /\ count' = Cardinality(Holders') + Cardinality(Refusing') /\ count' \in Nat
        /\ Cardinality(Holders') <= Cap
    BY <1>t, <1>n, <1>k, <2>1, <2>3, <2>4
  <2>6. LimiterTypeOK'
    BY <1>t, <1>5, <2>5 DEF Return, Moves, LimiterTypeOK
  <2>7. HeldWhileServed'
    BY <1>t, <1>5 DEF Return, Moves, LimiterTypeOK, HeldWhileServed
  <2>8. QED
    BY <2>5, <2>6, <2>7 DEF LimiterInv
<1>6. QED
  BY <1>1, <1>2, <1>3, <1>4, <1>5 DEF Step

LEMMA LimiterInvariant == LimiterSpec => []LimiterInv
<1>1. LimiterInit => LimiterInv
  BY LimiterAssumption, LimiterInvInit
<1>2. LimiterInv /\ [LimiterNext]_limiterVars => LimiterInv'
  <2> SUFFICES ASSUME LimiterInv, [LimiterNext]_limiterVars PROVE LimiterInv'
    OBVIOUS
  <2>1. CASE LimiterNext
    BY <2>1, LimiterAssumption, LimiterInvStep DEF LimiterNext
  <2>2. CASE UNCHANGED limiterVars
    BY <2>2 DEF LimiterInv, LimiterTypeOK, HeldWhileServed, Holders, Refusing, limiterVars
  <2>3. QED
    BY <2>1, <2>2
<1>3. QED
  BY <1>1, <1>2, PTL DEF LimiterSpec

(* However many calls come, are refused, throw or end at once, no more     *)
(* than Cap tools run, and no slot is lost or given back twice.            *)
THEOREM CapHolds == LimiterSpec => []SlotsAreExact
<1>1. LimiterInv => SlotsAreExact
  <2> SUFFICES ASSUME LimiterInv PROVE SlotsAreExact
    OBVIOUS
  <2>1. ToolCalls \in SUBSET Holders
    BY DEF LimiterInv, HeldWhileServed, ToolCalls, Holders
  <2>2. /\ IsFiniteSet(Holders) /\ Cardinality(Holders) \in Nat
        /\ Cardinality(ToolCalls) \in Nat /\ Cardinality(ToolCalls) <= Cardinality(Holders)
    BY <2>1, LimiterAssumption, CountsAreNumbers, FS_Subset, FS_CardinalityType
  <2>3. QED
    BY <2>2, LimiterAssumption DEF LimiterInv, SlotsAreExact, LimiterAssumption
<1>2. QED
  BY <1>1, LimiterInvariant, PTL

-----------------------------------------------------------------------------
(* The knowledge store.                                                    *)
Place == {"idle", "open", "write", "rename", "index", "remove", "read",
          "count", "look", "scan"}
Body  == SUBSET (Contents \cup {Cut})

(* Who holds the lock and where the threads are.                           *)
ThreadsTypeOK ==
  /\ up \in BOOLEAN
  /\ writer \in Thread \cup {None} /\ readers \subseteq Thread
  /\ at \in [Thread -> Place] /\ key \in [Thread -> Key] /\ body \in [Thread -> Body]
  /\ \A t \in Thread : t = writer <=> at[t] \in Writing

(* What is kept in memory and on the disk, and the history of it.          *)
StoreTypeOK ==
  /\ index \in [Key -> Body] /\ dir \in [Key -> Body]
  /\ tmp \in [Key -> {"none", "part", "whole"}]
  /\ orphans \in Nat
  /\ acked \in [Key -> Body] /\ skipped \in SUBSET Key

(* The vocabulary and the scans that fill it.                              *)
VocabTypeOK ==
  /\ probe \in [Thread -> SignatureType]
  /\ left \in [Thread -> SUBSET Key] /\ seen \in [Thread -> SUBSET Key]
  /\ cache \in [sig : SignatureType, keys : SUBSET Key]

BoundsTypeOK ==
  /\ crashes \in 0..MaxCrashes /\ calls \in 0..MaxCalls /\ renders \in 0..MaxRenders

(* The clock, and what is known of the renders.                            *)
ClockTypeOK ==
  /\ now \in 1..MaxTicks /\ mtime \in 1..now
  /\ sure \in SUBSET Thread /\ trusted \in BOOLEAN

MainTypeOK  == ThreadsTypeOK /\ StoreTypeOK /\ VocabTypeOK /\ BoundsTypeOK
PartsTypeOK == MainTypeOK /\ ClockTypeOK

LEMMA PartsAreTypeOK == PartsTypeOK <=> TypeOK
BY DEF PartsTypeOK, MainTypeOK, ThreadsTypeOK, StoreTypeOK, VocabTypeOK, BoundsTypeOK,
       ClockTypeOK, TypeOK, Place, Body

(* The names in the directory can be counted.                              *)
LEMMA NamesAreNumbers ==
  ASSUME StoreTypeOK
  PROVE  Cardinality(Temporaries) \in Nat /\ Names \in Nat
<1>1. Present \in SUBSET Key /\ Temporaries \in SUBSET Key /\ IsFiniteSet(Key)
  BY KnowledgeAssumption DEF Present, Temporaries
<1>2. Cardinality(Present) \in Nat /\ Cardinality(Temporaries) \in Nat
  BY <1>1, FS_Subset, FS_CardinalityType
<1>3. QED
  BY <1>2 DEF Names, StoreTypeOK
-----------------------------------------------------------------------------
(* Types.                                                                  *)
LEMMA TypesInit == Init => PartsTypeOK
<1> SUFFICES ASSUME Init PROVE PartsTypeOK
  OBVIOUS
<1>1. ThreadsTypeOK
  <2>1. SomeKey \in Key
    BY KnowledgeAssumption DEF SomeKey
  <2>2. key \in [Thread -> Key]
    BY <2>1 DEF Init
  <2>3. QED
    BY <2>2, KnowledgeAssumption DEF Init, ThreadsTypeOK, Place, Body, Writing
<1>2. StoreTypeOK
  BY DEF Init, StoreTypeOK, Body
<1>3. NoSignature \in SignatureType
  BY DEF NoSignature, SignatureType
<1>4. VocabTypeOK
  BY <1>3 DEF Init, VocabTypeOK
<1>5. BoundsTypeOK
  BY KnowledgeAssumption DEF Init, BoundsTypeOK
<1>6. QED
  <2>1. MaxTicks \in Nat \ {0}
    BY KnowledgeAssumption
  <2>2. ClockTypeOK
    <3>1. now = 1 /\ mtime = 1 /\ sure = {} /\ trusted = FALSE
      BY DEF Init
    <3>2. now \in 1..MaxTicks /\ mtime \in 1..now
      BY <2>1, <3>1
    <3>3. sure \in SUBSET Thread /\ trusted \in BOOLEAN
      BY <3>1
    <3>4. QED
      BY <3>2, <3>3 DEF ClockTypeOK
  <2>3. QED
    BY <1>1, <1>2, <1>4, <1>5, <2>2 DEF PartsTypeOK, MainTypeOK

(* Each action of a thread keeps the types.                                *)
LEMMA TypesEnter ==
  ASSUME PartsTypeOK, NEW t \in Thread, NEW k \in Key,
         Learn(t, k) \/ LearnMore(t, k) \/ Forget(t, k)
  PROVE  MainTypeOK'
<1> USE DEF PartsTypeOK, MainTypeOK
<1>1. /\ writer = None /\ calls < MaxCalls /\ up /\ at[t] = "idle"
      /\ writer' = t /\ key' = [key EXCEPT ![t] = k] /\ calls' = calls + 1
      /\ \E to \in {"open", "remove"} : at' = [at EXCEPT ![t] = to]
      /\ UNCHANGED <<up, crashes, readers, index, disk, vocab, skipped>>
  BY DEF Learn, LearnMore, Forget, Enters, CanWrite, Goes, history
<1>2. calls + 1 \in Contents
  BY <1>1, KnowledgeAssumption DEF BoundsTypeOK, Contents
<1>3. body' \in [Thread -> Body]
  <2>1. OldBody(k) \in Body
    BY DEF OldBody, StoreTypeOK, Body
  <2>2. body' = body \/ \E b \in Body : body' = [body EXCEPT ![t] = b]
    BY <1>2, <2>1 DEF Learn, LearnMore, Forget, Body
  <2>3. QED
    BY <2>2 DEF ThreadsTypeOK
<1>4. acked' \in [Key -> Body]
  <2>1. acked' = acked \/ acked' = [acked EXCEPT ![k] = {}]
    BY DEF Learn, LearnMore, Forget, history
  <2>2. QED
    BY <2>1 DEF StoreTypeOK, Body
<1>5. ThreadsTypeOK'
  BY <1>1, <1>3, KnowledgeAssumption DEF ThreadsTypeOK, Place, Writing
<1>6. StoreTypeOK'
  BY <1>1, <1>4 DEF StoreTypeOK, disk
<1>7. VocabTypeOK' /\ BoundsTypeOK'
  BY <1>1, <1>2 DEF VocabTypeOK, BoundsTypeOK, vocab, Contents
<1>8. QED
  BY <1>5, <1>6, <1>7

LEMMA TypesSave ==
  ASSUME PartsTypeOK, NEW t \in Thread, Open(t) \/ Write(t) \/ Rename(t)
  PROVE  MainTypeOK'
<1> USE DEF PartsTypeOK, MainTypeOK
<1>1. /\ \/ \E to \in Writing : at' = [at EXCEPT ![t] = to] /\ writer' = writer
         \/ at' = [at EXCEPT ![t] = "idle"] /\ writer' = None
      /\ at[t] \in Writing
      /\ UNCHANGED <<up, crashes, readers, key, body, index, calls, vocab, history>>
  BY DEF Open, Write, Rename, GivesUp, Drops, Goes, Leaves, Writing
<1>2. ThreadsTypeOK'
  BY <1>1, KnowledgeAssumption DEF ThreadsTypeOK, Place, Writing
<1>3. orphans' = orphans
  BY DEF Open, Write, Rename, GivesUp, Drops, Change, disk
<1>4. tmp' = tmp \/ \E s \in {"none", "part", "whole"} : tmp' = [tmp EXCEPT ![key[t]] = s]
  BY DEF Open, Write, Rename, GivesUp, Drops, Change, disk
<1>5. dir' = dir \/ \E b \in Body : dir' = [dir EXCEPT ![key[t]] = b]
  <2>1. body[t] \in Body /\ {Cut} \in Body
    BY DEF ThreadsTypeOK, Body
  <2>2. QED
    BY <2>1 DEF Open, Write, Rename, GivesUp, Drops, Change, disk
<1>6. StoreTypeOK'
  BY <1>1, <1>3, <1>4, <1>5 DEF StoreTypeOK, history
<1>7. VocabTypeOK' /\ BoundsTypeOK'
  BY <1>1 DEF VocabTypeOK, BoundsTypeOK, vocab
<1>8. QED
  BY <1>2, <1>6, <1>7

LEMMA TypesLeave ==
  ASSUME PartsTypeOK, NEW t \in Thread, Index(t) \/ Remove(t)
  PROVE  MainTypeOK'
<1> USE DEF PartsTypeOK, MainTypeOK
<1>1. /\ at' = [at EXCEPT ![t] = "idle"] /\ writer' = None /\ at[t] \in Writing
      /\ UNCHANGED <<up, crashes, readers, key, body, calls, vocab>>
  BY DEF Index, Remove, Goes, Leaves, Writing
<1>2. ThreadsTypeOK'
  BY <1>1, KnowledgeAssumption DEF ThreadsTypeOK, Place, Writing
<1>3. /\ index' = index \/ \E b \in Body : index' = [index EXCEPT ![key[t]] = b]
      /\ acked' = acked \/ \E b \in Body : acked' = [acked EXCEPT ![key[t]] = b]
      /\ dir' = dir \/ \E b \in Body : dir' = [dir EXCEPT ![key[t]] = b]
  <2>1. body[t] \in Body /\ {} \in Body /\ key[t] \in Key /\ acked[key[t]] \in Body
    BY DEF ThreadsTypeOK, StoreTypeOK, Body
  <2>2. acked[key[t]] \cup body[t] \in Body
    BY <2>1 DEF Body
  <2>3. QED
    BY <2>1, <2>2 DEF Index, Remove, Indexed, Change, disk
<1>4. /\ tmp' = tmp /\ orphans' = orphans
      /\ skipped' = skipped \/ skipped' = skipped \cup ({key[t]} \cap Present)
  BY DEF Index, Remove, Change, disk
<1>5. StoreTypeOK'
  BY <1>1, <1>3, <1>4 DEF StoreTypeOK, ThreadsTypeOK, Present
<1>6. VocabTypeOK' /\ BoundsTypeOK'
  BY <1>1 DEF VocabTypeOK, BoundsTypeOK, vocab
<1>7. QED
  BY <1>2, <1>5, <1>6

LEMMA TypesReader ==
  ASSUME PartsTypeOK, NEW t \in Thread,
         (\E k \in Key : Recall(t, k)) \/ Read(t) \/ RenderStep(t)
  PROVE  MainTypeOK'
<1> USE DEF PartsTypeOK, MainTypeOK
<1>1. CASE (\E k \in Key : Recall(t, k)) \/ Read(t)
  <2>1. ThreadsTypeOK'
    BY <1>1, KnowledgeAssumption DEF Recall, Read, Goes, ThreadsTypeOK, Place, Writing
  <2>2. UNCHANGED <<crashes, index, disk, calls, vocab, history>>
    BY <1>1 DEF Recall, Read
  <2>3. QED
    BY <2>1, <2>2
    DEF StoreTypeOK, VocabTypeOK, BoundsTypeOK, disk, vocab, history
<1>2. CASE RenderStep(t)
  <2>1. UNCHANGED <<up, crashes, lock, key, body, index, disk, calls, acked, skipped>>
    BY <1>2 DEF RenderStep, ProbeTime, ProbeCount, Look, Store, Scan, thread,
                history
  <2>2. StoreTypeOK'
    BY <2>1 DEF StoreTypeOK, disk
  <2>3. ThreadsTypeOK'
    <3>1. at' = at \/ \E to \in {"count", "look", "scan", "idle"} :
                        at[t] \notin Writing /\ at' = [at EXCEPT ![t] = to]
      BY <1>2 DEF RenderStep, ProbeTime, ProbeCount, Look, Store, Scan, thread, Goes,
                  Writing
    <3>2. QED
      BY <2>1, <3>1 DEF ThreadsTypeOK, lock, Place, Writing
  <2>4. BoundsTypeOK'
    <3>1. renders' = renders \/ (renders < MaxRenders /\ renders' = renders + 1)
      BY <1>2 DEF RenderStep, ProbeTime, ProbeCount, Look, Store, Scan
    <3>2. QED
      BY <2>1, <3>1, KnowledgeAssumption DEF BoundsTypeOK
  <2>5. probe' = probe \/ \E s \in SignatureType : probe' = [probe EXCEPT ![t] = s]
    <3>0. /\ probe[t] \in SignatureType /\ NoSignature \in SignatureType
          /\ {DirTime, 0} \subseteq Int /\ Names \in Nat
      BY NamesAreNumbers
      DEF VocabTypeOK, StoreTypeOK, ClockTypeOK, DirTime, NoSignature, SignatureType
    <3>1. CASE ProbeTime(t)
      <4>1. PICK time \in {DirTime, 0} :
              probe' = [probe EXCEPT ![t] = [probe[t] EXCEPT !.mtime = time]]
        BY <3>1 DEF ProbeTime
      <4>2. [probe[t] EXCEPT !.mtime = time] \in SignatureType
        BY <3>0 DEF SignatureType
      <4>3. QED
        BY <4>1, <4>2
    <3>2. CASE ProbeCount(t)
      <4>1. PICK n \in 0..Names :
              probe' = [probe EXCEPT ![t] = [probe[t] EXCEPT !.count = n]]
        BY <3>2 DEF ProbeCount
      <4>2. [probe[t] EXCEPT !.count = n] \in SignatureType
        BY <3>0 DEF SignatureType
      <4>3. QED
        BY <4>1, <4>2
    <3>3. QED
      BY <1>2, <3>0, <3>1, <3>2 DEF RenderStep, Look, Store, Scan, Returns
  <2>6. /\ left' = left \/ \E K \in SUBSET Key : left' = [left EXCEPT ![t] = K]
        /\ seen' = seen \/ \E K \in SUBSET Key : seen' = [seen EXCEPT ![t] = K]
        /\ cache' = cache \/ cache' = [sig |-> probe[t], keys |-> seen[t]]
    <3>1. left[t] \in SUBSET Key /\ seen[t] \in SUBSET Key /\ {} \in SUBSET Key
      BY DEF VocabTypeOK
    <3>2. ASSUME NEW k \in Key
          PROVE  left[t] \ {k} \in SUBSET Key /\ seen[t] \cup ({k} \cap Listed) \in SUBSET Key
      BY <3>1
    <3>3. QED
      BY <1>2, <3>1, <3>2 DEF RenderStep, ProbeTime, ProbeCount, Look, Store, Scan
  <2>7. VocabTypeOK'
    BY <2>5, <2>6 DEF VocabTypeOK
  <2>8. QED
    BY <2>2, <2>3, <2>4, <2>7
<1>3. QED
  BY <1>1, <1>2

LEMMA TypesLife ==
  ASSUME PartsTypeOK, Crash \/ Restart \/ Tick
  PROVE  MainTypeOK'
<1> USE DEF PartsTypeOK, MainTypeOK
<1>1. CASE Crash
  <2>1. /\ UNCHANGED <<lock, thread, index, disk, calls, vocab, history>>
        /\ up' = FALSE /\ crashes < MaxCrashes /\ crashes' = crashes + 1
    BY <1>1 DEF Crash
  <2>2. ThreadsTypeOK' /\ StoreTypeOK'
    BY <2>1 DEF ThreadsTypeOK, StoreTypeOK, lock, thread, disk, history
  <2>3. VocabTypeOK' /\ BoundsTypeOK'
    BY <2>1, KnowledgeAssumption DEF VocabTypeOK, BoundsTypeOK, vocab
  <2>4. QED
    BY <2>2, <2>3
<1>2. CASE Restart
  <2>1. ThreadsTypeOK'
    BY <1>2, KnowledgeAssumption
    DEF Restart, ThreadsTypeOK, Place, Writing, SomeKey, Body
  <2>2. index' \in [Key -> Body] /\ skipped' \in SUBSET Key
    <3>1. PICK unread \in SUBSET Present :
            /\ index' = [k \in Key |-> IF k \in BadTitle \cup unread THEN {} ELSE dir[k]]
            /\ skipped' = skipped \cup unread
      BY <1>2 DEF Restart
    <3>2. QED
      BY <3>1 DEF StoreTypeOK, Body, Present
  <2>3. StoreTypeOK'
    BY <1>2, <2>2, NamesAreNumbers DEF Restart, StoreTypeOK
  <2>4. VocabTypeOK'
    <3>1. NoSignature \in SignatureType
      BY DEF NoSignature, SignatureType
    <3>2. QED
      BY <1>2, <3>1 DEF Restart, VocabTypeOK
  <2>5. QED
    BY <1>2, <2>1, <2>3, <2>4 DEF Restart, BoundsTypeOK
<1>3. CASE Tick
  BY <1>3
  DEF Tick, ThreadsTypeOK, StoreTypeOK, VocabTypeOK, BoundsTypeOK, lock, thread, disk,
      vocab, history
<1>4. QED
  BY <1>1, <1>2, <1>3

LEMMA TypesStutter == PartsTypeOK /\ UNCHANGED vars => MainTypeOK'
BY DEF PartsTypeOK, MainTypeOK, ThreadsTypeOK, StoreTypeOK, VocabTypeOK, BoundsTypeOK, vars, lock,
       thread, disk, vocab, history

(* A change is stamped with the clock, which never runs back.              *)
LEMMA ClockSteps ==
  ASSUME ClockTypeOK, [Next]_vars
  PROVE  /\ mtime' = mtime \/ (mtime' = now /\ now' = now)
         /\ now' = now \/ (now < MaxTicks /\ now' = now + 1)
<1>1. CASE \E t \in Thread : ToolStep(t)
  BY <1>1
  DEF ToolStep, Learn, LearnMore, Forget, Recall, Open, Write, GivesUp, Drops, Rename,
      Index, Remove, Read, Change, disk
<1>2. CASE \E t \in Thread : RenderStep(t)
  BY <1>2 DEF RenderStep, ProbeTime, ProbeCount, Look, Store, Scan, disk
<1>3. CASE Crash \/ Restart \/ Tick \/ UNCHANGED vars
  BY <1>3 DEF Crash, Restart, Tick, vars, disk
<1>4. QED
  BY <1>1, <1>2, <1>3 DEF Next

LEMMA TypesClock == ClockTypeOK /\ [Next]_vars => ClockTypeOK'
<1> SUFFICES ASSUME ClockTypeOK, [Next]_vars PROVE ClockTypeOK'
  OBVIOUS
<1>1. now' \in 1..MaxTicks /\ mtime' \in 1..now'
  BY ClockSteps, KnowledgeAssumption DEF ClockTypeOK
<1>2. sure' \in SUBSET Thread /\ trusted' \in BOOLEAN
  <2>1. CASE \E t \in Thread : ToolStep(t)
    BY <2>1
    DEF ToolStep, Learn, LearnMore, Forget, Recall, Open, Write, Rename, Index, Remove,
        Read, Doubt, history, trust, ClockTypeOK
  <2>2. CASE \E t \in Thread : RenderStep(t)
    <3>1. PICK t \in Thread : RenderStep(t)
      BY <2>2
    <3>2. /\ sure' = sure \/ sure' = sure \cup {t} \/ sure' = sure \ {t}
          /\ trusted' = trusted \/ trusted' = (t \in sure)
      BY <3>1
      DEF RenderStep, ProbeTime, ProbeCount, Look, Store, Scan, Returns, history, trust
    <3>3. sure' \in SUBSET Thread
      BY <3>2 DEF ClockTypeOK
    <3>4. trusted' \in BOOLEAN
      <4>1. trusted \in BOOLEAN /\ (t \in sure) \in BOOLEAN
        BY DEF ClockTypeOK
      <4>2. QED
        BY <3>2, <4>1, Zenon
    <3>5. QED
      BY <3>3, <3>4
  <2>3. CASE Crash \/ Restart \/ Tick \/ UNCHANGED vars
    BY <2>3 DEF Crash, Restart, Tick, vars, history, trust, ClockTypeOK
  <2>4. QED
    BY <2>1, <2>2, <2>3 DEF Next
<1>3. QED
  BY <1>1, <1>2 DEF ClockTypeOK

LEMMA TypesStep == PartsTypeOK /\ [Next]_vars => PartsTypeOK'
BY TypesEnter, TypesSave, TypesLeave, TypesReader, TypesLife, TypesStutter, TypesClock
DEF Next, ToolStep, PartsTypeOK
-----------------------------------------------------------------------------
(* The inductive invariant of the store.  What the writer is about to put  *)
(* under the final name is whole, holds what was acknowledged before, and  *)
(* does not belong to a pinned entry the index knows.                      *)
Saving == {"open", "write", "rename", "index"}
WriterOK(t) ==
  /\ at[t] = "rename" => tmp[key[t]] = "whole"
  /\ at[t] = "index" => dir[key[t]] = body[t]
  /\ at[t] \in Saving => Cut \notin body[t] /\ body[t] # {}
  /\ at[t] \in Saving /\ key[t] \in Sound => acked[key[t]] \subseteq body[t]
  /\ at[t] \in {"open", "write", "rename"} /\ key[t] \in Pinned => index[key[t]] = {}
  /\ at[t] = "remove" => acked[key[t]] = {} /\ key[t] \notin Pinned
WriterInv == \A t \in Thread : WriterOK(t)

(* A reader keeps the writers out from its look at the directory on.       *)
ReaderInv ==
  /\ readers # {} => writer = None
  /\ \A t \in Thread : at[t] = "read" => t \in readers /\ dir[key[t]] # {}

(* The index is the disk, but for the entry that is being put into it.     *)
IndexFollows ==
  \A k \in Sound : \/ index[k] = dir[k]
                   \/ \E t \in Thread : at[t] = "index" /\ key[t] = k
FilesInv == EntriesAreWhole /\ LearnedIsKept /\ IndexFollows

StoreInv == WriterInv /\ ReaderInv /\ FilesInv

(* A signature of which nothing but the mtime and the count are known now: *)
(* if the time is still that of the directory, either its tick is over and *)
(* the keys are those there are, or no entry has gone since the count, and *)
(* the keys are those there are unless one has come, and then the count    *)
(* tells (the temporaries only add to it).                                 *)
Counted == Cardinality(Present) + orphans
Mirrors(sig, keys, time, clock, n, listed) ==
  sig.mtime = time => \/ time < clock /\ keys = listed
                      \/ n >= sig.count /\ (n = sig.count => keys = listed)
Found(t) == seen[t] \cup (left[t] \cap Listed)

VocabInv ==
  /\ \A t \in Thread :
       /\ probe[t].mtime <= mtime
       /\ at[t] # "scan" => seen[t] = {}
       /\ t \in sure /\ at[t] = "look"
            => Mirrors(probe[t], Listed, mtime, now, Counted, Listed)
       /\ t \in sure /\ at[t] = "scan"
            => Mirrors(probe[t], Found(t), mtime, now, Counted, Listed)
  /\ cache.sig.mtime <= mtime
  /\ trusted => Mirrors(cache.sig, cache.keys, mtime, now, Counted, Listed)
-----------------------------------------------------------------------------
(* The store.                                                              *)
LEMMA StoreInit == Init => StoreInv
BY KnowledgeAssumption
DEF Init, StoreInv, WriterInv, WriterOK, ReaderInv, FilesInv, Saving, EntriesAreWhole,
    LearnedIsKept, IndexFollows

(* While one thread writes, the others neither write nor read.             *)
LEMMA WriterIsAlone ==
  ASSUME PartsTypeOK, StoreInv, NEW t \in Thread,
         at[t] \in Writing \/ (writer = None /\ readers = {})
  PROVE  \A u \in Thread \ {t} : at[u] \notin Writing /\ at[u] # "read"
<1>1. /\ \A u \in Thread : u = writer <=> at[u] \in Writing
      /\ None \notin Thread
      /\ readers # {} => writer = None
      /\ \A u \in Thread : at[u] = "read" => u \in readers
  BY KnowledgeAssumption
  DEF PartsTypeOK, MainTypeOK, ThreadsTypeOK, StoreInv, ReaderInv
<1>2. QED
  BY <1>1

(* So a step of the writer has to care for its own thread only.            *)
LEMMA WriterSteps ==
  ASSUME PartsTypeOK, StoreInv, NEW t \in Thread, NEW to \in Place,
         at[t] \in Writing \/ (writer = None /\ readers = {}),
         at' = [at EXCEPT ![t] = to], to # "read", readers' = readers
  PROVE  /\ readers = {} /\ at'[t] = to
         /\ ReaderInv' /\ (WriterOK(t)' => WriterInv')
<1>1. \A u \in Thread \ {t} : at[u] \notin Writing /\ at[u] # "read"
  BY WriterIsAlone
<1>2. at'[t] = to /\ \A u \in Thread \ {t} : at'[u] = at[u]
  BY DEF PartsTypeOK, MainTypeOK, ThreadsTypeOK
<1>3. readers = {}
  BY KnowledgeAssumption DEF PartsTypeOK, MainTypeOK, ThreadsTypeOK, StoreInv, ReaderInv
<1>4. ReaderInv'
  BY <1>1, <1>2, <1>3 DEF ReaderInv
<1>5. \A u \in Thread \ {t} : at'[u] \notin Saving /\ at'[u] # "remove"
  BY <1>1, <1>2 DEF Writing, Saving
<1>6. QED
  BY <1>2, <1>3, <1>4, <1>5 DEF WriterInv, WriterOK, Saving

LEMMA StoreLearn ==
  ASSUME PartsTypeOK, StoreInv, NEW t \in Thread, NEW k \in Key, Learn(t, k)
  PROVE  StoreInv'
<1>1. /\ ~PinnedAndKnown(k) /\ writer = None /\ readers = {} /\ readers' = readers
      /\ at' = [at EXCEPT ![t] = "open"] /\ at[t] = "idle"
      /\ key' = [key EXCEPT ![t] = k] /\ body' = [body EXCEPT ![t] = {calls + 1}]
      /\ acked' = [acked EXCEPT ![k] = {}]
      /\ UNCHANGED <<index, dir, tmp, skipped>>
  BY DEF Learn, Enters, CanWrite, Goes, disk
<1>2. /\ at'[t] = "open" /\ key'[t] = k /\ body'[t] = {calls + 1} /\ acked'[k] = {}
      /\ \A u \in Thread \ {t} : at'[u] = at[u] /\ key'[u] = key[u]
      /\ \A j \in Key : acked'[j] \subseteq acked[j]
  BY <1>1 DEF PartsTypeOK, MainTypeOK, ThreadsTypeOK, StoreTypeOK
<1>3. Cut # calls + 1
  BY DEF PartsTypeOK, MainTypeOK, BoundsTypeOK, Cut
<1>4. ReaderInv' /\ WriterInv'
  <2>1. WriterOK(t)'
    BY <1>1, <1>2, <1>3 DEF WriterOK, Saving, PinnedAndKnown
  <2>2. QED
    BY <1>1, <2>1, WriterSteps DEF Place
<1>5. FilesInv'
  BY <1>1, <1>2
  DEF StoreInv, FilesInv, EntriesAreWhole, LearnedIsKept, IndexFollows, Sound
<1>6. QED
  BY <1>4, <1>5 DEF StoreInv

LEMMA StoreLearnMore ==
  ASSUME PartsTypeOK, StoreInv, NEW t \in Thread, NEW k \in Key, LearnMore(t, k)
  PROVE  StoreInv'
<1> DEFINE b == OldBody(k) \cup {calls + 1}
<1>1. /\ ~PinnedAndKnown(k) /\ writer = None /\ readers = {} /\ readers' = readers
      /\ at' = [at EXCEPT ![t] = "open"] /\ at[t] = "idle"
      /\ key' = [key EXCEPT ![t] = k] /\ body' = [body EXCEPT ![t] = b]
      /\ UNCHANGED <<index, dir, tmp, acked, skipped>>
  BY DEF LearnMore, Enters, CanWrite, Goes, disk, history
<1>2. /\ at'[t] = "open" /\ key'[t] = k /\ body'[t] = b
      /\ \A u \in Thread \ {t} : at'[u] = at[u] /\ key'[u] = key[u]
  BY <1>1 DEF PartsTypeOK, MainTypeOK, ThreadsTypeOK
<1>3. \A u \in Thread : at[u] # "index"
  BY <1>1, WriterIsAlone DEF Writing
<1>4. Cut \notin b /\ b # {}
  <2>1. Cut # calls + 1 /\ Cut \notin dir[k]
    BY DEF PartsTypeOK, MainTypeOK, BoundsTypeOK, Cut, StoreInv, FilesInv, EntriesAreWhole
  <2>2. QED
    BY <2>1 DEF OldBody
<1>5. k \in Sound => acked[k] \subseteq b
  BY <1>3 DEF StoreInv, FilesInv, LearnedIsKept, IndexFollows, OldBody
<1>6. Sound' = Sound
  BY <1>1 DEF Sound
<1>7. ReaderInv' /\ WriterInv'
  <2> HIDE DEF b
  <2>1. WriterOK(t)'
    BY <1>1, <1>2, <1>4, <1>5, <1>6 DEF WriterOK, Saving, PinnedAndKnown
  <2>2. QED
    BY <1>1, <2>1, WriterSteps DEF Place
<1>8. FilesInv'
  BY <1>1, <1>2, <1>6
  DEF StoreInv, FilesInv, EntriesAreWhole, LearnedIsKept, IndexFollows
<1>9. QED
  BY <1>7, <1>8 DEF StoreInv

LEMMA StoreForget ==
  ASSUME PartsTypeOK, StoreInv, NEW t \in Thread, NEW k \in Key, Forget(t, k)
  PROVE  StoreInv'
<1>1. /\ k \notin Pinned /\ writer = None /\ readers = {} /\ readers' = readers
      /\ at' = [at EXCEPT ![t] = "remove"] /\ at[t] = "idle"
      /\ key' = [key EXCEPT ![t] = k] /\ acked' = [acked EXCEPT ![k] = {}]
      /\ UNCHANGED <<index, dir, tmp, skipped>>
  BY DEF Forget, Enters, CanWrite, Goes, disk
<1>2. /\ at'[t] = "remove" /\ key'[t] = k /\ acked'[k] = {}
      /\ \A u \in Thread \ {t} : at'[u] = at[u] /\ key'[u] = key[u]
      /\ \A j \in Key : acked'[j] \subseteq acked[j]
  BY <1>1 DEF PartsTypeOK, MainTypeOK, ThreadsTypeOK, StoreTypeOK
<1>3. ReaderInv' /\ WriterInv'
  <2>1. WriterOK(t)'
    BY <1>1, <1>2 DEF WriterOK, Saving
  <2>2. QED
    BY <1>1, <2>1, WriterSteps DEF Place
<1>4. FilesInv'
  BY <1>1, <1>2
  DEF StoreInv, FilesInv, EntriesAreWhole, LearnedIsKept, IndexFollows, Sound
<1>5. QED
  BY <1>3, <1>4 DEF StoreInv

(* The saving steps move only their thread, and leave acked, the keys, the *)
(* bodies and the index alone.                                             *)
LEMMA StoreSave ==
  ASSUME PartsTypeOK, StoreInv, NEW t \in Thread, Open(t) \/ Write(t) \/ Rename(t)
  PROVE  StoreInv'
<1>1. UNCHANGED <<readers, key, body, index, acked, skipped>> /\ Sound' = Sound
  BY DEF Open, Write, Rename, history, Sound
<1>2. /\ at[t] \in {"open", "write", "rename"} /\ at[t] \in Writing
      /\ WriterOK(t) /\ key[t] \in Key
  BY DEF Open, Write, Rename, GivesUp, Drops, Goes, Writing, StoreInv, WriterInv,
         PartsTypeOK, MainTypeOK, ThreadsTypeOK
<1>3. \A u \in Thread : at[u] # "index"
  BY <1>2, WriterIsAlone DEF Writing
<1>4. ASSUME NEW to \in {"write", "rename", "idle"}, at' = [at EXCEPT ![t] = to],
             dir' = dir, to = "rename" => tmp'[key[t]] = "whole"
      PROVE  StoreInv'
  <2>1. at'[t] = to
    BY <1>4 DEF PartsTypeOK, MainTypeOK, ThreadsTypeOK
  <2>2. WriterOK(t)'
    BY <1>1, <1>2, <1>4, <2>1 DEF WriterOK, Saving
  <2>3. ReaderInv' /\ WriterInv'
    BY <1>1, <1>2, <1>4, <2>2, WriterSteps DEF Place
  <2>4. FilesInv'
    BY <1>1, <1>3, <1>4
    DEF StoreInv, FilesInv, EntriesAreWhole, LearnedIsKept, IndexFollows
  <2>5. QED
    BY <2>3, <2>4 DEF StoreInv
<1>5. CASE Open(t)
  BY <1>4, <1>5 DEF Open, Goes, Change, disk
<1>6. CASE Write(t)
  <2>1. CASE GivesUp(t)
    BY <1>4, <2>1 DEF GivesUp, Drops, Goes, Change
  <2>2. CASE /\ Goes(t, "write", "rename") /\ tmp' = [tmp EXCEPT ![key[t]] = "whole"]
             /\ UNCHANGED dir
    <3>1. tmp'[key[t]] = "whole"
      BY <1>2, <2>2 DEF PartsTypeOK, MainTypeOK, StoreTypeOK
    <3>2. QED
      BY <1>4, <2>2, <3>1 DEF Goes
  <2>3. QED
    BY <1>6, <2>1, <2>2 DEF Write
<1>7. CASE Rename(t)
  <2>1. CASE Drops(t, "rename")
    BY <1>4, <2>1 DEF Drops, Goes, Change
  <2>2. CASE ~Drops(t, "rename")
    <3>1. /\ at[t] = "rename" /\ at' = [at EXCEPT ![t] = "index"]
          /\ tmp[key[t]] = "whole" /\ dir' = [dir EXCEPT ![key[t]] = body[t]]
      BY <1>2, <1>7, <2>2 DEF Rename, Goes, Change, WriterOK
    <3>2. at'[t] = "index" /\ dir'[key[t]] = body[t]
      BY <1>2, <3>1 DEF PartsTypeOK, MainTypeOK, ThreadsTypeOK, StoreTypeOK
    <3>3. WriterOK(t)'
      BY <1>1, <1>2, <3>1, <3>2 DEF WriterOK, Saving
    <3>4. ReaderInv' /\ WriterInv'
      BY <1>1, <1>2, <3>1, <3>3, WriterSteps DEF Place
    <3>5. \A k \in Key \ {key[t]} : dir'[k] = dir[k]
      BY <3>1 DEF PartsTypeOK, MainTypeOK, StoreTypeOK
    <3>6. /\ Cut \notin body[t]
          /\ key[t] \in Sound => acked[key[t]] \subseteq body[t]
      BY <1>2, <3>1 DEF WriterOK, Saving
    <3>7. EntriesAreWhole' /\ LearnedIsKept'
      BY <1>1, <3>2, <3>5, <3>6
      DEF StoreInv, FilesInv, EntriesAreWhole, LearnedIsKept, Sound
    <3>8. IndexFollows'
      BY <1>1, <1>3, <3>2, <3>5 DEF StoreInv, FilesInv, IndexFollows, Sound
    <3>9. QED
      BY <3>4, <3>7, <3>8 DEF StoreInv, FilesInv
  <2>3. QED
    BY <2>1, <2>2
<1>8. QED
  BY <1>5, <1>6, <1>7

LEMMA StoreIndex ==
  ASSUME PartsTypeOK, StoreInv, NEW t \in Thread, Index(t)
  PROVE  StoreInv'
<1>1. /\ at[t] = "index" /\ at' = [at EXCEPT ![t] = "idle"] /\ readers' = readers
      /\ index' = [index EXCEPT ![key[t]] = body[t]]
      /\ acked' = [acked EXCEPT ![key[t]] = @ \cup body[t]]
      /\ UNCHANGED <<key, body, dir, skipped>>
  BY DEF Index, Goes, Indexed, disk
<1>2. /\ dir[key[t]] = body[t] /\ key[t] \in Key
      /\ key[t] \in Sound => acked[key[t]] \subseteq body[t]
  BY <1>1 DEF StoreInv, WriterInv, WriterOK, Saving, PartsTypeOK, MainTypeOK, ThreadsTypeOK
<1>3. at'[t] = "idle" /\ index'[key[t]] = body[t] /\ acked'[key[t]] = acked[key[t]] \cup body[t]
  BY <1>1, <1>2 DEF PartsTypeOK, MainTypeOK, ThreadsTypeOK, StoreTypeOK
<1>4. /\ \A k \in Key \ {key[t]} : index'[k] = index[k] /\ acked'[k] = acked[k]
      /\ \A u \in Thread \ {t} : at[u] # "index"
  <2>1. \A k \in Key \ {key[t]} : index'[k] = index[k] /\ acked'[k] = acked[k]
    BY <1>1 DEF PartsTypeOK, MainTypeOK, StoreTypeOK
  <2>2. QED
    BY <1>1, <2>1, WriterIsAlone DEF Writing
<1>5. ReaderInv' /\ WriterInv'
  <2>1. WriterOK(t)'
    BY <1>3 DEF WriterOK, Saving
  <2>2. QED
    BY <1>1, <2>1, WriterSteps DEF Place, Writing
<1>6. EntriesAreWhole' /\ LearnedIsKept'
  BY <1>1, <1>2, <1>3, <1>4
  DEF StoreInv, FilesInv, EntriesAreWhole, LearnedIsKept, Sound
<1>7. IndexFollows'
  BY <1>1, <1>2, <1>3, <1>4 DEF StoreInv, FilesInv, IndexFollows, Sound
<1>8. QED
  BY <1>5, <1>6, <1>7 DEF StoreInv, FilesInv

LEMMA StoreRemove ==
  ASSUME PartsTypeOK, StoreInv, NEW t \in Thread, Remove(t)
  PROVE  StoreInv'
<1>1. /\ at[t] = "remove" /\ at' = [at EXCEPT ![t] = "idle"]
      /\ UNCHANGED <<readers, key, body, acked>>
  BY DEF Remove, Goes
<1>2. acked[key[t]] = {} /\ key[t] \in Key /\ at'[t] = "idle"
  BY <1>1 DEF StoreInv, WriterInv, WriterOK, PartsTypeOK, MainTypeOK, ThreadsTypeOK
<1>3. ReaderInv' /\ WriterInv'
  <2>1. WriterOK(t)'
    BY <1>2 DEF WriterOK, Saving
  <2>2. QED
    BY <1>1, <2>1, WriterSteps DEF Place, Writing
<1>4. \A u \in Thread : at[u] # "index"
  BY <1>1, WriterIsAlone DEF Writing
<1>5. /\ \A k \in Key \ {key[t]} : index'[k] = index[k] /\ dir'[k] = dir[k]
      /\ Sound' \subseteq Sound
      /\ dir'[key[t]] = dir[key[t]] \/ dir'[key[t]] = {}
      /\ key[t] \in Sound' => \/ index'[key[t]] = dir'[key[t]]
                              \/ index' = index /\ dir' = dir
  BY <1>2 DEF Remove, Change, disk, Sound, Present, PartsTypeOK, MainTypeOK, StoreTypeOK
<1>6. EntriesAreWhole' /\ LearnedIsKept'
  BY <1>1, <1>2, <1>5 DEF StoreInv, FilesInv, EntriesAreWhole, LearnedIsKept, Sound
<1>7. IndexFollows'
  BY <1>4, <1>5 DEF StoreInv, FilesInv, IndexFollows, Sound
<1>8. QED
  BY <1>3, <1>6, <1>7 DEF StoreInv, FilesInv

LEMMA StoreReader ==
  ASSUME PartsTypeOK, StoreInv, NEW t \in Thread,
         (\E k \in Key : Recall(t, k)) \/ Read(t) \/ RenderStep(t)
  PROVE  StoreInv'
<1>1. /\ UNCHANGED <<writer, body, index, dir, tmp, acked, skipped>>
      /\ \A u \in Thread \ {t} : at'[u] = at[u] /\ key'[u] = key[u]
      /\ at'[t] \notin Writing
  <2>1. CASE (\E k \in Key : Recall(t, k)) \/ Read(t)
    BY <2>1 DEF Recall, Read, Goes, disk, history, Writing, PartsTypeOK, MainTypeOK, ThreadsTypeOK
  <2>2. CASE RenderStep(t)
    <3>1. UNCHANGED <<lock, key, body, index, disk, acked, skipped>>
      BY <2>2 DEF RenderStep, ProbeTime, ProbeCount, Look, Store, Scan, thread, history
    <3>2. \/ at' = at /\ at[t] = "scan"
          \/ \E to \in {"count", "look", "scan", "idle"} : at' = [at EXCEPT ![t] = to]
      BY <2>2 DEF RenderStep, ProbeTime, ProbeCount, Look, Store, Scan, thread, Goes
    <3>3. QED
      BY <3>1, <3>2 DEF lock, disk, history, Writing, PartsTypeOK, MainTypeOK, ThreadsTypeOK
  <2>3. QED
    BY <2>1, <2>2
<1>2. /\ WriterOK(t)' /\ \A u \in Thread \ {t} : WriterOK(u) => WriterOK(u)'
      /\ Sound' = Sound
  BY <1>1 DEF WriterOK, Saving, Writing, Sound
<1>3. WriterInv'
  BY <1>2 DEF StoreInv, WriterInv
<1>4. ReaderInv'
  <2>1. CASE \E k \in Key : Recall(t, k)
    <3>1. PICK k \in Key : Recall(t, k)
      BY <2>1
    <3>2. /\ writer = None /\ dir[k] # {} /\ key'[t] = k /\ readers' = readers \cup {t}
      BY <3>1 DEF Recall, PartsTypeOK, MainTypeOK, ThreadsTypeOK
    <3>3. QED
      BY <1>1, <3>2 DEF StoreInv, ReaderInv
  <2>2. CASE Read(t)
    BY <1>1, <2>2 DEF Read, Goes, StoreInv, ReaderInv, PartsTypeOK, MainTypeOK, ThreadsTypeOK
  <2>3. CASE RenderStep(t)
    <3>1. readers' = readers /\ at'[t] # "read"
      BY <2>3 DEF RenderStep, ProbeTime, ProbeCount, Look, Store, Scan, thread, Goes,
                  lock, PartsTypeOK, MainTypeOK, ThreadsTypeOK
    <3>2. QED
      BY <1>1, <3>1 DEF StoreInv, ReaderInv
  <2>4. QED
    BY <2>1, <2>2, <2>3
<1>5. FilesInv'
  <2>1. \A u \in Thread : at[u] = "index" => at'[u] = "index" /\ key'[u] = key[u]
    <3>1. at[t] # "index"
      BY DEF Recall, Read, Goes, RenderStep, ProbeTime, ProbeCount, Look, Store, Scan
    <3>2. QED
      BY <1>1, <3>1
  <2>2. QED
    BY <1>1, <1>2, <2>1
    DEF StoreInv, FilesInv, EntriesAreWhole, LearnedIsKept, IndexFollows
<1>6. QED
  BY <1>3, <1>4, <1>5 DEF StoreInv

LEMMA StoreLife ==
  ASSUME PartsTypeOK, StoreInv, Crash \/ Restart \/ Tick
  PROVE  StoreInv'
<1>1. CASE Crash \/ Tick
  BY <1>1
  DEF Crash, Tick, StoreInv, WriterInv, WriterOK, ReaderInv, FilesInv, EntriesAreWhole,
      LearnedIsKept, IndexFollows, Sound, lock, thread, disk, history
<1>2. CASE Restart
  <2>1. /\ at' = [u \in Thread |-> "idle"] /\ readers' = {}
        /\ UNCHANGED <<dir, acked>>
    BY <1>2 DEF Restart
  <2>2. PICK unread \in SUBSET Present :
          /\ index' = [k \in Key |-> IF k \in BadTitle \cup unread THEN {} ELSE dir[k]]
          /\ skipped' = skipped \cup unread
    BY <1>2 DEF Restart
  <2>3. Sound' \subseteq Sound /\ \A k \in Sound' : index'[k] = dir'[k]
    BY <2>1, <2>2 DEF Sound, Present
  <2>4. WriterInv' /\ ReaderInv'
    BY <2>1 DEF WriterInv, WriterOK, ReaderInv, Saving
  <2>5. FilesInv'
    BY <2>1, <2>3
    DEF StoreInv, FilesInv, EntriesAreWhole, LearnedIsKept, IndexFollows
  <2>6. QED
    BY <2>4, <2>5 DEF StoreInv
<1>3. QED
  BY <1>1, <1>2

LEMMA StoreStutter == StoreInv /\ UNCHANGED vars => StoreInv'
BY DEF StoreInv, WriterInv, WriterOK, ReaderInv, FilesInv, EntriesAreWhole,
       LearnedIsKept, IndexFollows, Sound, vars, lock, thread, disk, history

LEMMA StoreStep == PartsTypeOK /\ StoreInv /\ [Next]_vars => StoreInv'
BY StoreLearn, StoreLearnMore, StoreForget, StoreSave, StoreIndex, StoreRemove,
   StoreReader, StoreLife, StoreStutter
DEF Next, ToolStep
-----------------------------------------------------------------------------
(* The vocabulary cache.                                                   *)
LEMMA CountsOfNames ==
  ASSUME StoreTypeOK
  PROVE  /\ Cardinality(Present) \in Nat /\ Counted \in Nat
         /\ Cardinality(Temporaries) \in Nat
         /\ Names = Counted + Cardinality(Temporaries)
<1>1. Present \in SUBSET Key /\ IsFiniteSet(Key)
  BY KnowledgeAssumption DEF Present
<1>2. Cardinality(Present) \in Nat
  BY <1>1, FS_Subset, FS_CardinalityType
<1>3. QED
  BY <1>2, NamesAreNumbers DEF Counted, Names, StoreTypeOK

(* What a change of the directory within a tick does to what can be        *)
(* trusted: an entry that comes moves the count, one that goes ends it.    *)
LEMMA ChangesTell ==
  ASSUME PartsTypeOK, StoreInv, NEW t \in Thread, ToolStep(t)
  PROVE  /\ orphans' = orphans /\ now' = now
         /\ \/ UNCHANGED <<dir, mtime, sure, trusted>>
            \/ mtime' = now /\ Present \subseteq Present' /\ UNCHANGED <<sure, trusted>>
            \/ mtime' = now /\ mtime = now /\ sure' = {} /\ trusted' = FALSE
            \/ mtime' = now /\ mtime < now /\ UNCHANGED <<sure, trusted>>
<1>1. mtime <= now /\ mtime \in Int /\ now \in Int
  BY DEF PartsTypeOK, ClockTypeOK
<1>2. CASE Rename(t)
  <2>1. CASE Drops(t, "rename")
    BY <1>2, <2>1 DEF Rename, Drops, Change, Present, history, trust
  <2>2. CASE ~Drops(t, "rename")
    <3>1. /\ mtime' = now /\ orphans' = orphans /\ now' = now
          /\ UNCHANGED <<sure, trusted>>
          /\ at[t] = "rename" /\ tmp[key[t]] = "whole"
          /\ dir' = [dir EXCEPT ![key[t]] = body[t]]
      BY <1>2, <2>2
      DEF Rename, Goes, Change, history, trust, StoreInv, WriterInv, WriterOK
    <3>2. body[t] # {}
      BY <3>1 DEF StoreInv, WriterInv, WriterOK, Saving
    <3>3. Present \subseteq Present'
      BY <3>1, <3>2 DEF Present, PartsTypeOK, MainTypeOK, StoreTypeOK
    <3>4. QED
      BY <3>1, <3>3
  <2>3. QED
    BY <2>1, <2>2
<1>3. CASE Remove(t)
  BY <1>1, <1>3 DEF Remove, Change, Doubt, disk, trust
<1>4. CASE Open(t) \/ Write(t)
  BY <1>4 DEF Open, Write, GivesUp, Drops, Change, disk, history, trust, Present
<1>5. CASE ~(Rename(t) \/ Remove(t) \/ Open(t) \/ Write(t))
  BY <1>5 DEF ToolStep, Learn, LearnMore, Forget, Recall, Index, Read, disk, history, trust
<1>6. QED
  BY <1>2, <1>3, <1>4, <1>5

LEMMA VocabInit == Init => VocabInv
BY DEF Init, VocabInv, NoSignature

(* The steps of the tools do not touch a scan that goes on.                *)
LEMMA VocabToolStep ==
  ASSUME PartsTypeOK, PartsTypeOK', StoreInv, VocabInv, NEW t \in Thread, ToolStep(t)
  PROVE  VocabInv'
<1>1. UNCHANGED <<probe, left, seen, cache>>
  BY DEF ToolStep, Learn, LearnMore, Forget, Recall, Open, Write, Rename, Index, Remove,
         Read, vocab
<1>2. \A u \in Thread : /\ at'[u] = "scan" <=> at[u] = "scan"
                        /\ at'[u] = "look" <=> at[u] = "look"
  BY DEF ToolStep, Learn, LearnMore, Forget, Recall, Open, Write, GivesUp, Drops, Rename,
         Index, Remove, Read, Enters, Goes, PartsTypeOK, MainTypeOK, ThreadsTypeOK
<1>3. /\ mtime \in Int /\ now \in Int /\ mtime <= now
      /\ cache.sig.mtime \in Int /\ cache.sig.count \in Nat
      /\ \A u \in Thread : probe[u].mtime \in Int /\ probe[u].count \in Nat
  BY DEF PartsTypeOK, MainTypeOK, ClockTypeOK, VocabTypeOK, SignatureType
<1>4. Counted \in Nat /\ Cardinality(Present) \in Nat /\ Cardinality(Present') \in Nat
  <2>1. Present' \in SUBSET Key /\ IsFiniteSet(Key)
    BY KnowledgeAssumption DEF Present
  <2>2. Cardinality(Present') \in Nat
    BY <2>1, FS_Subset, FS_CardinalityType
  <2>3. QED
    BY <2>2, CountsOfNames DEF PartsTypeOK, MainTypeOK
<1>5. /\ orphans' = orphans /\ now' = now
      /\ \/ UNCHANGED <<dir, mtime, sure, trusted>>
         \/ mtime' = now /\ Present \subseteq Present' /\ UNCHANGED <<sure, trusted>>
         \/ mtime' = now /\ mtime = now /\ sure' = {} /\ trusted' = FALSE
         \/ mtime' = now /\ mtime < now /\ UNCHANGED <<sure, trusted>>
  BY ChangesTell
<1>6. CASE UNCHANGED <<dir, mtime, sure, trusted>>
  <2>1. Listed' = Listed /\ Counted' = Counted
    BY <1>5, <1>6 DEF Listed, Present, Counted
  <2>2. QED
    BY <1>1, <1>2, <1>5, <1>6, <2>1 DEF VocabInv, Mirrors, Found
<1>7. CASE mtime' = now /\ Present \subseteq Present' /\ UNCHANGED <<sure, trusted>>
  <2>1. Counted' >= Counted /\ (Counted' = Counted => Listed' = Listed)
    <3>1. Present \in SUBSET Present' /\ Present' \in SUBSET Key /\ IsFiniteSet(Key)
      BY <1>7, KnowledgeAssumption DEF Present
    <3>2. IsFiniteSet(Present')
      BY <3>1, FS_Subset
    <3>3. /\ Cardinality(Present) <= Cardinality(Present')
          /\ Cardinality(Present') = Cardinality(Present) => Present' = Present
      BY <3>1, <3>2, FS_Subset
    <3>4. QED
      BY <1>4, <1>5, <3>3 DEF Counted, Listed, PartsTypeOK, MainTypeOK, StoreTypeOK
  <2>2. ASSUME NEW sig \in SignatureType, NEW keys, NEW keys2, sig.mtime <= mtime,
               Counted' = Counted => keys2 = keys,
               Mirrors(sig, keys, mtime, now, Counted, Listed)
        PROVE  Mirrors(sig, keys2, mtime', now', Counted', Listed')
    <3>1. Counted' \in Nat
      BY <1>4, <1>5 DEF Counted, PartsTypeOK, MainTypeOK, StoreTypeOK
    <3>2. QED
      BY <1>3, <1>4, <1>5, <1>7, <2>1, <2>2, <3>1 DEF Mirrors, SignatureType
  <2>3. \A u \in Thread : probe[u] \in SignatureType /\ probe[u].mtime <= mtime
    BY DEF VocabInv, PartsTypeOK, MainTypeOK, VocabTypeOK
  <2>4. cache.sig \in SignatureType /\ cache.sig.mtime <= mtime
    BY DEF VocabInv, PartsTypeOK, MainTypeOK, VocabTypeOK
  <2>5. trusted' => Mirrors(cache'.sig, cache'.keys, mtime', now', Counted', Listed')
    BY <1>1, <1>7, <2>2, <2>4 DEF VocabInv
  <2>6. ASSUME NEW u \in Thread, u \in sure'
        PROVE  /\ at'[u] = "look" => Mirrors(probe'[u], Listed', mtime', now', Counted', Listed')
               /\ at'[u] = "scan" => Mirrors(probe'[u], Found(u)', mtime', now', Counted', Listed')
    <3>1. CASE at'[u] = "look"
      <4>1. Mirrors(probe[u], Listed, mtime, now, Counted, Listed)
        BY <1>2, <1>7, <2>6, <3>1 DEF VocabInv
      <4>2. QED
        BY <1>1, <2>1, <2>2, <2>3, <3>1, <4>1
    <3>2. CASE at'[u] = "scan"
      <4>1. Mirrors(probe[u], Found(u), mtime, now, Counted, Listed)
        BY <1>2, <1>7, <2>6, <3>2 DEF VocabInv
      <4>2. Counted' = Counted => Found(u)' = Found(u)
        BY <1>1, <2>1 DEF Found
      <4>3. QED
        BY <1>1, <2>2, <2>3, <3>2, <4>1, <4>2
    <3>3. QED
      BY <3>1, <3>2
  <2>7. QED
    BY <1>1, <1>2, <1>3, <1>7, <2>3, <2>4, <2>5, <2>6 DEF VocabInv
<1>8. CASE mtime' = now /\ mtime = now /\ sure' = {} /\ trusted' = FALSE
  BY <1>1, <1>2, <1>8 DEF VocabInv
<1>9. CASE mtime' = now /\ mtime < now
  BY <1>1, <1>2, <1>3, <1>9 DEF VocabInv, Mirrors
<1>10. QED
  BY <1>5, <1>6, <1>7, <1>8, <1>9

LEMMA VocabRenderStep ==
  ASSUME PartsTypeOK, VocabInv, NEW t \in Thread, RenderStep(t)
  PROVE  VocabInv'
<1>1. /\ mtime' = mtime /\ dir' = dir /\ orphans' = orphans /\ now' = now
      /\ mtime \in Nat /\ now \in Nat /\ mtime >= 1
      /\ probe[t] \in SignatureType /\ seen[t] \in SUBSET Key /\ left[t] \in SUBSET Key
  BY DEF RenderStep, ProbeTime, ProbeCount, Look, Store, Scan, disk,
         PartsTypeOK, MainTypeOK, ClockTypeOK, VocabTypeOK
<1>2. \A u \in Thread \ {t} :
        /\ at'[u] = at[u] /\ probe'[u] = probe[u] /\ left'[u] = left[u] /\ seen'[u] = seen[u]
        /\ u \in sure' <=> u \in sure
  BY DEF RenderStep, ProbeTime, ProbeCount, Look, Store, Scan, Returns, Goes, thread,
         history, trust, PartsTypeOK, MainTypeOK, ThreadsTypeOK, VocabTypeOK
<1>3. Listed' = Listed /\ Counted' = Counted
  BY <1>1 DEF Listed, Present, Counted
<1>4. ASSUME probe'[t].mtime <= mtime,
             at'[t] # "scan" => seen'[t] = {},
             t \in sure' /\ at'[t] = "look"
               => Mirrors(probe'[t], Listed, mtime, now, Counted, Listed),
             t \in sure' /\ at'[t] = "scan"
               => Mirrors(probe'[t], Found(t)', mtime, now, Counted, Listed),
             cache'.sig.mtime <= mtime,
             trusted' => Mirrors(cache'.sig, cache'.keys, mtime, now, Counted, Listed)
      PROVE  VocabInv'
  <2>1. ASSUME NEW u \in Thread
        PROVE  /\ probe'[u].mtime <= mtime'
               /\ at'[u] # "scan" => seen'[u] = {}
               /\ u \in sure' /\ at'[u] = "look"
                    => Mirrors(probe'[u], Listed', mtime', now', Counted', Listed')
               /\ u \in sure' /\ at'[u] = "scan"
                    => Mirrors(probe'[u], Found(u)', mtime', now', Counted', Listed')
    <3>1. CASE u = t
      BY <1>1, <1>3, <1>4, <3>1
    <3>2. CASE u # t
      <4>1. Found(u)' = Found(u)
        BY <1>2, <1>3, <3>2 DEF Found
      <4>2. QED
        BY <1>1, <1>2, <1>3, <3>2, <4>1 DEF VocabInv
    <3>3. QED
      BY <3>1, <3>2
  <2>2. QED
    BY <1>1, <1>3, <1>4, <2>1 DEF VocabInv
<1>5. CASE ProbeTime(t)
  <2>1. /\ at'[t] = "count" /\ at[t] = "idle" /\ seen' = seen
        /\ cache' = cache /\ trusted' = trusted
    BY <1>5 DEF ProbeTime, Goes, history, trust, PartsTypeOK, MainTypeOK, ThreadsTypeOK
  <2>2. PICK time \in {mtime, 0} : probe' = [probe EXCEPT ![t] = [probe[t] EXCEPT !.mtime = time]]
    BY <1>5 DEF ProbeTime, DirTime
  <2>3. probe'[t] = [probe[t] EXCEPT !.mtime = time]
    BY <2>2 DEF PartsTypeOK, MainTypeOK, VocabTypeOK
  <2>4. probe'[t].mtime = time
    BY <1>1, <2>3 DEF SignatureType
  <2>5. QED
    BY <1>1, <1>4, <2>1, <2>4 DEF VocabInv
<1>6. CASE ProbeCount(t)
  <2>1. /\ at'[t] = "look" /\ at[t] = "count" /\ seen' = seen
        /\ cache' = cache /\ trusted' = trusted
    BY <1>6 DEF ProbeCount, Goes, PartsTypeOK, MainTypeOK, ThreadsTypeOK
  <2>2. PICK n \in 0..Names :
          /\ probe' = [probe EXCEPT ![t] = [probe[t] EXCEPT !.count = n]]
          /\ sure' = IF n = Names /\ Settled THEN sure \cup {t} ELSE sure \ {t}
    BY <1>6 DEF ProbeCount
  <2>3. probe'[t] = [probe[t] EXCEPT !.count = n]
    BY <2>2 DEF PartsTypeOK, MainTypeOK, VocabTypeOK
  <2>4. probe'[t].mtime = probe[t].mtime /\ probe'[t].count = n
    BY <1>1, <2>3 DEF SignatureType
  <2>5. t \in sure' => n = Names /\ (Temporaries = {} \/ mtime < now)
    BY <2>2 DEF Settled
  <2>6. Temporaries = {} => Names = Counted
    BY FS_EmptySet, CountsOfNames DEF PartsTypeOK, MainTypeOK
  <2>7. Counted \in Nat
    BY CountsOfNames DEF PartsTypeOK, MainTypeOK
  <2>8. t \in sure' => Mirrors(probe'[t], Listed, mtime, now, Counted, Listed)
    BY <2>4, <2>5, <2>6, <2>7 DEF Mirrors
  <2>9. QED
    BY <1>1, <1>4, <2>1, <2>4, <2>8 DEF VocabInv
<1>7. CASE Look(t)
  <2>1. /\ at[t] = "look" /\ cache' = cache /\ trusted' = trusted /\ seen' = seen
        /\ seen[t] = {}
    BY <1>7 DEF Look, Goes, VocabInv
  <2>2. CASE at'[t] = "idle" /\ Returns(t)
    <3>1. probe'[t].mtime = -1
      BY <2>2 DEF Returns, NoSignature, PartsTypeOK, MainTypeOK, VocabTypeOK
    <3>2. QED
      BY <1>1, <1>4, <2>1, <2>2, <3>1 DEF VocabInv
  <2>3. CASE at'[t] = "scan" /\ left'[t] = Key /\ UNCHANGED <<probe, sure>>
    <3>1. Found(t)' = Listed
      BY <1>3, <2>1, <2>3 DEF Found, Listed, Present
    <3>2. QED
      BY <1>1, <1>4, <2>1, <2>3, <3>1 DEF VocabInv
  <2>4. QED
    BY <1>7, <2>2, <2>3
    DEF Look, Goes, PartsTypeOK, MainTypeOK, ThreadsTypeOK, VocabTypeOK
<1>8. ASSUME NEW k \in Key, Scan(t, k) PROVE VocabInv'
  <2>1. /\ at[t] = "scan" /\ at' = at /\ cache' = cache /\ trusted' = trusted
        /\ probe' = probe /\ left'[t] = left[t] \ {k} /\ k \in left[t]
    BY <1>8 DEF Scan, thread, PartsTypeOK, MainTypeOK, VocabTypeOK
  <2>2. t \in sure' => t \in sure /\ seen'[t] = seen[t] \cup ({k} \cap Listed)
    BY <1>8 DEF Scan, PartsTypeOK, MainTypeOK, VocabTypeOK
  <2>3. t \in sure' => Found(t)' = Found(t)
    BY <1>3, <2>1, <2>2 DEF Found
  <2>4. QED
    BY <1>1, <1>4, <2>1, <2>2, <2>3 DEF VocabInv
<1>9. CASE Store(t)
  <2>1. /\ at[t] = "scan" /\ at'[t] = "idle" /\ left[t] = {}
        /\ cache' = [sig |-> probe[t], keys |-> seen[t]] /\ seen'[t] = {}
        /\ trusted' = (t \in sure) /\ Returns(t)
    BY <1>9 DEF Store, Goes, PartsTypeOK, MainTypeOK, ThreadsTypeOK, VocabTypeOK
  <2>2. cache'.sig = probe[t] /\ cache'.keys = seen[t] /\ Found(t) = seen[t]
    BY <2>1 DEF Found
  <2>3. probe'[t].mtime = -1
    BY <2>1 DEF Returns, NoSignature, PartsTypeOK, MainTypeOK, VocabTypeOK
  <2>4. trusted' => Mirrors(cache'.sig, cache'.keys, mtime, now, Counted, Listed)
    BY <2>1, <2>2 DEF VocabInv
  <2>5. cache'.sig.mtime <= mtime
    BY <2>2 DEF VocabInv
  <2>6. QED
    BY <1>1, <1>4, <2>1, <2>3, <2>4, <2>5
<1>10. QED
  BY <1>5, <1>6, <1>7, <1>8, <1>9 DEF RenderStep

LEMMA VocabLife ==
  ASSUME PartsTypeOK, VocabInv, Crash \/ Restart \/ Tick
  PROVE  VocabInv'
<1>1. CASE Crash \/ Tick
  <2>1. /\ UNCHANGED <<at, dir, orphans, mtime, probe, left, seen, cache, sure, trusted>>
        /\ now' = now \/ now' = now + 1
    BY <1>1 DEF Crash, Tick, vocab, thread, disk, history, trust
  <2>2. Listed' = Listed /\ Counted' = Counted /\ now \in Int /\ mtime \in Int
    BY <2>1 DEF Listed, Present, Counted, PartsTypeOK, ClockTypeOK
  <2>3. \A u \in Thread : Found(u)' = Found(u)
    BY <2>1, <2>2 DEF Found
  <2>4. QED
    BY <2>1, <2>2, <2>3 DEF VocabInv, Mirrors
<1>2. CASE Restart
  <2>1. /\ mtime' = mtime /\ mtime \in Nat /\ sure' = {} /\ trusted' = FALSE
        /\ probe' = [u \in Thread |-> NoSignature] /\ seen' = [u \in Thread |-> {}]
        /\ cache' = [sig |-> NoSignature, keys |-> {}]
    BY <1>2 DEF Restart, PartsTypeOK, ClockTypeOK
  <2>2. cache'.sig.mtime = -1 /\ \A u \in Thread : probe'[u].mtime = -1
    BY <2>1 DEF NoSignature
  <2>3. QED
    BY <2>1, <2>2 DEF VocabInv
<1>3. QED
  BY <1>1, <1>2

LEMMA VocabStutter == VocabInv /\ UNCHANGED vars => VocabInv'
BY DEF VocabInv, Mirrors, Found, Counted, Listed, Present, vars, vocab, thread, disk,
       history, trust

LEMMA VocabStep == PartsTypeOK /\ StoreInv /\ VocabInv /\ [Next]_vars => VocabInv'
BY TypesStep, VocabToolStep, VocabRenderStep, VocabLife, VocabStutter DEF Next
-----------------------------------------------------------------------------
KnowledgeInv == PartsTypeOK /\ StoreInv /\ VocabInv

LEMMA KnowledgeInvariant == Spec => []KnowledgeInv
<1>1. Init => KnowledgeInv
  BY TypesInit, StoreInit, VocabInit DEF KnowledgeInv
<1>2. KnowledgeInv /\ [Next]_vars => KnowledgeInv'
  BY TypesStep, StoreStep, VocabStep DEF KnowledgeInv
<1>3. QED
  BY <1>1, <1>2, PTL DEF Spec

(* Wherever the process dies and whatever write fails, no entry is cut     *)
(* short, what is on the disk is found again (but for files a start could  *)
(* not read), and a recall finds the file it looked for.                   *)
THEOREM StoreIsAlwaysSafe == Spec => []StoreIsSafe
<1>1. KnowledgeInv => StoreIsSafe
  <2> SUFFICES ASSUME KnowledgeInv PROVE StoreIsSafe
    OBVIOUS
  <2>1. TypeOK /\ EntriesAreWhole /\ RecallFindsItsFile
    BY PartsAreTypeOK DEF KnowledgeInv, StoreInv, FilesInv, ReaderInv, RecallFindsItsFile
  <2>2. IndexIsTheDisk
    BY KnowledgeAssumption
    DEF KnowledgeInv, PartsTypeOK, MainTypeOK, ThreadsTypeOK, StoreInv, FilesInv, IndexFollows,
        IndexIsTheDisk, Writing
  <2>3. QED
    BY <2>1, <2>2 DEF StoreIsSafe
<1>2. QED
  BY <1>1, KnowledgeInvariant, PTL

(* What was acknowledged stays in its file, through additions, failed      *)
(* writes and restarts, until the key is learned anew or forgotten.        *)
THEOREM LearnedIsAlwaysKept == Spec => []LearnedIsKept
<1>1. KnowledgeInv => LearnedIsKept
  BY DEF KnowledgeInv, StoreInv, FilesInv
<1>2. QED
  BY <1>1, KnowledgeInvariant, PTL

(* A vocabulary of a sure render that is served from the cache names the   *)
(* entries the store has, in the tick of the last change and after it.     *)
THEOREM CacheIsAlwaysCurrent == Spec => []CacheIsCurrent
<1>1. KnowledgeInv => CacheIsCurrent
  <2> SUFFICES ASSUME KnowledgeInv, trusted, cache.sig = Signature
               PROVE  cache.keys = Listed
    BY DEF CacheIsCurrent
  <2>1. cache.sig.mtime = mtime /\ cache.sig.count = Names
    BY DEF Signature, DirTime
  <2>2. /\ Counted \in Nat /\ Cardinality(Temporaries) \in Nat
        /\ Names = Counted + Cardinality(Temporaries)
    BY CountsOfNames DEF KnowledgeInv, PartsTypeOK, MainTypeOK
  <2>3. Mirrors(cache.sig, cache.keys, mtime, now, Counted, Listed)
    BY DEF KnowledgeInv, VocabInv
  <2>4. QED
    BY <2>1, <2>2, <2>3 DEF Mirrors
<1>2. QED
  BY <1>1, KnowledgeInvariant, PTL

(* A pinned entry the index knows is never written again nor removed: the  *)
(* writer decided with the lock held, and nobody indexes it meanwhile.     *)
THEOREM KnownPinnedIsAlwaysKept == Spec => KnownPinnedIsKept
<1>1. KnowledgeInv /\ [Next]_vars
        => [\A k \in Pinned : index[k] # {} => dir'[k] = dir[k]]_vars
  <2> SUFFICES ASSUME KnowledgeInv, Next, NEW k \in Pinned, index[k] # {}
               PROVE  dir'[k] = dir[k]
    OBVIOUS
  <2>1. CASE \E t \in Thread : Rename(t) \/ Remove(t)
    <3>1. PICK t \in Thread : Rename(t) \/ Remove(t)
      BY <2>1
    <3>2. key[t] # k /\ k \in Key
      BY <3>1, KnowledgeAssumption
      DEF Rename, Drops, Remove, Goes, KnowledgeInv, StoreInv, WriterInv, WriterOK
    <3>3. QED
      BY <3>1, <3>2
      DEF Rename, Drops, Remove, Change, disk, KnowledgeInv, PartsTypeOK, MainTypeOK, StoreTypeOK
  <2>2. CASE ~\E t \in Thread : Rename(t) \/ Remove(t)
    BY <2>2
    DEF Next, ToolStep, RenderStep, Learn, LearnMore, Open, Write, GivesUp, Drops,
        Change, Index, Forget, Recall, Read, ProbeTime, ProbeCount, Look, Scan, Store,
        Crash, Restart, Tick, disk
  <2>3. QED
    BY <2>1, <2>2
<1>2. QED
  BY <1>1, KnowledgeInvariant, PTL DEF Spec, KnownPinnedIsKept
=============================================================================
