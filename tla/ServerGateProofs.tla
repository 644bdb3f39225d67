--------------------------- MODULE ServerGateProofs ---------------------------
(***************************************************************************)
(* Proofs about ServerGate for any number of requests, presets and models. *)
(***************************************************************************)
EXTENDS ServerGate, TLAPS

(* The action of a request that takes the step.                            *)
Step(r) == Arrive(r) \/ Proceed(r) \/ Abandon(r) \/ Disconnect(r)

LEMMA SettingsAreTyped ==
  ASSUME TypeOK, NEW r \in Requests
  PROVE  /\ WithDefaults(engine) \in Settings
         /\ Prepared(WithDefaults(engine), r) \in Settings
         /\ [WithDefaults(engine) EXCEPT !.tools = r] \in Settings
         /\ [engine EXCEPT !.history = "none"] \in Settings
         /\ Wired(r) \in Wiring
<1>1. WithDefaults(engine) \in Settings
  BY DEF TypeOK, WithDefaults, Settings
<1>2. Prepared(WithDefaults(engine), r) \in Settings
  BY <1>1 DEF Prepared, Sampling, Settings
<1>3. /\ [WithDefaults(engine) EXCEPT !.tools = r] \in Settings
      /\ [engine EXCEPT !.history = "none"] \in Settings
  BY <1>1 DEF TypeOK, Settings
<1>4. Wired(r) \in Wiring
  BY DEF TypeOK, Wired, Wiring, Progress
<1>5. QED
  BY <1>1, <1>2, <1>3, <1>4

(* The flag stays a flag.                                                  *)
LEMMA FlagIsTyped ==
  ASSUME TypeOK, NEW r \in Requests, NEW o
  PROVE  /\ Called(r, o) => cancel' \in BOOLEAN
         /\ cancel' \in CancelOnEntry(r) => cancel' \in BOOLEAN
<1>1. {cancel, gone[r], ask[r].stream, ask[r].ticks} \subseteq BOOLEAN
  BY DEF TypeOK, Ask
<1>2. Called(r, o) => cancel' \in BOOLEAN
  BY <1>1 DEF Called, Written
<1>3. cancel' \in CancelOnEntry(r) => cancel' \in BOOLEAN
  BY <1>1 DEF CancelOnEntry, FirstTick
<1>4. QED
  BY <1>2, <1>3

(* Every variable keeps its type, and a request is done exactly when it    *)
(* has been answered, whatever threads interleave.                         *)
LEMMA TypeStep ==
  ASSUME TypeOK, NEW r \in Requests, Step(r)
  PROVE  TypeOK'
<1> USE GateAssumption
<1>1. CASE Refuse(r) \/ Abandon(r)
  BY <1>1 DEF Refuse, Abandon, Answer, Goto, TypeOK, client
<1>2. ASSUME NEW a \in Asks, Admit(r, a) PROVE TypeOK'
  BY <1>2 DEF Admit, Goto, TypeOK, answers
<1>3. CASE TearDown(r)
  BY <1>3, SettingsAreTyped DEF TearDown, Acquire, Goto, TypeOK, client, answers
<1>4. ASSUME NEW p \in Presets, SetPreset(r, p) PROVE TypeOK'
  BY <1>4 DEF SetPreset, Answer, Goto, TypeOK, client
<1>5. CASE Serve(r)
  <2>1. cancel' \in BOOLEAN
    BY <1>5, FlagIsTyped DEF Serve
  <2>2. QED
    BY <1>5, <2>1, SettingsAreTyped DEF Serve, Acquire, Goto, TypeOK, client, answers
<1>6. CASE Malformed(r)
  BY <1>6, SettingsAreTyped DEF Malformed, Answer, Goto, TypeOK, client
<1>7. CASE EvaluatePrompt(r)
  <2>1. cancel' \in BOOLEAN
    BY <1>7, FlagIsTyped DEF EvaluatePrompt
  <2>2. QED
    BY <1>7, <2>1 DEF EvaluatePrompt, TypeOK, client, answers
<1>8. CASE EmitPiece(r)
  <2>1. cancel' \in BOOLEAN /\ model \in Models
    BY <1>8, FlagIsTyped DEF EmitPiece, Running, TypeOK
  <2>2. QED
    BY <1>8, <2>1 DEF EmitPiece, TypeOK, client
<1>9. CASE Finish(r)
  BY <1>9 DEF Finish, Answer, Release, Goto, TypeOK, client
<1>10. CASE Throw(r)
  BY <1>10 DEF Throw, Answer, Release, Goto, TypeOK, client
<1>11. CASE FailToLoad(r)
  BY <1>11 DEF FailToLoad, Answer, Release, Goto, TypeOK, client
<1>12. ASSUME NEW m \in Models, Load(r, m) PROVE TypeOK'
  BY <1>12, SettingsAreTyped DEF Load, NameOf, Answer, Release, Goto, TypeOK, client
<1>13. CASE Disconnect(r)
  BY <1>13 DEF Disconnect, TypeOK, answers
<1>14. QED
  BY <1>1, <1>2, <1>3, <1>4, <1>5, <1>6, <1>7, <1>8, <1>9, <1>10, <1>11, <1>12, <1>13
  DEF Step, Arrive, Proceed

THEOREM GateTyped == Spec => []TypeOK
<1>1. Init => TypeOK
  <2> SUFFICES ASSUME Init PROVE TypeOK
    OBVIOUS
  <2>1. engine \in Settings /\ wired \in Wiring
    BY DEF Init, Settings, Wiring
  <2>2. ask \in [Requests -> Ask]
    BY DEF Init, Ask, Nothing
  <2>3. QED
    BY <2>1, <2>2 DEF Init, TypeOK
<1>2. TypeOK /\ [Next]_vars => TypeOK'
  <2>1. TypeOK /\ UNCHANGED vars => TypeOK'
    BY DEF TypeOK, vars, client, answers
  <2>2. TypeOK /\ Next => TypeOK'
    BY TypeStep DEF Next, Step
  <2>3. QED
    BY <2>1, <2>2
<1>3. QED
  BY <1>1, <1>2, PTL DEF Spec
-----------------------------------------------------------------------------
(* The lock and the engine: only an acquire or a release moves a request   *)
(* in or out, and each moves the lock with it.                             *)
LEMMA ProtectedStep ==
  ASSUME TypeOK, EngineIsProtected, NEW r \in Requests, Step(r)
  PROVE  EngineIsProtected'
<1> USE GateAssumption
<1>1. ASSUME ~InEngine(r), lock' = lock,
             \E p \in {"checked", "done"} : Goto(r, p)
      PROVE  EngineIsProtected'
  BY <1>1 DEF EngineIsProtected, InEngine, Goto, TypeOK
<1>2. CASE at' = at /\ lock' = lock
  BY <1>2 DEF EngineIsProtected, InEngine
<1>3. ASSUME ~InEngine(r), Acquire(r),
             \E p \in {"generating", "swapping"} : Goto(r, p)
      PROVE  EngineIsProtected'
  <2>1. \A s \in Requests : ~InEngine(s)
    BY <1>3 DEF Acquire, EngineIsProtected
  <2>2. InEngine(r)' /\ \A s \in Requests \ {r} : at'[s] = at[s]
    BY <1>3 DEF Goto, TypeOK, InEngine
  <2>3. QED
    BY <1>3, <2>1, <2>2 DEF Acquire, EngineIsProtected, InEngine
<1>4. ASSUME InEngine(r), Release, Goto(r, "done")
      PROVE  EngineIsProtected'
  BY <1>4 DEF EngineIsProtected, InEngine, Release, Goto, TypeOK
<1>5. CASE Refuse(r) \/ Abandon(r) \/ Malformed(r)
  BY <1>1, <1>5 DEF Refuse, Abandon, Malformed, Answer, InEngine
<1>6. ASSUME NEW a \in Asks, Admit(r, a) PROVE EngineIsProtected'
  BY <1>1, <1>6 DEF Admit, InEngine
<1>7. ASSUME NEW p \in Presets, SetPreset(r, p) PROVE EngineIsProtected'
  BY <1>1, <1>7 DEF SetPreset, Answer, InEngine
<1>8. CASE TearDown(r) \/ Serve(r)
  BY <1>3, <1>8 DEF TearDown, Serve, InEngine
<1>9. CASE EvaluatePrompt(r) \/ EmitPiece(r) \/ Disconnect(r)
  BY <1>2, <1>9 DEF EvaluatePrompt, EmitPiece, Disconnect
<1>10. CASE Finish(r) \/ Throw(r) \/ FailToLoad(r)
  BY <1>4, <1>10 DEF Finish, Throw, FailToLoad, Answer, InEngine
<1>11. ASSUME NEW m \in Models, Load(r, m) PROVE EngineIsProtected'
  BY <1>4, <1>11 DEF Load, Answer, InEngine
<1>12. QED
  BY <1>5, <1>6, <1>7, <1>8, <1>9, <1>10, <1>11 DEF Step, Arrive, Proceed

(* engine_mu protects the engine: with any number of threads, whoever      *)
(* generates or replaces the model is the one that holds the lock.         *)
THEOREM LockProtectsEngine == Spec => []EngineIsProtected
<1>1. Init => EngineIsProtected
  BY GateAssumption DEF Init, EngineIsProtected, InEngine
<1>2. TypeOK /\ EngineIsProtected /\ [Next]_vars => EngineIsProtected'
  <2>1. EngineIsProtected /\ UNCHANGED vars => EngineIsProtected'
    BY DEF EngineIsProtected, InEngine, vars
  <2>2. QED
    BY <2>1, ProtectedStep DEF Next, Step
<1>3. QED
  BY <1>1, <1>2, GateTyped, PTL DEF Spec

(* Two requests are never in the engine together.                          *)
COROLLARY OneInTheEngine ==
  Spec => [](\A r, s \in Requests : InEngine(r) /\ InEngine(s) => r = s)
<1>1. EngineIsProtected => \A r, s \in Requests : InEngine(r) /\ InEngine(s) => r = s
  BY DEF EngineIsProtected
<1>2. QED
  BY <1>1, LockProtectsEngine, PTL
-----------------------------------------------------------------------------
(* Whoever generates is alone: a step of another request leaves alone what *)
(* it generates with.                                                      *)
LEMMA OthersStayOut ==
  ASSUME TypeOK, EngineIsProtected, NEW r \in Requests, NEW s \in Requests,
         Step(r), r # s, at[s] = "generating"
  PROVE  UNCHANGED <<engine, cancel, wired, model, modelId, preset>>
<1>1. lock = s /\ lock # "free" /\ ~InEngine(r)
  BY GateAssumption DEF EngineIsProtected, InEngine
<1>2. CASE Refuse(r) \/ Abandon(r) \/ Disconnect(r) \/ \E a \in Asks : Admit(r, a)
  BY <1>2 DEF Refuse, Abandon, Disconnect, Admit
<1>3. CASE ~(Refuse(r) \/ Abandon(r) \/ Disconnect(r) \/ \E a \in Asks : Admit(r, a))
  <2>1. FALSE
    BY <1>1, <1>3
    DEF Step, Arrive, Proceed, TearDown, SetPreset, Serve, Malformed, Acquire,
        EvaluatePrompt, EmitPiece, Running, Finish, Throw, FailToLoad, Load, InEngine
  <2>2. QED
    BY <2>1
<1>4. QED
  BY <1>2, <1>3

(* What a step does to the place and the ask of another request: nothing.  *)
LEMMA OthersKeepTheirPlace ==
  ASSUME TypeOK, NEW r \in Requests, NEW s \in Requests, Step(r), r # s
  PROVE  /\ at'[s] = at[s] /\ ask'[s] = ask[s] /\ gone'[s] = gone[s]
         /\ named'[s] = named[s] /\ from'[s] = from[s]
<1>1. CASE Arrive(r) \/ Abandon(r) \/ Disconnect(r)
  BY <1>1 DEF Arrive, Refuse, Admit, TearDown, SetPreset, Abandon, Disconnect,
              Answer, Goto, TypeOK, client, answers
<1>2. CASE Proceed(r)
  BY <1>2 DEF Proceed, Serve, Malformed, EvaluatePrompt, EmitPiece, Finish, Throw,
              FailToLoad, Load, Answer, Goto, TypeOK, client, answers
<1>3. QED
  BY <1>1, <1>2 DEF Step

(* A request that generates after its own step has just been set up, or    *)
(* was generating and keeps the settings, the wiring and the model.        *)
LEMMA GeneratingSteps ==
  ASSUME TypeOK, NEW r \in Requests, Step(r), at'[r] = "generating"
  PROVE  \/ Serve(r)
         \/ /\ at[r] = "generating"
            /\ EvaluatePrompt(r) \/ EmitPiece(r) \/ Disconnect(r)
            /\ UNCHANGED <<at, ask, engine, wired, model, modelId, preset>>
<1>1. ASSUME NEW p, Goto(r, p), p # "generating" PROVE FALSE
  BY <1>1 DEF Goto, TypeOK
<1>2. ~(Refuse(r) \/ Abandon(r) \/ Malformed(r) \/ Finish(r) \/ Throw(r) \/ FailToLoad(r))
  BY <1>1 DEF Refuse, Abandon, Malformed, Finish, Throw, FailToLoad, Answer
<1>3. ~TearDown(r) /\ \A a \in Asks : ~Admit(r, a)
  BY <1>1 DEF TearDown, Admit
<1>4. /\ \A p \in Presets : ~SetPreset(r, p)
      /\ \A m \in Models : ~Load(r, m)
  BY <1>1 DEF SetPreset, Load, Answer
<1>5. Serve(r) \/ EvaluatePrompt(r) \/ EmitPiece(r) \/ Disconnect(r)
  BY <1>2, <1>3, <1>4 DEF Step, Arrive, Proceed
<1>6. EvaluatePrompt(r) \/ EmitPiece(r) \/ Disconnect(r)
        => UNCHANGED <<at, ask, engine, wired, model, modelId, preset>>
  BY DEF EvaluatePrompt, EmitPiece, Disconnect, client
<1>7. QED
  BY <1>5, <1>6

Served(r) ==
  engine = [history  |-> r,
            tools    |-> IF ask[r].tools THEN r ELSE "server",
            sampling |-> IF ask[r].sampling /\ preset = "auto" THEN r ELSE preset,
            effort   |-> IF ask[r].effort THEN r ELSE "server"]

(* Setting up leaves nothing of what the engine held.                      *)
LEMMA SetUpIsFresh ==
  ASSUME TypeOK, NEW r \in Requests, Serve(r)
  PROVE  Served(r)'
<1>1. /\ WithDefaults(engine).tools = "server"
      /\ WithDefaults(engine).sampling = preset
  BY DEF TypeOK, Settings, WithDefaults
<1>2. engine' = Prepared(WithDefaults(engine), r) /\ ask' = ask /\ preset' = preset
  BY DEF Serve, client
<1>3. QED
  BY <1>1, <1>2 DEF Prepared, Sampling, Served

(* While a request is served, the engine holds what it asked for over the  *)
(* defaults, and nothing of the requests and swaps before it.              *)
THEOREM RequestsAreServedAsAsked == Spec => []ServedAsAsked
<1>1. Init => ServedAsAsked
  BY DEF Init, ServedAsAsked
<1>2. TypeOK /\ EngineIsProtected /\ ServedAsAsked /\ [Next]_vars => ServedAsAsked'
  <2>1. ServedAsAsked /\ UNCHANGED vars => ServedAsAsked'
    BY DEF ServedAsAsked, vars, client
  <2>2. ASSUME TypeOK, EngineIsProtected, ServedAsAsked,
               NEW r \in Requests, Step(r),
               NEW s \in Requests, at'[s] = "generating"
        PROVE  Served(s)'
    <3>1. CASE s # r
      <4>1. at[s] = "generating" /\ ask'[s] = ask[s] /\ Served(s)
        BY <2>2, <3>1, OthersKeepTheirPlace DEF ServedAsAsked, Served
      <4>2. engine' = engine /\ preset' = preset
        BY <2>2, <3>1, <4>1, OthersStayOut
      <4>3. QED
        BY <4>1, <4>2 DEF Served
    <3>2. CASE s = r /\ Serve(r)
      BY <2>2, <3>2, SetUpIsFresh
    <3>3. CASE s = r /\ ~Serve(r)
      <4>1. /\ at[r] = "generating"
            /\ UNCHANGED <<ask, engine, preset>>
        BY <2>2, <3>3, GeneratingSteps
      <4>2. QED
        BY <2>2, <3>3, <4>1 DEF ServedAsAsked, Served
    <3>4. QED
      BY <3>1, <3>2, <3>3
  <2>3. QED
    BY <2>1, <2>2 DEF ServedAsAsked, Served, Next, Step
<1>3. QED
  BY <1>1, <1>2, GateTyped, LockProtectsEngine, PTL DEF Spec
-----------------------------------------------------------------------------
(* Only streamed requests wire callbacks, and only once they generate.     *)
WiredByStreams ==
  \A o \in Requests : o \in {wired.pieces, wired.progress} =>
    ask[o].stream /\ at[o] \in {"generating", "done"}

CancelInv == WiredByStreams /\ CancelIsOwn

LEMMA WiredStep ==
  ASSUME TypeOK, WiredByStreams, NEW r \in Requests, Step(r)
  PROVE  WiredByStreams'
<1> SUFFICES ASSUME NEW o \in Requests, o \in {wired'.pieces, wired'.progress}
             PROVE  ask'[o].stream /\ at'[o] \in {"generating", "done"}
  BY DEF WiredByStreams
<1>1. CASE o \in {wired.pieces, wired.progress}
  <2>1. ask[o].stream /\ at[o] \in {"generating", "done"}
    BY <1>1 DEF WiredByStreams
  <2>2. CASE o # r
    BY <2>1, <2>2, OthersKeepTheirPlace
  <2>3. CASE o = r
    <3>1. /\ at[r] \in {"generating", "done"}
          /\ EvaluatePrompt(r) \/ EmitPiece(r) \/ Disconnect(r) \/ Finish(r) \/ Throw(r)
      BY <2>1, <2>3
      DEF Step, Arrive, Proceed, Abandon, Refuse, Admit, TearDown, SetPreset,
          Serve, Malformed, FailToLoad, Load
    <3>2. ask' = ask /\ at'[r] \in {at[r], "done"}
      BY <3>1 DEF EvaluatePrompt, EmitPiece, Disconnect, Finish, Throw, Answer, Goto,
                  TypeOK, client
    <3>3. QED
      BY <2>1, <2>3, <3>1, <3>2
  <2>4. QED
    BY <2>2, <2>3
<1>2. CASE o \notin {wired.pieces, wired.progress}
  <2>1. Serve(r)
    BY <1>2
    DEF Step, Arrive, Proceed, Abandon, Disconnect, Refuse, Admit, TearDown, SetPreset,
        Malformed, EvaluatePrompt, EmitPiece, Finish, Throw, FailToLoad, Load
  <2>2. o = r /\ ask[r].stream
    BY <1>2, <2>1, GateAssumption DEF Serve, Wired, Progress
  <2>3. ask' = ask /\ at'[r] = "generating"
    BY <2>1 DEF Serve, Goto, TypeOK, client
  <2>4. QED
    BY <2>2, <2>3
<1>3. QED
  BY <1>1, <1>2

LEMMA CancelStep ==
  ASSUME TypeOK, EngineIsProtected, CancelInv, NEW r \in Requests, Step(r)
  PROVE  CancelIsOwn'
<1> SUFFICES ASSUME NEW s \in Requests, at'[s] = "generating", cancel',
                    {wired'.pieces, wired'.progress} \subseteq {s, "none"}
             PROVE  gone'[s] /\ ask'[s].stream
  BY DEF CancelIsOwn
<1>1. CASE s # r
  <2>1. at[s] = "generating" /\ ask'[s] = ask[s] /\ gone'[s] = gone[s]
    BY <1>1, OthersKeepTheirPlace
  <2>2. cancel' = cancel /\ wired' = wired
    BY <1>1, <2>1, OthersStayOut
  <2>3. QED
    BY <2>1, <2>2 DEF CancelInv, CancelIsOwn
<1>2. CASE s = r /\ Serve(r)
  <2>1. cancel' \in {FALSE, ask[r].stream /\ ask[r].ticks /\ gone[r]} /\ UNCHANGED <<ask, gone>>
    BY <1>2 DEF Serve, CancelOnEntry, FirstTick, client
  <2>2. QED
    BY <1>2, <2>1
<1>3. CASE s = r /\ (EvaluatePrompt(r) \/ EmitPiece(r))
  <2>1. PICK o \in {wired.pieces, wired.progress} : Called(r, o)
    BY <1>3 DEF EvaluatePrompt, EmitPiece
  <2>2. ~cancel /\ UNCHANGED <<ask, gone, wired>>
    BY <1>3 DEF EvaluatePrompt, EmitPiece, Running, client
  <2>3. o = r
    <3>1. o \in {r, "none"}
      BY <1>3, <2>1, <2>2
    <3>2. r # "none"
      BY GateAssumption
    <3>3. o # "none"
      <4>1. o = "none" => cancel' \in {cancel}
        BY <2>1, <3>2 DEF Called
      <4>2. QED
        BY <2>2, <4>1
    <3>4. QED
      BY <3>1, <3>3
  <2>4. cancel' \in {cancel, cancel \/ gone[r]}
    BY <2>1, <2>3 DEF Called, Written
  <2>5. gone[r]
    BY <2>2, <2>4
  <2>6. ask[r].stream
    BY <2>1, <2>3 DEF CancelInv, WiredByStreams
  <2>7. QED
    BY <1>3, <2>2, <2>5, <2>6
<1>4. CASE s = r /\ Disconnect(r)
  <2>1. gone'[r] /\ UNCHANGED <<at, ask, cancel, wired>>
    BY <1>4 DEF Disconnect, TypeOK
  <2>2. QED
    BY <1>4, <2>1 DEF CancelInv, CancelIsOwn
<1>5. QED
  BY <1>1, <1>2, <1>3, <1>4, GeneratingSteps

(* A request is cancelled only because its own client has gone: the flag   *)
(* of an earlier request never reaches it.                                 *)
THEOREM CancelsAreOwn == Spec => []CancelIsOwn
<1>1. Init => CancelInv
  <2>1. Init => WiredByStreams
    <3>1. "none" \notin Requests
      BY GateAssumption
    <3>2. Init => wired = [pieces |-> "none", progress |-> "none"]
      BY Zenon DEF Init
    <3>3. wired = [pieces |-> "none", progress |-> "none"]
            => wired.pieces = "none" /\ wired.progress = "none"
      OBVIOUS
    <3>4. QED
      BY <3>1, <3>2, <3>3 DEF WiredByStreams
  <2>2. Init => CancelIsOwn
    BY DEF Init, CancelIsOwn
  <2>3. QED
    BY <2>1, <2>2 DEF CancelInv
<1>2. TypeOK /\ EngineIsProtected /\ CancelInv /\ [Next]_vars => CancelInv'
  <2>1. CancelInv /\ UNCHANGED vars => CancelInv'
    BY DEF CancelInv, CancelIsOwn, WiredByStreams, vars, client
  <2>2. QED
    BY <2>1, CancelStep, WiredStep DEF CancelInv, Next, Step
<1>3. CancelInv => CancelIsOwn
  BY DEF CancelInv
<1>4. QED
  BY <1>1, <1>2, <1>3, GateTyped, LockProtectsEngine, PTL DEF Spec
-----------------------------------------------------------------------------
(* A streamed request hears its own callbacks and no others.               *)
THEOREM StreamsHearThemselves == Spec => []StreamHearsItself
<1>1. Init => StreamHearsItself
  BY DEF Init, StreamHearsItself
<1>2. TypeOK /\ EngineIsProtected /\ StreamHearsItself /\ [Next]_vars => StreamHearsItself'
  <2>1. StreamHearsItself /\ UNCHANGED vars => StreamHearsItself'
    BY DEF StreamHearsItself, vars, client
  <2>2. ASSUME TypeOK, EngineIsProtected, StreamHearsItself,
               NEW r \in Requests, Step(r),
               NEW s \in Requests, at'[s] = "generating", ask'[s].stream
        PROVE  wired'.pieces = s
               /\ wired'.progress = IF ask'[s].ticks \/ Verbose THEN s ELSE "none"
    <3>1. CASE s # r
      <4>1. at[s] = "generating" /\ ask'[s] = ask[s]
        BY <2>2, <3>1, OthersKeepTheirPlace
      <4>2. wired' = wired
        BY <2>2, <3>1, <4>1, OthersStayOut
      <4>3. QED
        BY <2>2, <4>1, <4>2 DEF StreamHearsItself
    <3>2. CASE s = r /\ Serve(r)
      BY <2>2, <3>2 DEF Serve, Wired, Progress, client
    <3>3. CASE s = r /\ ~Serve(r)
      <4>1. at[r] = "generating" /\ UNCHANGED <<ask, wired>>
        BY <2>2, <3>3, GeneratingSteps
      <4>2. QED
        BY <2>2, <3>3, <4>1 DEF StreamHearsItself
    <3>4. QED
      BY <3>1, <3>2, <3>3
  <2>3. QED
    BY <2>1, <2>2 DEF StreamHearsItself, Next, Step
<1>3. QED
  BY <1>1, <1>2, GateTyped, LockProtectsEngine, PTL DEF Spec
-----------------------------------------------------------------------------
(* The name is the loaded model's, no text comes from a model other than   *)
(* the loaded one while its request is served, and names are written last. *)
NameInv ==
  /\ model # "none" => modelId = model
  /\ \A r \in Requests :
       /\ at[r] = "generating" /\ from[r] # "none" => from[r] = model
       /\ at[r] \in {"new", "checked"} => from[r] = "none"
       /\ named[r] # "none" => at[r] = "done"
  /\ AnswersNameTheirModel

LEMMA ModelNameStep ==
  ASSUME TypeOK, NameInv, NEW r \in Requests, Step(r)
  PROVE  model' # "none" => modelId' = model'
<1>1. CASE UNCHANGED <<model, modelId>>
  BY <1>1 DEF NameInv
<1>2. CASE TearDown(r)
  BY <1>2 DEF TearDown
<1>3. ASSUME NEW m \in Models, Load(r, m) PROVE modelId' = model'
  BY <1>3 DEF Load, NameOf
<1>4. QED
  BY <1>1, <1>2, <1>3
  DEF Step, Arrive, Proceed, Abandon, Disconnect, Refuse, Admit, SetPreset, Serve,
      Malformed, EvaluatePrompt, EmitPiece, Finish, Throw, FailToLoad

(* What its own step does to the text and the name of a request.           *)
LEMMA OwnStepNames ==
  ASSUME TypeOK, NameInv, NEW r \in Requests, Step(r)
  PROVE  /\ at'[r] = "generating" /\ from'[r] # "none" => from'[r] = model'
         /\ at'[r] \in {"new", "checked"} => from'[r] = "none"
         /\ named'[r] # "none" => at'[r] = "done"
         /\ named'[r] # "none" /\ from'[r] # "none" => named'[r] = from'[r]
<1> USE GateAssumption
<1>1. CASE Refuse(r) \/ Abandon(r) \/ Malformed(r)
  BY <1>1 DEF Refuse, Abandon, Malformed, Answer, Goto, TypeOK, NameInv,
              AnswersNameTheirModel
<1>2. ASSUME NEW a \in Asks, Admit(r, a) PROVE at'[r] = "checked" /\ UNCHANGED <<named, from>>
  BY <1>2 DEF Admit, Goto, TypeOK, answers
<1>3. ASSUME NEW p \in Presets, SetPreset(r, p) PROVE at'[r] = "done" /\ UNCHANGED <<named, from>>
  BY <1>3 DEF SetPreset, Answer, Goto, TypeOK
<1>4. CASE TearDown(r)
  BY <1>4 DEF TearDown, Goto, TypeOK, answers, NameInv, AnswersNameTheirModel
<1>5. CASE Serve(r)
  BY <1>5 DEF Serve, Goto, TypeOK, answers, NameInv, AnswersNameTheirModel
<1>6. CASE EvaluatePrompt(r) \/ Disconnect(r)
  BY <1>6 DEF EvaluatePrompt, Disconnect, TypeOK, answers, NameInv, AnswersNameTheirModel
<1>7. CASE EmitPiece(r)
  BY <1>7 DEF EmitPiece, Running, TypeOK, NameInv, AnswersNameTheirModel
<1>8. CASE Finish(r)
  <2>1. at'[r] = "done" /\ at[r] = "generating" /\ from' = from
    BY <1>8 DEF Finish, Answer, Goto, TypeOK
  <2>2. from[r] # "none" => from[r] = modelId
    BY <2>1 DEF NameInv, TypeOK
  <2>3. named'[r] \in {named[r], modelId}
    BY <1>8 DEF Finish, TypeOK
  <2>4. QED
    BY <2>1, <2>2, <2>3 DEF NameInv
<1>9. CASE Throw(r) \/ FailToLoad(r)
  BY <1>9 DEF Throw, FailToLoad, Answer, Goto, TypeOK, NameInv, AnswersNameTheirModel
<1>10. ASSUME NEW m \in Models, Load(r, m) PROVE at'[r] = "done" /\ UNCHANGED <<named, from>>
  BY <1>10 DEF Load, Answer, Goto, TypeOK
<1>11. ((at'[r] = "checked" /\ at[r] = "new") \/ at'[r] = "done") /\ UNCHANGED <<named, from>>
         => /\ at'[r] \in {"new", "checked"} => from'[r] = "none"
            /\ named'[r] # "none" /\ from'[r] # "none" => named'[r] = from'[r]
  BY DEF NameInv, AnswersNameTheirModel
<1>12. QED
  BY <1>1, <1>2, <1>3, <1>4, <1>5, <1>6, <1>7, <1>8, <1>9, <1>10, <1>11
  DEF Step, Arrive, Proceed, NameInv, Admit

LEMMA NameStep ==
  ASSUME TypeOK, EngineIsProtected, NameInv, NEW r \in Requests, Step(r)
  PROVE  NameInv'
<1>1. model' # "none" => modelId' = model'
  BY ModelNameStep
<1>2. ASSUME NEW s \in Requests
      PROVE  /\ at'[s] = "generating" /\ from'[s] # "none" => from'[s] = model'
             /\ at'[s] \in {"new", "checked"} => from'[s] = "none"
             /\ named'[s] # "none" => at'[s] = "done"
             /\ named'[s] # "none" /\ from'[s] # "none" => named'[s] = from'[s]
  <2>1. CASE s = r
    BY <2>1, OwnStepNames
  <2>2. CASE s # r
    <3>1. /\ at'[s] = at[s] /\ named'[s] = named[s] /\ from'[s] = from[s]
      BY <2>2, OthersKeepTheirPlace
    <3>2. at[s] = "generating" => model' = model
      BY <2>2, OthersStayOut
    <3>3. QED
      BY <3>1, <3>2 DEF NameInv, AnswersNameTheirModel
  <2>3. QED
    BY <2>1, <2>2
<1>3. QED
  BY <1>1, <1>2 DEF NameInv, AnswersNameTheirModel

(* A plain answer names the model that wrote it, whatever swaps succeed or *)
(* fail around it: the swap waits for the lock the answer is written under.*)
THEOREM AnswersAreNamedRight == Spec => []AnswersNameTheirModel
<1>1. Init => NameInv
  BY GateAssumption DEF Init, NameInv, AnswersNameTheirModel
<1>2. TypeOK /\ EngineIsProtected /\ NameInv /\ [Next]_vars => NameInv'
  <2>1. NameInv /\ UNCHANGED vars => NameInv'
    BY DEF NameInv, AnswersNameTheirModel, vars, answers
  <2>2. QED
    BY <2>1, NameStep DEF Next, Step
<1>3. NameInv => AnswersNameTheirModel
  BY DEF NameInv
<1>4. QED
  BY <1>1, <1>2, <1>3, GateTyped, LockProtectsEngine, PTL DEF Spec
=============================================================================
