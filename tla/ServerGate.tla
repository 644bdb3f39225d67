------------------------------ MODULE ServerGate ------------------------------
(***************************************************************************)
(* The HTTP server around its one engine (services/server.cpp): requests   *)
(* run on threads of their own, look at the model without a lock, and take *)
(* engine_mu to set the engine up, generate, change the preset or replace  *)
(* the model.  What a call into the engine does is ChatEngine's matter;    *)
(* here it is a sequence of callbacks between two changes of the lock.     *)
(***************************************************************************)
EXTENDS Naturals, FiniteSets

CONSTANTS
  Requests,   \* HTTP requests, each with the thread that serves it
  Asks,       \* what a chat request may ask for
  Presets,    \* sampling presets; "auto" leaves the sampling to the client
  Models,     \* files that can be loaded
  Verbose     \* --verbose: progress is logged, so its callback is always wired

Ask == [stream : BOOLEAN,     \* reply with server-sent events
        tools : BOOLEAN,      \* bring its own tools
        sampling : BOOLEAN,   \* set temperature, top_p, top_k or an inline preset
        effort : BOOLEAN,     \* set reasoning effort and thinking
        ticks : BOOLEAN]      \* want prompt progress events

ASSUME GateAssumption ==
  /\ Asks \subseteq Ask /\ "auto" \in Presets /\ Verbose \in BOOLEAN
  /\ {"none", "server", "free"} \cap Requests = {}
  /\ {"none", "(no model)"} \cap Models = {}

(* A request that has not been parsed asks for nothing yet.                *)
Nothing == [stream |-> FALSE, tools |-> FALSE, sampling |-> FALSE,
            effort |-> FALSE, ticks |-> FALSE]

VARIABLES
  at,        \* where each request stands
  ask,       \* what it asks for
  gone,      \* its client has disconnected
  lock,      \* who holds engine_mu
  engine,    \* whose settings the engine holds
  cancel,    \* the engine's cancel flag
  wired,     \* whose callbacks the engine calls
  model,     \* the loaded model
  modelId,   \* ctx.model_id
  preset,    \* the ambient preset
  reply,     \* the answer to each request
  named,     \* the model the answer names
  from       \* the model its text came from (history variable)

client  == <<ask, gone>>
answers == <<reply, named, from>>
vars == <<at, client, lock, engine, cancel, wired, model, modelId, preset, answers>>

Settings == [history : Requests \cup {"none"}, tools : Requests \cup {"server"},
             sampling : Requests \cup Presets, effort : Requests \cup {"server"}]
Wiring == [pieces : Requests \cup {"none"}, progress : Requests \cup {"none"}]

(* The start-up load may fail: the server comes up without a model.        *)
Init ==
  /\ at = [r \in Requests |-> "new"]
  /\ ask = [r \in Requests |-> Nothing] /\ gone = [r \in Requests |-> FALSE]
  /\ lock = "free" /\ cancel = FALSE
  /\ preset \in Presets
  /\ engine = [history |-> "none", tools |-> "server",
               sampling |-> preset, effort |-> "server"]
  /\ wired = [pieces |-> "none", progress |-> "none"]
  /\ model \in Models \cup {"none"}
  /\ modelId = IF model = "none" THEN "(no model)" ELSE model
  /\ reply = [r \in Requests |-> "none"]
  /\ named = [r \in Requests |-> "none"] /\ from = [r \in Requests |-> "none"]

Barge(r)   == lock' = r                          \* mutant: nobody waits
Acquire(r) == lock = "free" /\ lock' = r
Keep       == lock' = lock                       \* mutant: the lock is kept
Release    == lock' = "free"
Goto(r, p) == at' = [at EXCEPT ![r] = p]
Answer(r, status) == Goto(r, "done") /\ reply' = [reply EXCEPT ![r] = status]
-----------------------------------------------------------------------------
(* require_model, read without the lock, then the parsing of the request.  *)
Refuse(r) ==
  /\ at[r] = "new" /\ model = "none"
  /\ Answer(r, "503")
  /\ UNCHANGED <<client, lock, engine, cancel, wired, model, modelId, preset, named, from>>

Admit(r, a) ==
  /\ at[r] = "new" /\ model # "none"
  /\ Goto(r, "checked") /\ ask' = [ask EXCEPT ![r] = a]
  /\ UNCHANGED <<gone, lock, engine, cancel, wired, model, modelId, preset, answers>>

(* reset_engine_defaults leaves effort and thinking to the next step.      *)
LeftoverSampling(e) ==                           \* mutant: sampling is kept
  [e EXCEPT !.history = "none", !.tools = "server"]
WithDefaults(e) ==
  [e EXCEPT !.history = "none", !.tools = "server", !.sampling = preset]

(* prepare_engine_for_request: a concrete preset overrides the client.     *)
Sampling(e, r) ==
  IF ask[r].sampling /\ preset = "auto" THEN r ELSE e.sampling
Prepared(e, r) ==
  [history |-> r, tools |-> IF ask[r].tools THEN r ELSE e.tools,
   sampling |-> Sampling(e, r), effort |-> IF ask[r].effort THEN r ELSE "server"]

(* The streamed handler wires its callbacks; the plain one wires none.     *)
ProgressIfAsked(r) == IF ask[r].ticks THEN r ELSE wired.progress    \* mutant
Progress(r) == IF ask[r].ticks \/ Verbose THEN r ELSE "none"
Wired(r) ==
  IF ask[r].stream THEN [pieces |-> r, progress |-> Progress(r)] ELSE wired

(* A write to a connection whose client is gone may fail, or may not yet:  *)
(* a failed one asks the engine to cancel.                                 *)
Written(r) == {cancel, cancel \/ gone[r]}

(* A flag left up by an earlier request is dropped before decoding, but    *)
(* the 0% tick a stream begins with may raise it again.                    *)
FirstTick(r) == {FALSE, ask[r].stream /\ ask[r].ticks /\ gone[r]}
CancelKept(r)    == Written(r)                   \* mutant: no clear_cancel
CancelOnEntry(r) == FirstTick(r)

(* Both handlers, up to the engine's first token.                          *)
Serve(r) ==
  /\ at[r] = "checked"
  /\ Acquire(r) /\ Goto(r, "generating")
  /\ engine' = Prepared(WithDefaults(engine), r)
  /\ wired' = Wired(r)
  /\ cancel' \in CancelOnEntry(r)
  /\ UNCHANGED <<client, model, modelId, preset, answers>>

(* A tool whose name is not a string: setting up the client's tools throws *)
(* half-way, with the defaults laid down and the lock released on the way  *)
(* out.  A plain handler throws through the router, which answers 500; the *)
(* body of a stream throws in its content provider, where nothing catches  *)
(* it, and its client gets no answer.                                      *)
Malformed(r) ==
  /\ at[r] = "checked" /\ lock = "free"
  /\ ask[r].tools
  /\ engine' = [WithDefaults(engine) EXCEPT !.tools = r]
  /\ Answer(r, IF ask[r].stream THEN "lost" ELSE "500")
  /\ UNCHANGED <<client, lock, cancel, wired, model, modelId, preset, named, from>>

(* The library gives up on a stream whose client is gone before it began.  *)
Abandon(r) ==
  /\ at[r] = "checked" /\ ask[r].stream /\ gone[r]
  /\ Answer(r, "lost")
  /\ UNCHANGED <<client, lock, engine, cancel, wired, model, modelId, preset, named, from>>
-----------------------------------------------------------------------------
(* A callback of request o runs while r is served.  The callbacks of a     *)
(* request that has returned refer to its dead frame: whatever it holds    *)
(* then may make them ask for a cancel or not.                             *)
Called(r, o) ==
  cancel' \in IF o = r THEN Written(r) ELSE IF o = "none" THEN {cancel} ELSE BOOLEAN

(* The engine works only with a model, and a cancel is the last thing its  *)
(* callbacks change.                                                       *)
Running(r) == at[r] = "generating" /\ model # "none" /\ ~cancel

EvaluatePrompt(r) ==
  /\ Running(r)
  /\ \E o \in {wired.progress, wired.pieces} : Called(r, o)
  /\ UNCHANGED <<at, client, lock, engine, wired, model, modelId, preset, answers>>

EmitPiece(r) ==
  /\ Running(r)
  /\ Called(r, wired.pieces)
  /\ from' = [from EXCEPT ![r] = model]
  /\ UNCHANGED <<at, client, lock, engine, wired, model, modelId, preset, reply, named>>

(* The engine returns; a plain answer names the model.  Without a model    *)
(* the engine returns at once, and the 200 has nothing in it.              *)
Finish(r) ==
  /\ at[r] = "generating"
  /\ Answer(r, IF model = "none" THEN "empty" ELSE "200") /\ Release
  /\ named' = IF ask[r].stream THEN named ELSE [named EXCEPT ![r] = modelId]
  /\ UNCHANGED <<client, engine, cancel, wired, model, modelId, preset, from>>

(* The engine throws: a stream ends with an error event, after a 200.      *)
Throw(r) ==
  /\ at[r] = "generating"
  /\ Answer(r, IF ask[r].stream THEN "200" ELSE "500") /\ Release
  /\ UNCHANGED <<client, engine, cancel, wired, model, modelId, preset, named, from>>
-----------------------------------------------------------------------------
SetPreset(r, p) ==
  /\ at[r] = "new" /\ lock = "free"
  /\ preset' = p
  /\ Answer(r, "200")
  /\ UNCHANGED <<client, lock, engine, cancel, wired, model, modelId, named, from>>

(* Hot swap: the old model is torn down before the new one is loaded.  A   *)
(* model stands for its file's base name, which is what model_id shows.    *)
TearDown(r) ==
  /\ at[r] = "new"
  /\ Acquire(r) /\ Goto(r, "swapping")
  /\ model' = "none" /\ engine' = [engine EXCEPT !.history = "none"]
  /\ UNCHANGED <<client, cancel, wired, modelId, preset, answers>>

NameKept(m) == modelId                           \* mutant: the name is not updated
NameOf(m)   == m
Load(r, m) ==
  /\ at[r] = "swapping"
  /\ model' = m /\ modelId' = NameOf(m)
  /\ engine' = WithDefaults(engine)
  /\ Answer(r, "200") /\ Release
  /\ UNCHANGED <<client, cancel, wired, preset, named, from>>

(* The 500 of a swap that failed is told apart from the others.            *)
FailToLoad(r) ==
  /\ at[r] = "swapping"
  /\ Answer(r, "not loaded") /\ Release
  /\ UNCHANGED <<client, engine, cancel, wired, model, modelId, preset, named, from>>

Disconnect(r) ==
  /\ at[r] \in {"checked", "generating"} /\ ~gone[r]
  /\ gone' = [gone EXCEPT ![r] = TRUE]
  /\ UNCHANGED <<at, ask, lock, engine, cancel, wired, model, modelId, preset, answers>>
-----------------------------------------------------------------------------
Arrive(r) ==
  \/ Refuse(r) \/ TearDown(r)
  \/ \E a \in Asks : Admit(r, a)
  \/ \E p \in Presets : SetPreset(r, p)

(* What the thread of a request does once it has been let in.              *)
Proceed(r) ==
  \/ Serve(r) \/ Malformed(r)
  \/ EvaluatePrompt(r) \/ EmitPiece(r)
  \/ Finish(r) \/ Throw(r)
  \/ FailToLoad(r) \/ \E m \in Models : Load(r, m)

Next == \E r \in Requests : Arrive(r) \/ Proceed(r) \/ Abandon(r) \/ Disconnect(r)
Spec == Init /\ [][Next]_vars

(* Threads run, and the engine's calls return.  The mutex keeps no order,  *)
(* but as many requests as wait can overtake one.                          *)
Returns(r) == Finish(r) \/ Throw(r) \/ FailToLoad(r) \/ \E m \in Models : Load(r, m)
FairSpec ==
  Spec /\ \A r \in Requests : WF_vars(Serve(r) \/ Malformed(r)) /\ WF_vars(Returns(r))
-----------------------------------------------------------------------------
(* Type invariant; a request is done exactly when it has been answered.    *)
TypeOK ==
  /\ at \in [Requests -> {"new", "checked", "generating", "swapping", "done"}]
  /\ ask \in [Requests -> Ask] /\ gone \in [Requests -> BOOLEAN]
  /\ lock \in Requests \cup {"free"} /\ cancel \in BOOLEAN
  /\ engine \in Settings /\ wired \in Wiring /\ preset \in Presets
  /\ model \in Models \cup {"none"} /\ modelId \in Models \cup {"(no model)"}
  /\ reply \in [Requests -> {"none", "200", "empty", "500", "not loaded", "503", "lost"}]
  /\ named \in [Requests -> Models \cup {"none", "(no model)"}]
  /\ from \in [Requests -> Models \cup {"none"}]
  /\ \A r \in Requests : at[r] = "done" <=> reply[r] # "none"

(* engine_mu protects the engine: whoever generates or replaces the model  *)
(* holds the lock, whoever holds it does one of the two, and so no two     *)
(* requests are ever in the engine together.                               *)
InEngine(r) == at[r] \in {"generating", "swapping"}
EngineIsProtected == \A r \in Requests : InEngine(r) <=> lock = r

(* While a request is served the engine holds the settings it asked for    *)
(* over the defaults of the day, and nothing of any request before it.     *)
ServedAsAsked ==
  \A r \in Requests : at[r] = "generating" =>
    engine = [history  |-> r,
              tools    |-> IF ask[r].tools THEN r ELSE "server",
              sampling |-> IF ask[r].sampling /\ preset = "auto" THEN r ELSE preset,
              effort   |-> IF ask[r].effort THEN r ELSE "server"]

(* A streamed request hears its own callbacks and no others: the progress  *)
(* wired for an earlier one is gone when it wants none.                    *)
StreamHearsItself ==
  \A r \in Requests : at[r] = "generating" /\ ask[r].stream =>
    /\ wired.pieces = r
    /\ wired.progress = IF ask[r].ticks \/ Verbose THEN r ELSE "none"

(* A request is cancelled only by its own client's disconnection, never by *)
(* a flag an earlier one left up (unless a dead callback raised it).       *)
CancelIsOwn ==
  \A r \in Requests :
    /\ at[r] = "generating" /\ cancel
    /\ {wired.pieces, wired.progress} \subseteq {r, "none"}
    => gone[r] /\ ask[r].stream

(* A plain answer names the model that wrote it, however many swaps and    *)
(* failed swaps there were.                                                *)
AnswersNameTheirModel ==
  \A r \in Requests :
    named[r] # "none" /\ from[r] # "none" => named[r] = from[r]

(* Every chat request that is let in ends, and so does every swap; and the *)
(* client hears how, but for a stream whose client has gone or whose own   *)
(* tools were malformed.  A 200 with nothing in it takes a swap that       *)
(* failed since the request was let in.                                    *)
Told(r) ==
  /\ reply[r] = "lost"  => ask[r].stream /\ (gone[r] \/ ask[r].tools)
  /\ reply[r] = "empty" => \E s \in Requests \ {r} : reply[s] = "not loaded"
AdmittedAreAnswered ==
  \A r \in Requests :
    at[r] \in {"checked", "generating", "swapping"} ~> at[r] = "done" /\ Told(r)
=============================================================================
