----------------------------- MODULE ChatEngine -----------------------------
(***************************************************************************)
(* easyai::Engine: the conversation history, the KV cache of the llama     *)
(* context, and the calls that work on them: the agentic loop              *)
(* Engine::chat_continue, the single turn Engine::generate_one and the     *)
(* small history operations.  One thread runs a call at a time (the        *)
(* server's engine_mu, or the only thread of a local program); the cancel  *)
(* flag is the one thing another thread writes.                            *)
(*                                                                         *)
(* A turn is generated token by token.  A token stands for a run of text   *)
(* of one sort: "think" for reasoning, "announce" for a short promise of   *)
(* action, "text" for any other visible content, "call" for a whole tool   *)
(* call, be it the parser or one of its recovery passes that finds it.     *)
(* How many calls a turn holds, and whether it says something, is a        *)
(* function of its tokens.  How the template will write the parsed turn    *)
(* into the next prompt is not: it may be longer or shorter than what was  *)
(* generated, and spelt otherwise.                                         *)
(***************************************************************************)
EXTENDS Naturals, FiniteSets, Sequences, SequencesExt

CONSTANTS
  MaxToolHops,          \* max_tool_hops
  MaxIncompleteRetries, \* max_incomplete_retries, clamped to >= 0
  MaxParallelCalls,     \* kMaxParallelToolCalls
  ParallelToolCalls,    \* parallel_tool_calls
  RetryOnIncomplete,    \* retry_on_incomplete
  HasTools,             \* some tool is registered
  HasSystem,            \* system_prompt is not empty
  NCtx,                 \* llama_n_ctx, in tokens of the model
  NBatch,               \* params.n_batch
  StopPct,              \* stop_at_ctx_pct, 0 disables the ceiling
  MaxNewTokens,         \* max_new_tokens (or n_predict), 0 means unlimited
  AddBos,               \* the vocabulary adds BOS when asked for specials
  StripsOldThinking,    \* the template drops reasoning before the last user turn
  BackendMayFail,       \* llama_process may return an error
  Entries,              \* the calls the embedding program makes
  ClientHistories,      \* hist_minus_last of the requests the server receives
  MaxHistory            \* bound of the model: no Chat beyond this length

Generated == {"think", "announce", "text", "call"}
Token == Generated \cup
  {"bos", "system", "user", "assistant", "tool", "instructions", "ask", "nudge",
   "result", "recall", "blank"}
Role == {"system", "user", "assistant", "tool"}

ASSUME BudgetAssumption ==
  /\ MaxToolHops \in Nat \ {0} /\ MaxIncompleteRetries \in Nat
  /\ MaxParallelCalls \in Nat \ {0} /\ MaxNewTokens \in Nat
  /\ NCtx \in Nat \ {0} /\ NBatch \in Nat \ {0} /\ StopPct \in 0..100
ASSUME FlagAssumption ==
  /\ {ParallelToolCalls, RetryOnIncomplete, HasTools, HasSystem} \subseteq BOOLEAN
  /\ {AddBos, StripsOldThinking, BackendMayFail} \subseteq BOOLEAN

VARIABLES
  history,            \* the messages: role, rendered body, number of tool calls
  kv,                 \* the tokens in sequence 0 of the KV cache
  raw,                \* the tokens of the turn being generated
  at,                 \* where the call is: "idle" between calls
  mode,               \* "loop" for chat_continue, "one" for generate_one
  hop,                \* the for-loop counter of chat_continue
  thoughtRetries, incompleteRetries, zeroWorkRetries,
  pending,            \* tool calls of this hop still to be dispatched
  cancel,             \* cancel_requested
  lastError,          \* last_error, "none" when empty
  outcome,            \* how the last call ended
  turnStart           \* history length when the call began (history variable)

counters == <<thoughtRetries, incompleteRetries, zeroWorkRetries>>
vars == <<history, kv, raw, at, mode, hop, counters, pending, cancel,
          lastError, outcome, turnStart>>

Message == [role : Role, body : Seq(Token), calls : Nat]
Msg(role, body) == [role |-> role, body |-> body, calls |-> 0]
SystemMessage == Msg("system", <<"instructions">>)
UserMessage   == Msg("user", <<"ask">>)
Nudge         == Msg("user", <<"nudge">>)
ToolMessage   == Msg("tool", <<"result">>)

ASSUME HistoryAssumption == ClientHistories \subseteq Seq(Message)
-----------------------------------------------------------------------------
(* What the chat parser finds in the tokens of a turn.                     *)
Has(body, t)    == \E i \in DOMAIN body : body[i] = t
NumCalls(body)  == Cardinality({i \in DOMAIN body : body[i] = "call"})
Blank(body)     == ~Has(body, "announce") /\ ~Has(body, "text")
ThoughtOnly(body) == Has(body, "think") /\ Blank(body) /\ ~Has(body, "call")

(* An empty reply, or a short one that promises an action.                 *)
LooksLikeAnnounce(body) == ~Has(body, "text") /\ ~Has(body, "call")

WithoutThinking(body) ==
  FlattenSeq([i \in DOMAIN body |-> IF body[i] = "think" THEN <<>> ELSE <<body[i]>>])

(* What a parsed turn can become in the prompt: the parser trims it and    *)
(* takes the calls apart, and the template writes it again, as it was,     *)
(* with its calls spelt anew ("recall"), behind a separator or an empty    *)
(* reasoning block of its own ("blank"), or without the reasoning.         *)
Respelt(body) == [i \in DOMAIN body |-> IF body[i] = "call" THEN "recall" ELSE body[i]]
Rerendered(body) ==
  {body, Respelt(body), <<"blank">> \o Respelt(body), WithoutThinking(Respelt(body))}

(* The assistant messages a turn can become: as parsed, or, when it is     *)
(* thought-only and out of retries, with the reasoning copied into the     *)
(* content (which may itself read like an announcement).                   *)
Promoted(body, sort) == Append(body, sort)
Parsed(body) == {[role |-> "assistant", body |-> r, calls |-> NumCalls(body)] :
                   r \in Rerendered(body)}
Turns(body) == IF ThoughtOnly(body)
               THEN Parsed(Promoted(body, "announce")) \cup Parsed(Promoted(body, "text"))
               ELSE Parsed(body)
-----------------------------------------------------------------------------
(* The prompt: every message behind its role header, then the header that  *)
(* asks for the next assistant turn.                                       *)
LastUser(h) == LET I == {i \in DOMAIN h : h[i].role = "user"}
               IN  IF I = {} THEN 0 ELSE CHOOSE i \in I : \A j \in I : j <= i
RenderMessage(h, i) ==
  <<h[i].role>> \o IF StripsOldThinking /\ i < LastUser(h)
                   THEN WithoutThinking(h[i].body) ELSE h[i].body
Transcript(h) == FlattenSeq([i \in DOMAIN h |-> RenderMessage(h, i)])
Render(h) == Transcript(h) \o <<"assistant">>
Bos == IF AddBos THEN <<"bos">> ELSE <<>>

(* common_tokenize: special tokens are asked for only on an empty cache.   *)
Tokenized(h) == IF kv = <<>> THEN Bos \o Render(h) ELSE Render(h)

CtxAtCeiling == StopPct > 0 /\ Len(kv) * 100 >= StopPct * NCtx
-----------------------------------------------------------------------------
BaseHistory == IF HasSystem THEN <<SystemMessage>> ELSE <<>>

Init ==
  /\ history = BaseHistory          \* load() seeds the system prompt
  /\ kv = <<>> /\ raw = <<>>
  /\ at = "idle" /\ mode = "loop" /\ hop = 0
  /\ thoughtRetries = 0 /\ incompleteRetries = 0 /\ zeroWorkRetries = 0
  /\ pending = 0 /\ cancel = FALSE
  /\ lastError = "none" /\ outcome = "none" /\ turnStart = Len(BaseHistory)

(* Entering chat_continue or generate_one with history h.                  *)
Enter(m, h) ==
  /\ history' = h /\ turnStart' = Len(h)
  /\ mode' = m /\ at' = IF m = "loop" THEN "hop" ELSE "gen"
  /\ hop' = 0 /\ pending' = 0 /\ raw' = <<>>
  /\ thoughtRetries' = 0 /\ incompleteRetries' = 0 /\ zeroWorkRetries' = 0
  /\ lastError' = "none" /\ outcome' = "none"

(* Engine::chat: push the user message and run the loop.  The cache and    *)
(* the cancel flag keep what the previous call left.                       *)
Chat ==
  /\ at = "idle" /\ "chat" \in Entries /\ Len(history) < MaxHistory
  /\ Enter("loop", Append(history, UserMessage))
  /\ UNCHANGED <<kv, cancel>>

(* A server request: the history is replaced (which clears the cache), the *)
(* cancel flag is cleared, the user message is pushed and one of the two   *)
(* generators runs.  A client that feeds back a tool result has asked      *)
(* already; only a plain reply without client tools (Engine::chat) pushes  *)
(* a user message even then.                                               *)
Replaced(h) == IF \E i \in DOMAIN h : h[i].role = "system"
               THEN h ELSE BaseHistory \o h
LastIsTool(h) == h # <<>> /\ Last(h).role = "tool"
Request(m, h, streamed) ==
  /\ at = "idle" /\ m \in Entries
  /\ Enter(m, IF LastIsTool(h) /\ (streamed \/ m = "one")
              THEN Replaced(h) ELSE Append(Replaced(h), UserMessage))
  /\ kv' = <<>> /\ cancel' = FALSE

(* request_cancel, from whatever thread saw the client go.                 *)
RequestCancel ==
  /\ Entries \cap {"loop", "one"} # {}
  /\ ~cancel /\ cancel' = TRUE
  /\ UNCHANGED <<history, kv, raw, at, mode, hop, counters, pending, lastError,
                 outcome, turnStart>>

(* Engine::clear_history, which is also what LocalBackend::reset calls.    *)
ClearHistory ==
  /\ at = "idle" /\ "clear" \in Entries
  /\ history' = <<>> /\ kv' = <<>> /\ turnStart' = 0 /\ outcome' = "none"
  /\ UNCHANGED <<raw, at, mode, hop, counters, pending, cancel, lastError>>

(* Engine::reset: the history starts again from the system prompt.         *)
Reset ==
  /\ at = "idle" /\ "reset" \in Entries
  /\ history' = BaseHistory /\ kv' = <<>>
  /\ turnStart' = Len(BaseHistory) /\ outcome' = "none"
  /\ UNCHANGED <<raw, at, mode, hop, counters, pending, cancel, lastError>>

ClearKv ==
  /\ at = "idle" /\ "clear_kv" \in Entries
  /\ kv' = <<>>
  /\ UNCHANGED <<history, raw, at, mode, hop, counters, pending, cancel,
                 lastError, outcome, turnStart>>

(* Engine::pop_last(n): the last n messages go, or all there are.  The     *)
(* cache is left alone.                                                    *)
PopLast(n) ==
  /\ at = "idle" /\ "pop_last" \in Entries /\ history # <<>>
  /\ history' = SubSeq(history, 1, IF n < Len(history) THEN Len(history) - n ELSE 0)
  /\ turnStart' = Len(history') /\ outcome' = "none"
  /\ UNCHANGED <<kv, raw, at, mode, hop, counters, pending, cancel, lastError>>

Finish(how) == at' = "idle" /\ outcome' = how
Push(m) == history' = Append(history, m)
KeepCache  == UNCHANGED kv                 \* mutant: the old prefix stays
ClearCache == kv' = <<>>
-----------------------------------------------------------------------------
(* The head of the loop: out of hops, cancelled, or one more turn.         *)
OneHopMore == hop > MaxToolHops            \* mutant: off by one
OutOfHops  == hop >= MaxToolHops
LoopHead ==
  /\ at = "hop"
  /\ \/ /\ OutOfHops
        /\ Finish("exhausted") /\ UNCHANGED lastError
     \/ /\ ~OutOfHops /\ cancel
        /\ lastError' = "cancelled" /\ Finish("failed")
     \/ /\ ~OutOfHops /\ ~cancel
        /\ at' = "gen" /\ UNCHANGED <<lastError, outcome>>
  /\ UNCHANGED <<history, kv, raw, mode, hop, counters, pending, cancel, turnStart>>

(* Engine::generate up to the first sample: what the cache already holds   *)
(* is skipped by LENGTH, the rest of the prompt is decoded in batches.     *)
TailOverflows(all, tail) == Len(tail) > NCtx   \* mutant: the kept prefix is forgotten
Overflows(all, tail) == tail # <<>> /\ Len(all) > NCtx
FeedPrompt ==
  /\ at = "gen"
  /\ raw' = <<>>
  /\ LET all  == Tokenized(history)
         kept == IF Len(all) < Len(kv) THEN <<>> ELSE kv
         tail == SubSeq(all, Len(kept) + 1, Len(all))
     IN  \/ /\ Overflows(all, tail)
            /\ kv' = kept /\ lastError' = "overflow" /\ at' = "turn"
         \/ /\ ~Overflows(all, tail)
            /\ kv' = kept \o tail /\ lastError' = "none" /\ at' = "decode"
         \/ /\ BackendMayFail /\ tail # <<>> /\ ~Overflows(all, tail)
            /\ \E b \in 0 .. (Len(tail) - 1) \div NBatch :
                 kv' = kept \o SubSeq(tail, 1, b * NBatch)
            /\ lastError' = "backend" /\ at' = "turn"
  /\ UNCHANGED <<history, mode, hop, counters, pending, cancel, outcome, turnStart>>

(* One round of generate_until_done: the flag is polled before each        *)
(* sample; the sampled token is shown before it is decoded.                *)
BudgetSpent(n) == MaxNewTokens > 0 /\ n >= MaxNewTokens
Emit(t) ==
  /\ at = "decode" /\ ~cancel
  /\ raw' = Append(raw, t)
  /\ \/ /\ BudgetSpent(Len(raw) + 1) \/ Len(kv) + 1 >= NCtx
        /\ at' = "turn" /\ UNCHANGED <<kv, lastError>>
     \/ /\ ~BudgetSpent(Len(raw) + 1) /\ Len(kv) + 1 < NCtx
        /\ kv' = Append(kv, t) /\ UNCHANGED <<at, lastError>>
     \/ /\ ~BudgetSpent(Len(raw) + 1) /\ Len(kv) + 1 < NCtx /\ BackendMayFail
        /\ lastError' = "backend" /\ at' = "turn" /\ UNCHANGED kv
  /\ UNCHANGED <<history, mode, hop, counters, pending, cancel, outcome, turnStart>>
EndOfTurn ==
  /\ at = "decode"
  /\ at' = "turn"
  /\ lastError' = IF cancel THEN "cancelled" ELSE lastError
  /\ UNCHANGED <<history, kv, raw, mode, hop, counters, pending, cancel, outcome,
                 turnStart>>
-----------------------------------------------------------------------------
(* chat_continue, after the turn.                                          *)
Failed == lastError # "none" /\ raw = <<>>
ThoughtRetryAnyHop == ThoughtOnly(raw) /\ thoughtRetries < MaxIncompleteRetries  \* mutant
ThoughtRetryDue == /\ ThoughtOnly(raw)
                   /\ thoughtRetries < MaxIncompleteRetries
                   /\ hop + 1 < MaxToolHops
AnnounceRetryOnceMore(m) == /\ RetryOnIncomplete /\ HasTools      \* mutant: off by one
                            /\ incompleteRetries <= MaxIncompleteRetries
                            /\ hop + 1 < MaxToolHops
                            /\ LooksLikeAnnounce(m.body)
AnnounceRetryDue(m) == /\ RetryOnIncomplete /\ HasTools
                       /\ incompleteRetries < MaxIncompleteRetries
                       /\ hop + 1 < MaxToolHops
                       /\ LooksLikeAnnounce(m.body)
InLoopTurn == at = "turn" /\ mode = "loop"
TurnAccepted(m) == /\ InLoopTurn /\ ~Failed /\ ~ThoughtRetryDue
                   /\ m \in Turns(raw)
                   /\ thoughtRetries' = 0

(* generate failed before a token came out.                                *)
LoopFails ==
  /\ InLoopTurn /\ Failed
  /\ Finish("failed")
  /\ UNCHANGED <<history, kv, raw, mode, hop, counters, pending, cancel, lastError,
                 turnStart>>

(* Reasoning and nothing else: drop the turn, clear the cache, next hop.   *)
ThoughtRetry ==
  /\ InLoopTurn /\ ~Failed /\ ThoughtRetryDue
  /\ thoughtRetries' = thoughtRetries + 1
  /\ ClearCache
  /\ hop' = hop + 1 /\ at' = "hop"
  /\ UNCHANGED <<history, raw, mode, incompleteRetries, zeroWorkRetries, pending,
                 cancel, lastError, outcome, turnStart>>

(* The context is full: return what there is, tool calls undispatched.     *)
StopAtCeiling(m) ==
  /\ TurnAccepted(m) /\ CtxAtCeiling
  /\ Push(m)
  /\ lastError' = "ctx_full" /\ Finish("ctx_full")
  /\ UNCHANGED <<kv, raw, mode, hop, incompleteRetries, zeroWorkRetries, pending,
                 cancel, turnStart>>

(* An announcement without the act: the turn is popped again, the nudge    *)
(* takes its place, the cache is cleared, next hop.  (Mutant: the turn is  *)
(* not popped.)                                                            *)
AnnounceRetryKeepingTurn(m) ==
  /\ TurnAccepted(m) /\ ~CtxAtCeiling /\ m.calls = 0 /\ AnnounceRetryDue(m)
  /\ history' = history \o <<m, Nudge>>
  /\ incompleteRetries' = incompleteRetries + 1
  /\ ClearCache /\ hop' = hop + 1 /\ at' = "hop"
  /\ UNCHANGED <<raw, mode, zeroWorkRetries, pending, cancel, lastError, outcome,
                 turnStart>>
AnnounceRetry(m) ==
  /\ TurnAccepted(m) /\ ~CtxAtCeiling /\ m.calls = 0 /\ AnnounceRetryDue(m)
  /\ Push(Nudge)
  /\ incompleteRetries' = incompleteRetries + 1
  /\ ClearCache
  /\ hop' = hop + 1 /\ at' = "hop"
  /\ UNCHANGED <<raw, mode, zeroWorkRetries, pending, cancel, lastError, outcome,
                 turnStart>>

Answer(m) ==
  /\ TurnAccepted(m) /\ ~CtxAtCeiling /\ m.calls = 0 /\ ~AnnounceRetryDue(m)
  /\ Push(m)
  /\ Finish("answer")
  /\ UNCHANGED <<kv, raw, mode, hop, incompleteRetries, zeroWorkRetries, pending,
                 cancel, lastError, turnStart>>

(* The calls this hop will dispatch: the first one, or in parallel mode    *)
(* at most MaxParallelCalls.  The message in history keeps them all.       *)
DispatchedOneMore(n) == IF ~ParallelToolCalls THEN 2 ELSE n + 1    \* mutant: off by one
DispatchedUncapped(n) == IF ~ParallelToolCalls THEN 1 ELSE n       \* mutant: no cap
Dispatched(n) == IF ~ParallelToolCalls THEN 1
                 ELSE IF n > MaxParallelCalls THEN MaxParallelCalls ELSE n
StartTools(m) ==
  /\ TurnAccepted(m) /\ ~CtxAtCeiling /\ m.calls > 0
  /\ Push(m)
  /\ incompleteRetries' = 0
  /\ pending' = Dispatched(m.calls) /\ at' = "tool"
  /\ UNCHANGED <<kv, raw, mode, hop, zeroWorkRetries, cancel, lastError, outcome,
                 turnStart>>

(* One handler runs; an unknown tool or a handler that throws still leaves *)
(* a tool message.                                                         *)
DispatchTool ==
  /\ at = "tool"
  /\ Push(ToolMessage)
  /\ pending' = pending - 1
  /\ IF pending > 1 THEN UNCHANGED <<at, hop>> ELSE at' = "hop" /\ hop' = hop + 1
  /\ UNCHANGED <<kv, raw, mode, counters, cancel, lastError, outcome, turnStart>>
-----------------------------------------------------------------------------
(* generate_one, after the turn.                                           *)
InOneTurn == at = "turn" /\ mode = "one"
ZeroWorkRetryDue == /\ raw = <<>> /\ lastError = "none"
                    /\ zeroWorkRetries < MaxIncompleteRetries

(* An empty turn without an error: once more, after a nudge the first time.*)
ZeroWorkRetry ==
  /\ InOneTurn /\ ZeroWorkRetryDue
  /\ zeroWorkRetries' = zeroWorkRetries + 1
  /\ IF zeroWorkRetries = 0 THEN Push(Nudge) ELSE UNCHANGED history
  /\ at' = "gen"
  /\ UNCHANGED <<kv, raw, mode, hop, thoughtRetries, incompleteRetries, pending,
                 cancel, lastError, outcome, turnStart>>

OneFails ==
  /\ InOneTurn /\ raw = <<>> /\ ~ZeroWorkRetryDue
  /\ Finish("failed")
  /\ UNCHANGED <<history, kv, raw, mode, hop, counters, pending, cancel, lastError,
                 turnStart>>

(* The turn is kept and its kind reported to the caller.                   *)
OneAnswers ==
  /\ InOneTurn /\ raw # <<>>
  /\ \E m \in Parsed(raw) :
       Push(m) /\ Finish(IF m.calls = 0 THEN "answer" ELSE "tool_calls")
  /\ UNCHANGED <<kv, raw, mode, hop, counters, pending, cancel, lastError, turnStart>>
-----------------------------------------------------------------------------
AfterTurn(m) == StopAtCeiling(m) \/ AnnounceRetry(m) \/ Answer(m) \/ StartTools(m)

(* The steps of the thread that is inside a call.                          *)
EngineStep ==
  \/ LoopHead \/ FeedPrompt \/ EndOfTurn
  \/ \E t \in Generated : Emit(t)
  \/ LoopFails \/ ThoughtRetry
  \/ \E m \in Turns(raw) : AfterTurn(m)
  \/ DispatchTool
  \/ ZeroWorkRetry \/ OneFails \/ OneAnswers

(* The steps of the program around the engine.                             *)
CallerStep ==
  \/ Chat
  \/ \E m \in {"loop", "one"}, h \in ClientHistories, streamed \in BOOLEAN :
       Request(m, h, streamed)
  \/ RequestCancel \/ ClearHistory \/ Reset \/ ClearKv
  \/ \E n \in 1..2 : PopLast(n)

Next == EngineStep \/ CallerStep
Spec == Init /\ [][Next]_vars

(* A thread inside a call keeps running; nobody is obliged to call.        *)
FairSpec == Spec /\ WF_vars(EngineStep)
-----------------------------------------------------------------------------
(* The control state, whatever the messages and the cache hold.            *)
ControlTypeOK ==
  /\ at \in {"idle", "hop", "gen", "decode", "turn", "tool"}
  /\ mode \in {"loop", "one"}
  /\ hop \in Nat /\ pending \in Nat /\ turnStart \in Nat
  /\ thoughtRetries \in Nat /\ incompleteRetries \in Nat /\ zeroWorkRetries \in Nat
  /\ cancel \in BOOLEAN
  /\ lastError \in {"none", "cancelled", "overflow", "backend", "ctx_full"}
  /\ outcome \in {"none", "answer", "tool_calls", "ctx_full", "exhausted", "failed"}

MessagesTypeOK == history \in Seq(Message) /\ raw \in Seq(Generated)

(* Type invariant: every variable holds a value of the type the C++ member *)
(* it stands for can hold, and the cache never outgrows the context.       *)
TypeOK ==
  /\ ControlTypeOK /\ MessagesTypeOK
  /\ kv \in Seq(Token) /\ Len(kv) <= NCtx

(* No turn escapes its budgets: a call never starts a turn beyond          *)
(* max_tool_hops, no retry counter passes max_incomplete_retries, every    *)
(* retry of chat_continue has paid a hop, and tool calls are only owed     *)
(* inside a hop.  (The counters live in one loop but are reset at          *)
(* different places.)                                                      *)
WithinBudgets ==
  /\ hop <= MaxToolHops
  /\ at \notin {"idle", "hop"} /\ mode = "loop" => hop < MaxToolHops
  /\ incompleteRetries + thoughtRetries <= hop
  /\ incompleteRetries <= MaxIncompleteRetries
  /\ thoughtRetries <= MaxIncompleteRetries
  /\ zeroWorkRetries <= MaxIncompleteRetries
  /\ at = "tool" <=> pending > 0

(* Every tool message written during a call answers a call the model made: *)
(* walking back over the other tool messages one reaches an assistant      *)
(* message of the same call with at least as many tool calls.              *)
AnswersACall(i) ==
  \E j \in turnStart + 1 .. i - 1 :
    /\ history[j].role = "assistant" /\ history[j].calls >= i - j
    /\ \A k \in j + 1 .. i - 1 : history[k].role = "tool"
ToolMessagesAnswerCalls ==
  \A i \in turnStart + 1 .. Len(history) :
    history[i].role = "tool" => AnswersACall(i)

(* What the model was asked: the transcript up to the last nudge of this   *)
(* call, or up to where the call began.                                    *)
AskedAt == IF LastUser(history) > turnStart THEN LastUser(history) ELSE turnStart
Asked   == SubSeq(history, 1, AskedAt)

(* The cache under a turn that is being generated begins with exactly what *)
(* the model was asked, whatever hops, retries and failures lie between    *)
(* and however the turns in between were parsed and written again; and     *)
(* when there are none in between it is the prompt and the turn, so no     *)
(* token of a discarded turn is left in it.  (Only lengths are compared    *)
(* before the prefix is skipped.)  The retries of generate_one are the     *)
(* exception: they nudge behind a generation header that is already in     *)
(* the cache, and do not clear it.                                         *)
KvMirrorsPrompt ==
  at = "decode" /\ (mode = "one" => zeroWorkRetries = 0) =>
    /\ \E b \in {Bos, <<>>} : IsPrefix(b \o Render(Asked), kv)
    /\ AskedAt = Len(history) => kv = Bos \o Render(history) \o raw

(* The nudges in the transcript are the ones that were paid for: since the *)
(* last tool result (or the start of the call) exactly incompleteRetries   *)
(* in the loop, and in generate_one a single one however many retries.     *)
(* None follows the announcement it was meant to replace.                  *)
NudgesAreCounted ==
  LET nudges    == {i \in turnStart + 1 .. Len(history) : history[i] = Nudge}
      lastTool  == {i \in turnStart + 1 .. Len(history) : history[i].role = "tool"}
      sinceTool == {i \in nudges : \A j \in lastTool : j < i}
  IN  /\ at \notin {"idle", "tool"} =>
           Cardinality(sinceTool) = IF mode = "loop" THEN incompleteRetries
                                    ELSE IF zeroWorkRetries > 0 THEN 1 ELSE 0
      /\ \A i \in nudges : i > turnStart + 1 =>
           ~(history[i - 1].role = "assistant" /\ history[i - 1].calls = 0)

(* The way a call ended tells where the transcript stands: an answer is    *)
(* its last message, a call that ran out of hops ends on a tool result     *)
(* (a retry never uses up the last hop), a full context keeps the turn.    *)
OutcomeMatchesTranscript ==
  at = "idle" /\ outcome # "none" =>
    LET last == Last(history) IN
    CASE outcome = "answer"     -> last.role = "assistant" /\ last.calls = 0
      [] outcome = "tool_calls" -> last.role = "assistant" /\ last.calls > 0
      [] outcome = "exhausted"  -> last.role = "tool"
      [] outcome = "ctx_full"   -> last.role = "assistant"
      [] outcome = "failed"     -> last.role # "assistant"
-----------------------------------------------------------------------------
(* A call implements AgentTurn: its rounds are the hops of the loop, or    *)
(* the zero-work retries of generate_one, and it owes the tool calls the   *)
(* hop has still to dispatch.                                              *)
Turn == INSTANCE AgentTurn WITH
          MaxRounds <- IF MaxToolHops > MaxIncompleteRetries
                       THEN MaxToolHops ELSE MaxIncompleteRetries,
          MaxCalls  <- IF ParallelToolCalls THEN MaxParallelCalls ELSE 1,
          busy      <- at # "idle",
          rounds    <- IF mode = "loop" THEN hop ELSE zeroWorkRetries,
          owed      <- pending

(* Every step of a call is a step of AgentTurn or invisible to the caller. *)
StepsLikeAgentTurn == Turn!Safety

(* The steps and the return of AgentTurn, implemented.                     *)
ImplementsAgentTurn == Turn!Spec
=============================================================================
