# A TLA+ model of easyai

easyai is a C++ library and a set of programs around llama.cpp: an engine that
runs a language model with tools, an OpenAI-compatible HTTP server, a client
library for that server, terminal and voice front ends, a models dashboard, an
MCP server and a knowledge store.  This directory holds TLA+ modules of its
control, TLC configurations that check them on small instances, and proofs.
Line numbers refer to the sources beside this directory, `src/` being the root
of the repository.

## 1. Inventory

| Component | State it keeps | Operations | Interacts with | What is hard | What makes it correct |
|---|---|---|---|---|---|
| **Engine** (`src/engine.cpp`) | history, KV cache, retry counters, `last_error`, cancel flag | `chat`, `chat_continue`, `generate_one`, `generate`, `push_message`, `replace_history`, `clear_history`, `reset`, `clear_kv`, `pop_last`, `load`, `reload` | llama.cpp; tools called back in the loop; the server sets the cancel flag from another thread | three retry budgets in one loop, cache skipped by length, cancel at any moment, failures in the middle of a turn | budgets hold, every tool message answers a call, the cache is a prefix of the prompt, every call returns |
| **Server, chat requests** (`services/server.cpp`) | one engine behind `engine_mu`, per-request state | `parse_chat_request`, `prepare_engine_for_request`, `handle_chat_sync`, `handle_chat_stream` | engine, HTTP threads | a client that disconnects, a client that brings its own tools or feeds a tool result back | the conversation is the client's, one request at a time touches the engine |
| **Server, hot swap** (`services/server.cpp`, `/models/api/run`) | loaded model, `model_id`, load error | `require_model`, run, unload, reload | engine lock, chat routes | a request checked against one model and served by another | nobody generates on an engine that is not loaded |
| **Client** (`src/client.cpp`) | history sent to the server, `last_error`, counters, SSE parser state, cancel flag | `chat`, `chat_continue`, `run_chat_loop`, `stream_chat`, HTTP retries | server over HTTP/SSE, local tools | retries of a request, a stream that breaks, incomplete turns, cancel | the history stays a legal conversation whatever fails |
| **Backends, sessions, agent** (`src/backend.cpp`, `src/session.cpp`, `src/agent.cpp`) | a backend, a system prompt | `init`, `chat`, `reset`, `set_system` | engine or client | same interface over two implementations | reset keeps the system prompt |
| **Models dashboard** (`src/models_dashboard.cpp`) | catalogue and its file, one download and its status, cancel flag, refresh flag, search cache | `start_refresh`, `load_catalog_cache`, `start_download`, `start_download_file`, `cancel_download`, `delete_local`, `live_search` | a thread per refresh and per download, disk, network | several shards, cancel, crash, two starters, a thread object assigned after its thread has ended | one of each at a time, a flag that comes down, a file that never goes back, done means arrived |
| **Model manager** (`src/model_manager.cpp`) | menus | list, download, delete | dashboard functions | little | - |
| **TUI** (`src/tui.cpp`) | busy and live flags, queue of prompts, question dialog, the client's cancel flag | submit, compress, interrupt, answer, dismiss, quit | a worker thread that runs the client, tools that ask the user | a tool waiting for the user while the user quits, a prompt typed while the worker ends, a sticky cancel | no prompt is lost or sent twice, an interrupt stops what it was meant for, quitting ends |
| **Voice assistant** (`services/assistant.cpp`, `src/assistant_core.cpp`) | sentence queue, speaking flag | speak, stop, wait | TTS, recogniser | a queue behind one mutex | what was queued is spoken or dropped on purpose |
| **MCP** (`services/mcp_server.cpp`, `src/mcp.cpp`, `src/mcp_client.cpp`) | in-flight counter, tool list | initialize, list, call | HTTP or stdio peers, tools | concurrent calls at the limit, tools that throw | never more tools running than allowed, no slot lost |
| **Knowledge store** (`src/rag_tools.cpp`) | files, index behind a shared mutex, vocabulary cache | learn, learn more, forget, recall, search, list, render the vocabulary | tools of several requests at once, disk | crash between write, rename and index, a write that fails, a cache outside the lock | what was learned is found again, whole; a pinned entry stays; the cache is current |
| **External and built-in tools** (`src/external_tools.cpp`, `src/builtin_tools.cpp`, `src/tool.cpp`) | none that lasts | run one call | operating system, web | process limits | - |
| **Plan tool** (`src/plan.cpp`) | an ordered list of steps | add, update, delete | engine as a tool, UI | statuses | one step at a time is working |
| **Preamble, presets, config, log, UI text** | configuration | compose text | all | - | - |
| **Speech** (`src/stt.cpp`, `src/tts.cpp`, `src/kokoro.cpp`, `src/audio_io.cpp`) | library handles | transcribe, synthesise, play | devices | numeric | - |

PROJECT.json lists every component with its status, and under `hazards` what in
this code is hard to test, each at its line.

## 2. Plan

| # | Module | Models | State |
|---|---|---|---|
| 1 | `AgentTurn` | what any call into an agentic loop promises | written |
| 2 | `ChatEngine`, `ChatEngineProofs`, `MCChatEngine` | the engine and the request preparation of the server; implements `AgentTurn` | checked, eight theorems |
| 3 | `ChatClient`, `ChatClientProofs`, `MCChatClient` | the client's loop, HTTP attempts and SSE stream; implements `AgentTurn` too | checked, eight theorems |
| 4 | `ServerGate`, `ServerGateProofs`, `MCServerGate` | engine lock, `require_model`, hot swap, settings, callbacks, cancel flag | checked, seven theorems |
| 5 | `PlainDecode`, `SpeculativeDecode`, `SpeculativeDecodeProofs`, `MCSpeculativeDecode` | what decoding shows, and draft, verify, trim, which implements it | checked, two theorems |
| 6 | `TuiSession`, `TuiSessionProofs`, `MCTuiSession` | keyboard thread, worker, queue, dialog, cancel, shutdown | checked, three theorems |
| 7 | `CatalogRefresh`, `CatalogRefreshProofs`, `MCCatalogRefresh` | the refresh of the catalog, its flag, thread and file | checked, two theorems |
| 8 | `ModelDownloads`, `ModelDownloadsProofs`, `MCModelDownloads` | the download manager | checked, three theorems |
| 9 | `KnowledgeStore`, `MCKnowledgeStore`, `McpServerProofs` | entries, index, vocabulary cache, crash and restart | checked, four theorems |
| 10 | `InFlightLimiter`, `MCInFlightLimiter`, `McpServerProofs` | the slots of the MCP server | checked, one theorem |

Each module stands alone but for the refinements (`ChatEngine` and `ChatClient`
to `AgentTurn`, `SpeculativeDecode` to `PlainDecode`); each `...Proofs` module
extends the module it proves about (`McpServerProofs` two of them), each `MC...` module instantiates it.

Planned next: an abstract server that answers each request in one step, for
`ServerGate` to implement, with the proof of its steps.

## 3. How the modules correspond to the code

PROJECT.json maps every definition to its lines.  Definitions commented
"mutant" are deliberate bugs that stand beside the definition they replace;
nothing uses them in the specification.

### AgentTurn

The abstract call: it works in rounds, at most `MaxRounds`, owes at most
`MaxCalls` results in a round, begins no round before the results of the last
one are given, and returns.  Both agentic loops of the repository, the engine's
and the client's, are shown to be instances of it.

### ChatEngine: `src/engine.cpp` and the preparation of a server request

One thread is inside a call at a time, so a state is a point of that call:

| `at` | Point of the code |
|---|---|
| `idle` | no call |
| `hop` | head of the `for` of `chat_continue` (2292) |
| `gen` | `generate` before the prompt is decoded |
| `decode` | in `generate_until_done` |
| `turn` | the raw text is back in `chat_continue` or `generate_one` |
| `tool` | the dispatch loop (2612) |

`history` and `kv` are sequences of messages and tokens, so that "the cache is
the prefix of the prompt" can be stated.  A token stands for a run of text of one sort
(reasoning, announcement, other text, tool call): that is what
`common_chat_parse` and the announcement heuristics tell apart.  The prompt is
rendered as the bundled template does, with the reasoning of earlier turns
dropped when `StripsOldThinking`.  A turn does not come back into the prompt as it
was generated: the parser trims it, takes its calls apart and recovers malformed
ones (1367-1510), and the template writes it again.  `Rerendered` lets it come back
as it was, with its calls spelt anew, behind a separator or an empty reasoning block,
or without its reasoning: equal, other at the same length, longer, shorter.  `hop`, the three retry counters, `last_error`
and the cancel flag are the code's own.  `outcome` and `turnStart` are history
variables: how the call ended, and where it began.

The actions are `Chat`, `Request` (a server request: `replace_history`,
`clear_cancel` and one of `chat`, `chat_continue` and `generate_one`), `LoopHead`,
`FeedPrompt`, `Emit`, `EndOfTurn`; after a turn of the loop `LoopFails`,
`ThoughtRetry`, `StopAtCeiling`, `AnnounceRetry`, `Answer`, `StartTools` and
`DispatchTool`; after a turn of `generate_one` `ZeroWorkRetry`, `OneFails` and
`OneAnswers`; and `RequestCancel`, `ClearHistory`, `Reset`, `ClearKv`, `PopLast`.
The model, the grammar and the sampler are nondeterminism: any token may come
next and the turn may end anywhere.

### ChatClient: `src/client.cpp`

The loop (`run_chat_loop_inner`), the attempts of one post (`stream_chat`) and
the events of one stream (`on_chunk`) are three nested levels of one call:
`hop`, `attempt`, `stream`, `judge` and `tool` are the values of `at`.  The
server is the environment.  `Post` lets it refuse, answer an error status or
open a stream, `Receive` lets it send any event that `easyai-server` may send
next, and `BreakOff` cuts the connection anywhere.  What an attempt leaves in the
SSE buffer is `residue`; `skipNext` is the flag that drops the repetition of the
evaluation summary.  A turn is counted, not stored: how many reasoning, content
and call deltas it holds.  `sent`, the counts of what the server really sent, is a
history variable, as is `before`, the conversation the call found.  `OwnStep` is what the
client does by itself; `DispatchTool` waits for a tool, the steps of a stream for the server.

### ServerGate: `services/server.cpp` around its engine

Each request has a thread and a place: `new`, `checked` (past `require_model`,
not yet at the lock), `generating` or `swapping` (holding `engine_mu`), `done`.
`engine` records whose settings the engine holds: the request's, a preset's or
the server's.  `wired` records whose callbacks it calls.  A call into the engine is
a sequence of callbacks (`EvaluatePrompt`, `EmitPiece`) between `Serve` and
`Finish` or `Throw`; what happens inside is `ChatEngine`.  `Called` is where a
stale callback matters: one whose frame is gone may do either thing to the cancel
flag.  `TearDown`, `Load` and `FailToLoad` are the hot swap, `SetPreset` the
preset route, `Refuse` and `Admit` the check without the lock, `Disconnect` the
client that leaves, and `Malformed` a request whose tools make the preparation throw: a plain
request is answered 500, and the client of a stream, whose preparation runs inside the content provider
(2245) where nothing catches it, hears nothing (`reply` is "lost").

### SpeculativeDecode and PlainDecode: `src/engine.cpp`

`text` is what the target would write, chosen beforehand: behind a cache that holds
the prompt and a prefix of `text` the sampler returns the next token, behind any
other it returns `junk`, which no property would accept.  So a cache left one token
too long or too short shows.  Generations follow each other (`Begin`, `BeginFails`): the target's cache
is kept or was cleared, prompts are of several lengths, and the draft context, which nothing
ever clears, still holds what the generation before left.  What the draft model guesses is arbitrary.  `head` is the
top of the loop (1144), `draft` the trimming and guessing, `decode` the batch,
`verify` the acceptance and the trimming behind it, `emit` the tokens shown after it.
`PlainDecode` is the plain path (1311) seen from outside: tokens of `text` in order,
and the reasons to end.  It allows `full` from the first token that leaves no room.

### TuiSession: `src/tui.cpp`

The keyboard thread goes round `LoopHead`, the keys of one `read()`, and `EndOfBatch`,
which pops a queued prompt when idle; `ui` is where it is.
What it decides on a look at `busy` and what it then does are two steps, because the
code releases the lock between them.  The worker goes through the hops of one
client call; `tools` and `asking` are a tool that runs and one that waits in
`ask_questions_impl`.  The keys of a dialog are `DialogKey`; `Leave` is what follows the
loop: cancel, join, and only then the dismissal.  `sent` and `meant` are history
variables: which prompts reached the client, and whether the user has interrupted
the present job.

### CatalogRefresh: `src/models_dashboard.cpp` 1860-2064

A catalog is a version number; `barren` are the answers that list no model.  Each HTTP
thread passes `Check`, `Claim`, `Reap`, `Spawn` and `Assign` of `start_refresh`; its refresh
thread runs `Fetch`, `Publish`, `Open`, `Write`, `Rename` and `Clear`, from `Spawn`
on and so before `Assign`.  The file and its temporary are `part`, `short` or `whole`.
`Crash` may come anywhere, and `Restart` is the constructor.

### ModelDownloads: `src/models_dashboard.cpp` 1599-1746

A download is the number `start_download` returns.  A caller passes `Lock`, then
`Refuse` or `Choose`, `Reset` and `Spawn`; the worker `NextShard`, `Abort`, `Fail` or
`Transfer`, `Rename` and `Finish`.  `start_download_file` is the same with one file.
A file under its final name carries the download that wrote it.  `asked` and `lost` are
history variables: the downloads cancelled while they ran, the files deleted since the last
one began.  The numbers begin again after a restart in the code and go on in the model, so
that two lives can be told apart.

### KnowledgeStore: `src/rag_tools.cpp`

A key is the stem of a file, its body the set of contents learned into it.
`Learn`, `LearnMore` and `Forget` take the lock; `Open`, `Write`, `Rename`, `Index` and
`Remove` are the file operations that can fail or be cut off by a crash.  The
vocabulary is rendered by `ProbeTime`, `ProbeCount`, `Look`, `Scan` and `Store`, none of
which takes the store's lock (the scan builds a store of its own, so the lock it takes
excludes nobody).  `now` is the clock of the file system, which `Tick` advances; a change of a
name stamps the directory's `mtime` with it, so several changes may carry one time.  Either
probe may fail (1473), a count may come short, and `Scan` may miss a file it cannot read
(612).  `acked` (contents acknowledged and not replaced since), `skipped` (keys an I/O
error kept out of the index), `sure` and `trusted` (the renders, and the cache, that nothing but
two changes under one signature could mislead) are history variables.

### InFlightLimiter: `services/mcp_server.cpp`

Each thread of the HTTP pool (a `Worker`, whose `stage` says how far it is) arrives with a `tools/call` or another method, takes the
counter up, compares, and takes it down again at once or in the guard's destructor.

## 4. What the runs check

| Run | Question | Distinct states | Result |
|---|---|---|---|
| `calls` | both generators of a server request, parallel tools, more calls than the cap, failures, cancel, a ceiling of 95 percent, BOS, turns that come back changed | 634,366 | budgets, tool messages, the cache as prefix, nudges, outcome, and `AgentTurn` implemented with its return: hold |
| `local` | chat, reset, pop, clear in any order, with BOS and a template that strips reasoning | 650,990 | types, the cache never outgrows the context, calls step like `AgentTurn` |
| `client_call` | the client over any server: budgets, rollback, the turn judged, nudges, the return of calls whose streams end and whose tools return | 411,242 | all hold |
| `gate` | three requests, two models, two presets, swaps that fail, malformed tools with and without a stream | 1,311,996 | lock, settings, own callbacks, own cancel, names and liveness hold |
| `draft` | every text, every guess, a budget or none, cancel and failure anywhere, generation after generation | 352,512 | the caches agree, and `PlainDecode` is implemented |
| `tui` | three prompts, a compaction, tool hops that ask, keys in any order | 143,892 | flags, dialog, interrupts, prompts and the queue hold |
| `refresh` | two starters, forced or not, three refreshes that fail, come empty or are not saved, a crash | 866,532 | one at a time, the flag owned, the file finished and never older, refreshes end |
| `downloads` | two callers, two shards, three downloads, a deletion, a crash, cancels anywhere | 638,198 | one at a time, true status, done means arrived, own cancel, cancel stops |
| `knowledge` | two threads, two keys, one pinned, two writes, two renders, a crash, two ticks of the clock, probes and reads that fail | 8,228,724 | whole, indexed and found; learned is kept; the cache of a sure render is current; known pinned entries stay |
| `limiter` | four threads, two slots | 38,778 | never more than two tools, no slot lost |
| `tui_quit` | the loop that ends is left | - | violated |
| `knowledge_pinned` | a pinned entry is never overwritten | - | violated |

Some properties are conjunctions that were worth one check: `ThreadsAgree`,
`RefreshIsSafe`, `DownloadsAreSafe`, `StoreIsSafe`, `CachesAgree` and `SlotsAreExact` hold
the type invariant of their module and its basic safety; the parts are named and
commented in the modules.

### The two disagreements

1. **`tui_quit`**, `tui.cpp:3566`.  When the loop ends, the keyboard thread cancels the
   client, joins the worker and then dismisses the dialog.  A worker in
   `ask_questions_impl` waits for `finished` or `dismissed` and looks at no cancel flag,
   so neither thread ever moves again.  The comment at 3568 says the dismissal is there to
   "unblock a stuck question dialog (tool waiting on cv)".  It stands behind the join.
   The user meets it by closing the terminal, or by quitting in the batch of keys in
   which the tool opened its dialog.
2. **`knowledge_pinned`**, `rag_tools.cpp:896`.  Whether a pinned key may be written is
   asked of the index.  A start leaves out of the index every file it cannot read
   (612) and every file whose title is longer than 64 bytes (610), which keys made
   of several keywords easily are; the next `learning_knowledge` replaces such a file.
   The comment at 116 says files that start with `fix-` "cannot be overwritten or
   deleted by the model".

### Differences met while modelling that no run is about

The modules do what the code does in these, and where a property exempts one, or a model
leaves it out, the entry says so.

Engine, server and client:

- The zero-work retry of `generate_one` (`engine.cpp:2850`) pushes a nudge when the
  cache already ends in the header of the assistant turn and does not clear the cache,
  so the retry skips, by length, tokens that are not the new prompt's; 2155 says the skipped
  prefix matches.  (`KvMirrorsPrompt` exempts a turn asked for again in this way;
  the loop's own retries clear the cache.)
- `LocalBackend::reset` (`backend.cpp:172`) leaves no system message; `session.hpp:180`
  promises "wipe history, keep system".
- `handle_chat_sync` (`server.cpp:2176`) asks the earlier question again after a tool
  result; 2323 says nothing extra is pushed.
- The callbacks of a stream (`server.cpp:2428`) refer to its handler's frame and are never
  taken back; the next plain request is generated with them.  2612 clears the one it knows about.
- Only an incomplete turn rolls the user message of the client back (`client.cpp:1393`); a
  failed, cancelled or exhausted call leaves it, with the result the comment at 1382 describes.
- One SSE buffer serves all attempts of a post (`client.cpp:537`), so an error body runs
  into the first event of the next attempt.  With progress ticks that event is a tick and
  nothing is lost (`TurnIsOneResponse`); without them it is the evaluation summary, which
  `client.hpp:75` promises either way.
- `generate` (2163) skips as many tokens of the new prompt as the cache holds and compares
  only lengths; the comment at 2155 says it skips "the prefix that matches".  After a tool hop
  the cache holds the turn as it was generated and the prompt holds it as it was parsed and
  rendered again, which may be longer, shorter or spelt otherwise.  What is fed behind it is
  then shifted or overlaps.  BOS is asked for only on an empty cache (2160), so with such a
  vocabulary the second prompt of a call is a token shorter in any case.  `KvMirrorsPrompt` therefore says that
  the cache begins with what was asked (everything before the first turn in question, which both
  agree on), and equality only when no turn lies between.
- `chat` (2248) keeps the cache of the call before, with the header of its last turn and the
  reasoning that a template such as `templates/qwen3-think.jinja:135` drops from earlier turns,
  so from the second question of a local program on the rest of the prompt is read behind a
  context that is not its prefix.  The run `calls` with `Entries = {"chat"}` and `MaxHistory = 8` violates
  `KvMirrorsPrompt`, with BOS and without; a request to the server is safe, for `replace_history` clears the cache.
- The dispatch loop (2612) never looks at the cancel flag; `engine.hpp:429` calls
  the next token boundary "the worst-case latency".
- `pop_last` (2128) empties a history no longer than n; `engine.hpp:387` says no-op.
- `generate_one` nudges and retries for a client with its own tools (2821);
  `server.cpp:2815` says it does neither.
- The client retries on the last hop (1011), where the engine, which it says it
  mirrors (903), does not.  After a tool hop its nudge is not the last message when
  it asks again (1030).  It asks again up to the budget (1012) where
  `client.hpp:111` says once.
- A stream that breaks off after progress events only is retried (610);
  `client.hpp:85` says a broken stream never is.
- `load_history` (1475) keeps the context fill of the conversation before.
- `require_model` (`server.cpp:3207`) is read before the lock (3285): a swap that
  fails in between leaves a request that was let in with no model, and it is
  answered 200 with nothing in it.  8066 speaks of a 503.  The model calls that reply "empty", and
  `AdmittedAreAnswered` allows it only to a request beside which a swap has failed.
- A streamed request whose tools are malformed throws in `prepare_engine_for_request` inside the
  content provider (2245), behind a 200 that is already on its way; nothing in the repository
  catches it.  What the HTTP library does then is outside the sources; the connection ends without
  an event either way.  `AdmittedAreAnswered` says so: such a request ends and leaves the lock free, and is not answered.
- A swap that fails leaves the old model's name in `model_id` (9025).

Speculative decoding (`engine.cpp`):

- No `reset`, `clear_kv`, `clear_history` or rollback (2119, 2124, 2165, 2541, 2748) clears the draft
  context, and `generate` (2182) feeds it the tail of the new prompt behind whatever the last
  generation left; the comment at 2189 says that keeps it "in lockstep with the target".  From the
  second generation on the two contexts may differ under the prompt, and the draft's may refuse the
  batch ("common_speculative_process failed feeding prompt").  What is shown does not depend on it
  (`ShowsWhatPlainDecodingShows`); what is lost is the quality of the guesses, or the request.
- When `common_speculative_process` fails (1234), the guesses of the batch stay in the
  target's cache, unverified.
- At the end of the context (1164 looks before a batch, not behind it) it may show one
  token more than there was room for.
- An end-of-generation token among the accepted (1290) leaves the cache longer than what
  was shown; the next `generate` skips by length (2163).

TUI (`tui.cpp`):

- `/compress` (2948) does not drop the sticky cancel flag, so a compaction may fall to an older
  Esc; `InterruptIsOwn` says so.
- `handle_key` (3111) reads `q.active` without the lock.
- A prompt typed while the worker is saving its session overtakes those in the queue.
- A third ctrl+c in the same batch of keys takes the quit back.  Queued prompts are
  dropped at quit.
- `/new` and `/clear` do not look at `busy` and change the history under the worker.
  This is a data race; it is left out of the model.

Models dashboard (`models_dashboard.cpp`):

- The refresh thread may clear `refreshing_` (2039) before its starter has assigned
  `refresh_thread_` (2014); a second starter then reaps nothing and assigns too, and the
  later of the two assigns over a joinable thread, which ends the process.  2012 and 2013
  speak of "one at a time" and "reap the previous".  `Assign` models it as the end of a life.
- The result of the write (1975) is not looked at: a disk that is full has the file replaced
  by a short one.  A page nobody can parse (1839) counts as an empty listing, and an
  empty answer replaces snapshot and file.  The error of a partial fetch (1866) is lost (2030).
- A refresh that fails moves `last_refresh` too (2032), so the next try is one TTL away.
- A transfer has no timeout (1294 sets none): only a cancel ends one that stalls.  `fclose`
  is not checked (1726), so a file may be short and the download "done".
- A set that was cancelled or failed leaves its earlier shards, and a retry is refused until
  they are deleted (1664).  A crash, or `curl_easy_init` failing (1713), leaves a
  `.part`.
- A cancel that arrives between the check (1633) and the reset of the flag (1691) is lost.
- `start_download_file` (1599) has no check of the free space, unlike `start_download` (1670).

Knowledge store (`rag_tools.cpp`):

- `learning_more_knowledge` takes a key the index does not know for new (933), and so
  overwrites a file a start has not indexed.
- A `forget_knowledge` for which `exists` fails (730) drops the index entry and says
  that nothing was known.
- A scan that could not read a file (612) is cached (1551) like any other, under a signature
  that stays good until the directory changes; so is one whose probe failed or counted short.
- The mtime has ticks.  The comment at 1445 says the number of files catches two saves in one;
  a learn and a forget in one tick have the same time and the same number, and so has a single
  save whose temporary was counted and whose rename falls in the tick of the count.  The old vocabulary is
  then served until the next change.  `CacheIsCurrent` is about the renders that escape
  this (`Settled`, `Doubt`); without either condition TLC shows it violated.
- Temporaries left by a crash are never removed.  A clock that runs back is not modelled.

MCP server (`services/mcp_server.cpp`):

- The comment at 143 says the counter "briefly observes count==max+1".  It may stand at
  max plus the number of threads that are being refused, and such a thread's increment can
  have another call refused though fewer than max run.
- A `tools/call` without an id, a notification, takes a slot like any other and gives it back,
  but runs nothing: `mcp.cpp:404` returns before any tool.

Limits of what the properties say, where a neighbour of the case is let through:

- `StreamHearsItself` is about streams: a plain request that is generated with a dead stream's callbacks
  is in the list above, and `CancelIsOwn` exempts them.
- `AnswersNameTheirModel` is about answers that hold text; one with none comes from no model.
- `IncompleteLeavesNoTrace` is about incomplete turns, not about calls that failed, were cancelled
  or ran out of hops; `OneNudgePerCall` counts nudges and does not say where they stand.
- `LearnedIsKept` is about keys a start can index; in the run `knowledge` all titles are valid
  (`BadTitle` is empty), and `knowledge_pinned` is the run with one that is not.

## 5. Bounds, and why they are enough

- **Engine.**  Two to five tokens a turn (`MaxNewTokens`) give every kind of turn
  the parser tells apart: empty, thought-only, announcement, one call, several
  calls, mixtures.  Four hops and two retries of a kind (three and one in the local run)
  leave room for every retry a budget allows, one more that it must refuse, a tool
  hop and the last hop, where the rules differ.  The context (`NCtx` 12) is small
  enough that prompts overflow and turns hit the ceiling, large enough that a tool hop and the
  turn behind it fit.  `NBatch` 2 makes a prompt take several batches, so that a
  failure can fall between two.  `MaxHistory` bounds only the local run, where
  calls follow each other for ever; in a server run each request replaces the
  history.
- **Client.**  `HttpRetries` 1 gives one attempt that fails and one that follows;
  `MaxIncompleteRetries` 2 is the least at which "one nudge" and "one nudge per
  retry" differ; `MaxEvents` 6 is a tick, the summary twice, and three more
  events, enough for two calls and a final chunk; `ReasoningCap` 1 makes a turn
  run away.  `MaxHistory` 3 lets a second call follow a first one's exchange.
- **Gate.**  Three requests: one in the engine, one waiting, and one that came
  before and left its settings, callbacks or cancel flag behind.  Two models,
  so that the name can be wrong; a preset that leaves the sampling to the client and one
  that does not.  The symmetry of requests is not used, because the run checks liveness.
- **Speculative decoding.**  A context of five tokens with prompts of one and of three: batches
  of up to three, several of them, and the last cut short by the end of the context; a prompt that is shorter,
  longer or as long as what the draft context still holds.  Budgets 0 (none) and 3 (which a
  batch overruns).  Generations follow each other without a bound.
- **TUI.**  Three prompts: one that runs, one that waits and one being typed.  Two hops
  and two calls, so that a second dialog follows a first; two questions in a dialog; two
  keys in a batch, so that one is handled after the other has changed what it will
  find.  Unbounded typing (`OtherKey`) is not counted.
- **Catalog.**  Two starters and three refreshes, so that one may follow a refresh whose
  starter has not finished, in the same life or in the next.  `Ttl` 0 and one tick are a
  catalog that is fresh and one that is not.
- **Downloads.**  Two callers; two shards, so that a set can be broken in the middle; three
  downloads, so that a third meets what a cancel, a crash and a deletion left of two.
- **Knowledge.**  Two writes: the second adds to, replaces or follows the first, or fails
  beside it.  Two renders that overlap, the first storing what the second may trust.
  Two ticks: changes that share one, and changes that do not.  The two
  threads are symmetric, and no liveness is checked.
- **Limiter.**  Four threads at two slots: two that hold, one being refused, one more.

Deadlock is checked in `limiter`, whose threads always have something to do.  Elsewhere
it is not: a program to which nobody speaks stops, a server whose three requests are done
has nothing left to do, and a bounded model comes to the end of its bounds.  That calls, refreshes
and downloads end is stated as liveness instead.

## 6. Fairness

- **Engine**: weak fairness of the steps of the thread inside a call (`EngineStep`).  It
  runs until it returns: the engine never blocks on another thread, and that a turn is finite is not an
  assumption but the token budget and the context, both of which the code enforces at
  each token.  A tool handler is assumed to return, which is the tool's to keep.  Nobody is obliged to call.
- **Client**: weak fairness of what the client does by itself (`OwnStep`); a post ends by its
  timeouts.  Nothing obliges a server to end its stream, and nothing a tool to return:
  `ask_questions` waits for the user and looks at no cancel flag, which is what `tui_quit` is about.
  `EveryCallReturns` is therefore an implication, from `StreamsEnd` and `ToolsReturn` (the
  call is out of the stream, and out of the tools, infinitely often) to the return of every call:
  what it shows is that the hops, attempts and retries in between are charged on every path.
- **Gate**: weak fairness, per request, of taking the lock (or failing while
  holding it) and of returning from the engine.  The second is what
  `ImplementsAgentTurn` shows of the engine, for tools that return.  The first is all a mutex gives: it keeps no
  order, but a finite number of requests can overtake only finitely often.  A
  server with an endless stream of requests is not promised this.
- **TUI**: weak fairness of the keyboard thread and of the worker.  No user is obliged to
  answer, which is why `QueuedAreSent` excepts a worker that is asking; and `tui_quit` is a
  state in which neither thread can move, so it needs no unfairness.
- **Catalog**: weak fairness of each starter and each refresh thread.  A fetch ends because
  the requests of a listing carry a timeout and a listing at most 64 pages.
- **Downloads**: weak fairness of the worker and of a caller that is about to spawn it.  The end of
  a transfer is not assumed, for the code sets no timeout; that the progress callback is
  called is curl's promise, about once a second.

`SpeculativeDecode`, `KnowledgeStore` and `InFlightLimiter` are checked for safety only.

## 7. Proofs

8432 obligations in eight modules, all checked; what is assumed is the `ASSUME`
of each module: the types and non-zero bounds the code's own setters ensure, and that
threads and keys are finite in number where they are counted.  Every invariant and
every action property of the passing runs is a theorem; so is the step simulation of
both refinements, to `AgentTurn` and to `PlainDecode`.

**ChatEngineProofs.**  `MessagesTyped` types the history and the turn.
`BudgetsHold` uses `LoopInv`, which adds to `WithinBudgets` the control types and
the fact that only the loop has hops and tools (without it a turn of
`generate_one` could reach the head of the loop with any counter).
`ToolMessagesAreAnswers` needs `CallsCoverPending`: while tools run, the assistant
message behind the tool messages made at least as many calls as have been
answered and are still pending.  That is what makes the property inductive: the property
itself says nothing about what is still owed.  `EngineStepsLikeAgentTurn` is step
simulation under `LoopInv`.

`OutcomesMatchTranscripts` needs `EndInv`: no turn is begun behind an assistant message, and
the head of a hop beyond the last one is only reached from a tool result, because every retry
asks whether a hop is left.  `NudgesAreAlwaysCounted` needs `NudgeInv`: while tools run
nothing is compared, for their results arrive behind the nudges one by one, and what carries
the count over to the next hop is that the counter is already zero.  `EngineIsTyped` adds
`KvTyped`, the cache within the context: the prompt is decoded batch by batch, each only
after the tail was found to fit (`BatchesFit`), and a turn a token at a time, below the limit.

`CacheAlwaysMirrorsPrompt` says that the cache under a turn begins with what the model was asked:
the transcript up to the last nudge of the call, or to where the call began.  Nothing is
assumed of how a turn is parsed and rendered (any of `Rerendered`), nor of BOS.  `KvInv` follows the cache
through a call: it is empty (a retry clears it), or it begins with the prompt of what was asked, with or without
the BOS.  A length comparison keeps that: the new prompt is fed behind the old cache, or, when it is shorter than the
cache, into an empty one.  A message appended makes the transcript longer and changes nothing before it unless it is
the user's (`TranscriptGrows`), and a nudge comes with a cleared cache; this comes down to the
community modules' `FlattenSeq` distributing over concatenation (`FlattenAppend`).  While no turn
lies behind what was asked, the cache is that prompt and the turn, token by token (`AskedIsPrompt`).
The one hypothesis is `"chat" \notin Entries`: a local program that goes on with `Engine::chat` keeps the cache
of its previous call, header, stripped reasoning and all, so the skipped prefix need not match.
There the property is false of the code, not only unproved (see above); `local` and
`EngineIsTyped` cover it for the size of the cache.

**ChatClientProofs.**  `LoopInv` again gives budgets and types.  `KeptInv` adds to
`EarlierTurnsKept` that a call given up is over and its history is the one before:
it yields `HistoryIsOnlyExtended` and `RollbackIsComplete`.  `StreamInv` is the
argument that retries cannot mix responses: an attempt begins with nothing
received and, as long as nothing has been, an empty turn; bytes of an
earlier attempt can only meet the first event; and the skip flag is up exactly
between the summary's two appearances (`ThoughtsMatch`, only with progress
ticks: without them the property does not hold, see above).
`ToolInv` is the client's `CallsCoverPending`.  `CallsNudgeOnce` needs that the flag which keeps
the second nudge out is up exactly when a retry was paid for (`NudgeInv`).

**ServerGateProofs.**  For any number of requests.  `LockProtectsEngine` is
inductive with the types; `OneInTheEngine` follows.  `RequestsAreServedAsAsked`
and `StreamsHearThemselves` follow because nobody but the holder of the lock
writes what they read.  `CancelsAreOwn` needs `WiredByStreams`, that a wired
callback belongs to a stream that is being or has been served; its premise
that no dead callback is wired can fail, as said above.
`AnswersAreNamedRight` needs that a loaded model is the named one, and that
a text under way comes from it: this survives swaps because no swap happens
while a text is under way.

**TuiSessionProofs.**  For any number of prompts, keys, hops and questions.
`ThreadsAlwaysAgree` is `ThreadsAgree` made inductive by `InHandIsReal` (a prompt in hand on its
way to the queue or out of it is a prompt) and `HopsAreLeft` (a tool that asks is one of the
calls still owed).  `InterruptsAreOwn` adds to it what a raised flag means.
`NoPromptIsLost` is about the sequence of prompts sent, queued and in hand, which every step
keeps up to its order: a starting prompt overtakes the queue.

**CatalogRefreshProofs.**  For any number of starters, refreshes and deaths.
`RefreshInv` adds to `RefreshIsSafe` that whoever has claimed a refresh has no thread yet
(`NotStartedYet`), that a refresh thread carries the latest answer there has been
(`CarriesTheLatest`, without which the rename could go back), and that a file which can be
loaded is not newer than the snapshot (`FileIsPublished`).  `RunnerIsAlone` is the lemma all
steps of the thread rest on.  `FileFollowsCatalog` is the action property.

**ModelDownloadsProofs.**  For any number of callers, shards, downloads, deletions and deaths.
`DownloadsInv` adds that whoever is in `start_download` holds the mutex and no download is on
before it says so (`StarterAlone`), that the running thread is the one the status is about
(`RunsAsShown`), that a raised flag during a download was meant for it (`CancelIsMeant`), and that
what has been fetched is there (`HasFetched`).

**SpeculativeDecodeProofs.**  For any text, prompt lengths, context, draft length, budget and guess,
and any number of generations behind each other.
`CachesAgree` says nothing of the moment between the batch and its verification, nor of what
the sampler returns there, so it is not inductive.  `SpecInv` ties every cache to the text,
position by position: the target's cache holds the text up to `n_past`; the pipeline's prompt and the draft
context agree with it behind the prompt, or the draft context is shorter than the prompt and the next batch is
refused (`Aligned`).  What an earlier generation left under the prompt is never known, and the invariant asks nothing of it.
The batch lies behind `n_past` in both caches while it is verified (`Guessing`), the accepted
tokens not shown yet end one ahead of the cache (`Accepting`), and the number shown follows
from `n_past` (`Shown`).  Under it the sampler returns the text's next token at every position
of the longest agreeing prefix, which gives `CachesAlwaysAgree`, and each step is a step
of `PlainDecode` or a stutter, which gives `DraftingShowsPlainDecoding` (a refinement without fairness,
so it is proved whole).

**McpServerProofs.**  The limiter, for any finite set of threads and any cap: a slot is held exactly by
the calls between the comparison and the guard's destructor, and the counting rests on the
library's theorems about cardinalities.  The store, for any number of threads, calls, renders
and crashes and any finite set of keys: `WriterInv` says of each stage of a save what the
writer is about to put under the final name (whole, holding everything acknowledged, never a pinned
entry the index knows); `ReaderInv` that a reader keeps the writers out from its look on;
`IndexFollows` that the index is the disk but for the one entry being indexed, which is what
survives a crash between rename and index; `VocabInv` that the signature of a sure render `Mirrors` the directory:
if the directory still has its time, either the tick of that time is over and the keys are those there are, or no file has gone
since the count was taken, and an equal count means that none has come.  `ChangesTell` is the
lemma it rests on: a change moves the time, or takes no file away, or is a forget that ends the trust.
It is why a render without the store's lock is safe when it counted every name after the tick of the last change,
or with no save under way: the cache may be stored late, but not with a signature that will match other keys.

**Induction over data.**  The library's induction theorems take an operator and cannot be used
here.  Where a lemma needs induction (`FlattenAppend`, the longest agreeing prefix), it is proved
by least counterexample: a non-empty set of naturals has a least element (`LeastNat`, from
the well-foundedness of `<`), and a recursive function is unrolled into the sequence of
its values up to the length in question (`FlattenUnrolls`).

**Only model-checked.**  Liveness, which is out of the prover's reach: `EveryCallReturns` (under its two hypotheses),
`AdmittedAreAnswered`, `RefreshEnds`, `CancelStops`, `QueuedAreSent` and the return in
`ImplementsAgentTurn` (its steps are `EngineStepsLikeAgentTurn`).  `QuitEnds` and
`PinnedIsForever` are statements of the repository that the code does not keep, so
there is nothing to prove of them; `KnownPinnedIsAlwaysKept` is what holds instead of the second.

## 8. Not modelled

- **Engine**: `load`, `reload` and the setters (configuration; the hot swap of the server sees
  `reload`), the parsing of a turn, whose results are chosen freely.
- **Server**: parsing and formatting, the SSE parser for thinking tags, routes that keep no
  state, and the status route that reads the engine without the lock (8847): memory read while it is
  freed has no outcome a state could show.
- **Client**: plain requests such as models and health.
- **TUI**: drawing, menus, scrolling, session files, `/new` and `/clear`.
- **Dashboard**: the live search and its cache, scoring, the JSON of the pages.
- **Knowledge store**: search, listing and the keyword counts, which only read; a second process
  on the same directory, which the header says is not supported.
- **MCP**: authentication, the JSON-RPC dispatcher, the client.
- **Model manager, command-line client**: menus and rendering over the modelled parts.
- **Voice assistant**: one chat call at a time between recognition and speech.  The sentence queue
  of the speaker is the one thing shared, behind one mutex and one condition variable.
- **Speech, external and built-in tools, preamble, presets, configuration, logging, UI text**: I/O,
  numeric pipelines and text composition.
- **Plan tool**: a list in the memory of one thread.
- **Web UI**: `webui/bundle.js` and `bundle.css` are a generated, minified build of the chat page
  that llama.cpp's server ships; `models.html` and `index.html` are pages over the server's routes.
  `third_party/` is vendored, `scripts/` installs.
