----------------------------- MODULE ChatClient -----------------------------
(***************************************************************************)
(* easyai::Client: the conversation a client keeps, the agentic loop that  *)
(* posts it to a server hop by hop, the attempts of one post and the event *)
(* stream that answers it.  One thread is inside a call; the cancel flag   *)
(* is raised by a signal handler or another thread.                        *)
(*                                                                         *)
(* The server is part of the environment: an attempt meets a refused       *)
(* connection, an error status, or a stream of events that may break off   *)
(* at any point.  An event is reduced to its sort.                         *)
(***************************************************************************)
EXTENDS Naturals, FiniteSets, Sequences, SequencesExt

CONSTANTS
  MaxToolHops,          \* max_tool_hops
  MaxIncompleteRetries, \* max_incomplete_retries
  HttpRetries,          \* http_retries
  RetryOnIncomplete,    \* retry_on_incomplete
  StopAtCtx,            \* stop_at_ctx_pct > 0
  SendPromptProgress,   \* send_prompt_progress
  ReasoningCap,         \* max_reasoning_chars in deltas, 0 means unlimited
  Entries,              \* the calls the embedding program makes
  SavedHistories,       \* what load_history may find in a session file
  MaxEvents,            \* bound of the model: events of one response
  MaxHistory            \* bound of the model: no call beyond this length

ASSUME ClientAssumption ==
  /\ MaxToolHops \in Nat \ {0} /\ MaxIncompleteRetries \in Nat
  /\ HttpRetries \in Nat /\ ReasoningCap \in Nat /\ MaxEvents \in Nat
  /\ {RetryOnIncomplete, StopAtCtx, SendPromptProgress} \subseteq BOOLEAN

VARIABLES
  history,           \* history_json: role and number of tool calls
  at,                \* where the call is: "idle" between calls
  hop, attempt,      \* counters of the two loops
  incompleteRetries,
  nudged,            \* nudge_pushed
  pending,           \* tool calls of this hop still to be dispatched
  turn,              \* the AssistantTurn being received
  received,          \* received_anything
  residue,           \* bytes of an earlier attempt are left in the SseBuffer
  skipNext,          \* skip_next_reason
  lastCtx,           \* last_ctx_used / last_n_ctx against the ceiling
  cancel,            \* cancel_requested
  lastError, outcome,
  before,            \* history when chat() began (history variable)
  startLen,          \* history_size_at_start
  sent               \* what the response under way has sent (history variable)

stream == <<turn, received, residue, skipNext, sent>>
loop   == <<hop, incompleteRetries, nudged, pending>>
call   == <<before, startLen>>
vars == <<history, at, attempt, loop, stream, lastCtx, cancel, lastError, outcome, call>>

Roles == {"user", "nudge", "assistant", "tool"}
Message == [role : Roles, calls : Nat]
Plain(role) == [role |-> role, calls |-> 0]
UserMessage == Plain("user")
Nudge       == Plain("nudge")       \* a user message written by the client
ToolMessage == Plain("tool")

(* What a turn is judged by.  "length" stands for any finish_reason but    *)
(* tool_calls and stop; ctx is the reported fill against the ceiling.      *)
Turn == [thoughts : Nat, shown : Nat, calls : Nat,
         finish : {"stop", "tool_calls", "length"},
         incomplete : BOOLEAN, ctx : {"unknown", "low", "full"}]
NoTurn == [thoughts |-> 0, shown |-> 0, calls |-> 0, finish |-> "stop",
           incomplete |-> FALSE, ctx |-> "unknown"]

(* What the server has sent: the deltas a turn should be made of, and how  *)
(* many events.                                                            *)
NothingSent == [thoughts |-> 0, shown |-> 0, calls |-> 0, events |-> 0]

ASSUME SavedAssumption == SavedHistories \subseteq Seq(Message)
-----------------------------------------------------------------------------
Init ==
  /\ history = <<>> /\ at = "idle"
  /\ hop = 0 /\ attempt = 0 /\ incompleteRetries = 0 /\ nudged = FALSE
  /\ pending = 0
  /\ turn = NoTurn /\ received = FALSE /\ residue = FALSE /\ skipNext = FALSE
  /\ sent = NothingSent
  /\ lastCtx = "unknown"
  /\ cancel = FALSE /\ lastError = "none" /\ outcome = "none"
  /\ before = <<>> /\ startLen = 0

(* run_chat_loop_inner begins with history h.                              *)
Enter(h) ==
  /\ at = "idle" /\ Len(history) < MaxHistory
  /\ history' = h /\ startLen' = Len(h) /\ at' = "hop"
  /\ hop' = 0 /\ incompleteRetries' = 0 /\ nudged' = FALSE /\ pending' = 0
  /\ lastError' = "none" /\ outcome' = "none"
  /\ UNCHANGED <<attempt, stream, lastCtx, cancel>>

Chat ==
  /\ "chat" \in Entries
  /\ before' = history
  /\ Enter(Append(history, UserMessage))

ChatContinue ==
  /\ "chat_continue" \in Entries /\ history # <<>>
  /\ before' = history
  /\ Enter(history)

RequestCancel ==
  /\ "cancel" \in Entries /\ ~cancel /\ cancel' = TRUE
  /\ UNCHANGED <<history, at, attempt, loop, stream, lastCtx, lastError, outcome, call>>

(* The flag is sticky: the program lowers it between two calls.            *)
ClearCancel ==
  /\ at = "idle" /\ cancel /\ cancel' = FALSE
  /\ UNCHANGED <<history, at, attempt, loop, stream, lastCtx, lastError, outcome, call>>

SetHistory(h) ==
  /\ at = "idle"
  /\ history' = h /\ before' = h /\ startLen' = Len(h)
  /\ lastError' = "none" /\ outcome' = "none"
  /\ UNCHANGED <<at, attempt, loop, stream, cancel>>
ClearHistory ==
  /\ "clear" \in Entries /\ SetHistory(<<>>)
  /\ lastCtx' = "unknown"
LoadHistory(h) ==
  /\ "load" \in Entries /\ SetHistory(h)
  /\ UNCHANGED lastCtx

Push(m)     == history' = Append(history, m)
Finish(how) == at' = "idle" /\ outcome' = how
Fail(why)   == Finish("failed") /\ lastError' = why
-----------------------------------------------------------------------------
OneHopMore == hop > MaxToolHops                \* mutant: off by one
OutOfHops  == hop >= MaxToolHops
LoopHead ==
  /\ at = "hop"
  /\ \/ /\ OutOfHops
        /\ Finish("exhausted") /\ lastError' = "hops"
        /\ UNCHANGED <<attempt, turn, received, residue, skipNext>>
     \/ /\ ~OutOfHops /\ cancel
        /\ Fail("cancelled")
        /\ UNCHANGED <<attempt, turn, received, residue, skipNext>>
     \/ /\ ~OutOfHops /\ ~cancel
        /\ at' = "attempt" /\ attempt' = 1
        /\ turn' = NoTurn /\ received' = FALSE
        /\ residue' = FALSE /\ skipNext' = FALSE
        /\ UNCHANGED <<lastError, outcome>>
  /\ UNCHANGED <<history, loop, lastCtx, cancel, call, sent>>

(* The next attempt, after a backoff that polls the cancel flag; the flag  *)
(* is looked at once more before the post.  left: bytes of this attempt    *)
(* that end no event stay in the buffer.                                   *)
SameAttempt == attempt                         \* mutant: the counter stands still
NextAttempt == attempt + 1
RetryOrFail(left) ==
  /\ residue' = (residue \/ left)
  /\ \/ /\ attempt <= HttpRetries
        /\ attempt' = NextAttempt /\ at' = "attempt" /\ UNCHANGED <<lastError, outcome>>
     \/ /\ attempt > HttpRetries
        /\ Fail("http") /\ UNCHANGED attempt

(* One post.  The body of an error status goes through the event parser    *)
(* like any other and may stay in its buffer.                              *)
Post ==
  /\ at = "attempt"
  /\ \/ /\ cancel
        /\ Fail("cancelled")
        /\ UNCHANGED <<attempt, residue, sent>>
     \/ /\ ~cancel                                     \* refused, or 5xx
        /\ \E left \in BOOLEAN : RetryOrFail(left)
        /\ UNCHANGED sent
     \/ /\ ~cancel                                     \* 4xx
        /\ Fail("status")
        /\ UNCHANGED <<attempt, residue, sent>>
     \/ /\ ~cancel                                     \* the stream opens
        /\ at' = "stream" /\ sent' = NothingSent
        /\ UNCHANGED <<attempt, residue, lastError, outcome>>
  /\ UNCHANGED <<history, loop, turn, received, skipNext, lastCtx, cancel, call>>
-----------------------------------------------------------------------------
(* What the server may send next.  easyai-server opens with a progress     *)
(* tick unless it was asked not to; the evaluation summary comes twice, as *)
(* an event of its own and as a reasoning delta for clients that ignore    *)
(* the event; the last chunk carries the finish reason and the timings.    *)
Event ==
  {[sort |-> s, finish |-> "stop", incomplete |-> FALSE, ctx |-> "unknown"] :
     s \in {"tick", "eval", "summary", "reason", "content", "call"}}
  \cup
  [sort : {"final"}, finish : {"stop", "tool_calls", "length"},
   incomplete : BOOLEAN, ctx : {"low", "full"}]

(* Only what a server sends: the summary right after its event, a final    *)
(* chunk that matches the calls.                                           *)
Ticks == IF SendPromptProgress THEN 1 ELSE 0
ServerSends(e) ==
  /\ sent.events < MaxEvents
  /\ (e.sort = "tick") = (sent.events < Ticks)
  /\ (e.sort = "eval") = (sent.events = Ticks)
  /\ (e.sort = "summary") = (sent.events = Ticks + 1)
  /\ e.finish = "tool_calls" => sent.calls > 0
  /\ e.incomplete => sent.calls = 0 /\ e.finish # "tool_calls"
Sent(e) ==
  [sent EXCEPT !.events   = IF e.sort = "final" THEN MaxEvents ELSE @ + 1,
               !.thoughts = IF e.sort = "reason"  THEN @ + 1 ELSE @,
               !.shown    = IF e.sort = "content" THEN @ + 1 ELSE @,
               !.calls    = IF e.sort = "call"    THEN @ + 1 ELSE @]

Heard(e) ==
  [turn EXCEPT !.thoughts   = IF e.sort \in {"reason", "summary"} THEN @ + 1 ELSE @,
               !.shown      = IF e.sort = "content" THEN @ + 1 ELSE @,
               !.calls      = IF e.sort = "call" THEN @ + 1 ELSE @,
               !.finish     = IF e.sort = "final" THEN e.finish ELSE @,
               !.incomplete = IF e.sort = "final" THEN e.incomplete ELSE @,
               !.ctx        = IF e.sort = "final" THEN e.ctx ELSE @]
IsChoice(e) == e.sort \notin {"tick", "eval"}
Skipped(e)  == skipNext /\ e.sort \in {"reason", "summary"}
Runaway(t)  == ReasoningCap > 0 /\ t.thoughts > ReasoningCap

(* on_chunk, one event.  Bytes left over garble the name of the first one, *)
(* so that its empty delta may pass for a chunk of the answer or its data  *)
(* for a summary; a turn whose reasoning runs away is closed and kept      *)
(* without its tool calls.                                                 *)
Receive(e) ==
  /\ at = "stream" /\ ~cancel /\ ServerSends(e)
  /\ sent' = Sent(e)
  /\ \/ /\ residue
        /\ residue' = FALSE
        /\ received' \in {received, TRUE} /\ skipNext' \in {skipNext, TRUE}
        /\ UNCHANGED <<at, turn, lastError>>
     \/ /\ ~residue /\ ~IsChoice(e)
        /\ skipNext' = (skipNext \/ e.sort = "eval")
        /\ UNCHANGED <<at, turn, received, residue, lastError>>
     \/ /\ ~residue /\ IsChoice(e) /\ Skipped(e)
        /\ skipNext' = FALSE /\ received' = TRUE
        /\ UNCHANGED <<at, turn, residue, lastError>>
     \/ /\ ~residue /\ IsChoice(e) /\ ~Skipped(e)
        /\ received' = TRUE
        /\ IF e.sort = "reason" /\ Runaway(Heard(e))
             THEN /\ turn' = [Heard(e) EXCEPT !.calls = 0, !.finish = "stop"]
                  /\ lastError' = "runaway" /\ at' = "judge"
             ELSE turn' = Heard(e) /\ UNCHANGED <<at, lastError>>
        /\ UNCHANGED <<residue, skipNext>>
  /\ UNCHANGED <<history, attempt, loop, lastCtx, cancel, outcome, call>>

(* The flag is seen on the next chunk: the receiver closes the socket.     *)
(* What the caller reads in last_error depends on how far the stream was.  *)
CancelStream ==
  /\ at = "stream" /\ cancel
  /\ Fail(IF received \/ attempt > HttpRetries THEN "http" ELSE "cancelled")
  /\ UNCHANGED <<history, attempt, loop, stream, lastCtx, cancel, call>>

(* The connection is lost before the response ends.                        *)
RetryAnyway == TRUE                            \* mutant: a half-heard turn is retried
Retryable   == ~received
BreakOff ==
  /\ at = "stream"
  /\ \/ /\ Retryable
        /\ \E left \in BOOLEAN : RetryOrFail(left)
     \/ /\ ~Retryable
        /\ Fail("http") /\ UNCHANGED <<attempt, residue>>
  /\ UNCHANGED <<history, loop, turn, received, skipNext, sent, lastCtx, cancel, call>>

Complete ==
  /\ at = "stream"
  /\ \/ /\ received
        /\ at' = "judge" /\ UNCHANGED <<lastError, outcome>>
     \/ /\ ~received
        /\ Fail("empty")
  /\ UNCHANGED <<history, attempt, loop, stream, lastCtx, cancel, call>>
-----------------------------------------------------------------------------
(* run_chat_loop, after a turn.                                            *)
RetryOnceMore == /\ turn.incomplete /\ RetryOnIncomplete    \* mutant: off by one
                 /\ incompleteRetries <= MaxIncompleteRetries
RetryDue == /\ turn.incomplete /\ RetryOnIncomplete
            /\ incompleteRetries < MaxIncompleteRetries

(* The turn is dropped and the conversation posted again, with one nudge   *)
(* per call.                                                               *)
NudgeAlways == TRUE                            \* mutant: a nudge per retry
NudgeDue    == ~nudged
RetryTurn ==
  /\ at = "judge" /\ RetryDue
  /\ incompleteRetries' = incompleteRetries + 1 /\ nudged' = TRUE
  /\ IF NudgeDue THEN Push(Nudge) ELSE UNCHANGED history
  /\ hop' = hop + 1 /\ at' = "hop"
  /\ UNCHANGED <<attempt, pending, stream, lastCtx, cancel, lastError, outcome, call>>

(* No retry left: everything this call wrote is rolled back, in chat() the *)
(* user message too.                                                       *)
KeepUserMessage == SubSeq(history, 1, startLen)             \* mutant
PopOneMore == SubSeq(history, 1, IF before = <<>> THEN 0 ELSE Len(before) - 1)  \* mutant
RolledBack == SubSeq(history, 1, Len(before))
GiveUp ==
  /\ at = "judge" /\ turn.incomplete /\ ~RetryDue
  /\ history' = RolledBack
  /\ Finish("incomplete")
  /\ UNCHANGED <<attempt, loop, stream, lastCtx, cancel, lastError, call>>

(* The turn is kept; a reported fill replaces the mirrored one.            *)
Ceiling == StopAtCtx /\ lastCtx' = "full"
Keep ==
  /\ at = "judge" /\ ~turn.incomplete
  /\ Push([role |-> "assistant", calls |-> turn.calls])
  /\ lastCtx' = IF turn.ctx = "unknown" THEN lastCtx ELSE turn.ctx
  /\ UNCHANGED <<attempt, hop, incompleteRetries, nudged, stream, cancel, call>>
Asks == turn.finish = "tool_calls" /\ turn.calls > 0

StopAtCeiling ==
  /\ Keep /\ Ceiling
  /\ Finish("ctx_full") /\ lastError' = "ctx_full"
  /\ UNCHANGED pending
Answer ==
  /\ Keep /\ ~Ceiling /\ ~Asks
  /\ Finish("answer") /\ UNCHANGED <<lastError, pending>>

CallsPlusOne == turn.calls + 1                 \* mutant: off by one
CallsToRun   == turn.calls
StartTools ==
  /\ Keep /\ ~Ceiling /\ Asks
  /\ at' = "tool" /\ pending' = CallsToRun
  /\ UNCHANGED <<lastError, outcome>>

DispatchTool ==
  /\ at = "tool"
  /\ Push(ToolMessage)
  /\ pending' = pending - 1
  /\ IF pending' = 0 THEN at' = "hop" /\ hop' = hop + 1 ELSE UNCHANGED <<at, hop>>
  /\ UNCHANGED <<attempt, incompleteRetries, nudged, stream, lastCtx, cancel,
                 lastError, outcome, call>>
-----------------------------------------------------------------------------
(* The steps the client takes by itself: a post ends by its timeouts, the  *)
(* rest is computation.                                                    *)
OwnStep ==
  \/ LoopHead \/ Post
  \/ RetryTurn \/ GiveUp \/ StopAtCeiling \/ Answer \/ StartTools

(* The others wait for the server's next byte or for a tool to return.     *)
ClientStep ==
  \/ OwnStep
  \/ \E e \in Event : Receive(e)
  \/ CancelStream \/ BreakOff \/ Complete
  \/ DispatchTool
CallerStep ==
  \/ Chat \/ ChatContinue \/ RequestCancel \/ ClearCancel \/ ClearHistory
  \/ \E h \in SavedHistories : LoadHistory(h)

Next == ClientStep \/ CallerStep
Spec == Init /\ [][Next]_vars

(* A thread inside a call keeps making its own steps.  Nothing makes a     *)
(* server end its stream or a tool return.                                 *)
FairSpec == Spec /\ WF_vars(OwnStep)
-----------------------------------------------------------------------------
(* The loops, whatever the messages and the stream hold.                   *)
LoopTypeOK ==
  /\ at \in {"idle", "hop", "attempt", "stream", "judge", "tool"}
  /\ hop \in Nat /\ attempt \in Nat /\ incompleteRetries \in Nat
  /\ pending \in Nat /\ startLen \in Nat
  /\ {nudged, received, residue, skipNext, cancel} \subseteq BOOLEAN
  /\ lastCtx \in {"unknown", "low", "full"}
  /\ lastError \in {"none", "cancelled", "http", "status", "empty", "runaway",
                    "ctx_full", "hops"}
  /\ outcome \in {"none", "answer", "ctx_full", "exhausted", "incomplete", "failed"}
StreamTypeOK ==
  /\ turn \in Turn
  /\ sent \in [thoughts : Nat, shown : Nat, calls : Nat, events : Nat]
MessagesTypeOK == history \in Seq(Message) /\ before \in Seq(Message)

(* Type invariant: the counters never go below zero and every other        *)
(* variable holds a value its C++ member can hold.                         *)
TypeOK == LoopTypeOK /\ StreamTypeOK /\ MessagesTypeOK

(* A call stays within its three budgets: hops, attempts of one post, and  *)
(* retries of incomplete turns, each of which has paid for a hop; and tool *)
(* calls are owed only while tools run.                                    *)
WithinBudgets ==
  /\ hop <= MaxToolHops
  /\ at \in {"attempt", "stream", "judge", "tool"} => hop < MaxToolHops
  /\ attempt <= HttpRetries + 1
  /\ incompleteRetries <= hop /\ incompleteRetries <= MaxIncompleteRetries
  /\ at = "tool" <=> pending > 0

(* The turn that is judged is one response of the server, whole and once:  *)
(* nothing of an attempt that was given up is in it, nothing of the last   *)
(* one is missing, and the evaluation summary is not taken for a thought.  *)
(* Only a runaway turn loses its tool calls.                               *)
TurnIsOneResponse ==
  at = "judge" =>
    /\ turn.thoughts = sent.thoughts /\ turn.shown = sent.shown
    /\ turn.calls = sent.calls \/ (Runaway(turn) /\ turn.calls = 0)

(* A call only ever adds to the conversation it found, rollback included.  *)
EarlierTurnsKept ==
  Len(before) <= Len(history) /\ SubSeq(history, 1, Len(before)) = before

(* A call that gives up on an incomplete turn leaves the conversation as   *)
(* it was before the call, however many hops and nudges came first.        *)
IncompleteLeavesNoTrace == outcome = "incomplete" => history = before

(* Every tool message of a call answers a tool call of the turn before it. *)
AnswersACall(i) ==
  \E j \in startLen + 1 .. i - 1 :
    /\ history[j].role = "assistant" /\ history[j].calls >= i - j
    /\ \A k \in j + 1 .. i - 1 : history[k].role = "tool"
ToolMessagesAnswerCalls ==
  \A i \in startLen + 1 .. Len(history) :
    history[i].role = "tool" => AnswersACall(i)

(* A call writes one nudge at most, and only if a turn was incomplete.     *)
OneNudgePerCall ==
  Cardinality({i \in startLen + 1 .. Len(history) : history[i] = Nudge})
    <= IF incompleteRetries > 0 THEN 1 ELSE 0

(* Every call returns, if its tools do and if no server streams for ever.  *)
(* Neither is the client's to promise: a read timeout ends a silence but   *)
(* not a stream that goes on, and a tool that waits for the user looks at  *)
(* no flag.  What is the client's is that hops, attempts and retries are   *)
(* charged on every path between two of them.                              *)
StreamsEnd  == []<>(at # "stream")
ToolsReturn == []<>(at # "tool")
EveryCallReturns == StreamsEnd /\ ToolsReturn => (at # "idle" ~> at = "idle")

(* The loop of the client implements the same contract as the engine's:    *)
(* its rounds are the hops, and it owes the calls still to be dispatched.  *)
Contract == INSTANCE AgentTurn WITH
              MaxRounds <- MaxToolHops, MaxCalls <- MaxEvents,
              busy <- at # "idle", rounds <- hop, owed <- pending

(* Every step of a call is a step of AgentTurn or invisible to the caller. *)
StepsLikeAgentTurn == Contract!Safety
=============================================================================
