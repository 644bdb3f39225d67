----------------------------- MODULE TuiSession -----------------------------
(***************************************************************************)
(* The chat TUI (src/tui.cpp): one thread reads the keyboard and paints,   *)
(* one worker at a time runs a turn of the client, or a compaction.  They  *)
(* share the flags busy and worker_live, the queue of prompts typed during *)
(* a turn, the client's cancel flag, and the question dialog, by which a   *)
(* tool running in the worker asks the user and waits.                     *)
(*                                                                         *)
(* The keyboard thread goes round a loop: leave if asked to, read a few    *)
(* keys, start a queued prompt if idle.  What it does while it holds no    *)
(* lock between two looks at the worker's state are separate steps.        *)
(***************************************************************************)
EXTENDS Naturals, Integers, Sequences, SequencesExt

CONSTANTS
  MaxPrompts,     \* bound of the model: prompts the user types
  MaxCompactions, \* bound of the model: /compress commands
  MaxToolHops,    \* the client's max_tool_hops
  MaxCalls,       \* bound of the model: tool calls in one turn of the model
  MaxItems,       \* questions in one dialog; the tool keeps at most 4
  MaxKeys         \* keys one read() of the terminal can return

ASSUME TuiAssumption ==
  /\ {MaxPrompts, MaxCompactions, MaxCalls} \subseteq Nat
  /\ {MaxToolHops, MaxItems, MaxKeys} \subseteq Nat \ {0}

VARIABLES
  ui,          \* where the keyboard thread is
  keys,        \* keys of the last read() not handled yet
  ctrlcHits,   \* ctrlc_hits: -1 asks the loop to end
  typed,       \* prompts typed so far; they are numbered from 1
  compactions, \* compactions asked for so far
  next,        \* the prompt in the hands of submit or of the drain, or Compact
  queue,       \* prompts typed while busy
  busy,        \* ui.busy
  workerLive,  \* worker_live
  worker,      \* where the worker is: "none" not joinable, "over" returned
  job,         \* what the worker runs: a prompt, or Compact
  hop, calls,  \* the call's hop, and its tool calls still to dispatch
  cancel,      \* the client's cancel_requested
  q,           \* the question dialog
  sent,        \* prompts handed to the client, in order (history variable)
  meant        \* the user has interrupted this job, or quit (history variable)

terminal == <<ui, keys, ctrlcHits, typed, compactions, next>>
client   == <<job, hop, calls>>
vars == <<terminal, queue, busy, workerLive, worker, client, cancel, q, sent, meant>>

Compact == 0
NoDialog == [active |-> FALSE, items |-> 0, idx |-> 0,
             finished |-> FALSE, dismissed |-> FALSE]
InCall == {"hop", "stream", "tools", "asking", "stopped", "answered"}

Init ==
  /\ ui = "head" /\ keys = 0 /\ ctrlcHits = 0
  /\ typed = 0 /\ compactions = 0 /\ next = Compact
  /\ queue = <<>> /\ busy = FALSE /\ workerLive = FALSE
  /\ worker = "none" /\ job = Compact /\ hop = 0 /\ calls = 0
  /\ cancel = FALSE /\ q = NoDialog
  /\ sent = <<>> /\ meant = FALSE
-----------------------------------------------------------------------------
(* The keyboard thread, round its loop.                                    *)

(* The head of the loop and its read(): leave, or take a batch of keys; a  *)
(* closed terminal ends the loop too.  A single ctrl+c is forgotten after  *)
(* a while.                                                                *)
LoopHead ==
  /\ ui = "head"
  /\ IF ctrlcHits = -1
     THEN ui' = "shutdown" /\ UNCHANGED <<keys, ctrlcHits>>
     ELSE \/ /\ ui' = "keys" /\ keys' \in 0..MaxKeys
             /\ ctrlcHits' \in {0, ctrlcHits}
          \/ ui' = "shutdown" /\ UNCHANGED <<keys, ctrlcHits>>
  /\ UNCHANGED <<typed, compactions, next, queue, busy, workerLive, worker,
                 client, cancel, q, sent, meant>>

(* handle_key looks at the dialog without the lock, and at busy with it;   *)
(* what it then does comes later.                                          *)
Key(dest) ==
  /\ ui = "keys" /\ keys > 0 /\ keys' = keys - 1 /\ ui' = dest

KeyForDialog ==
  /\ q.active /\ Key("dialog")
  /\ UNCHANGED <<ctrlcHits, typed, compactions, next, queue, busy, workerLive,
                 worker, client, cancel, q, sent, meant>>

(* Enter on a prompt.                                                      *)
Submit ==
  /\ ~q.active /\ typed < MaxPrompts /\ Key(IF busy THEN "queueing" ELSE "starting")
  /\ typed' = typed + 1 /\ next' = typed + 1
  /\ UNCHANGED <<ctrlcHits, compactions, queue, busy, workerLive, worker,
                 client, cancel, q, sent, meant>>

(* Enter on /compress, which is refused while busy.                        *)
Compress ==
  /\ ~q.active /\ compactions < MaxCompactions
  /\ Key(IF busy THEN "keys" ELSE "starting")
  /\ compactions' = compactions + 1 /\ next' = Compact
  /\ UNCHANGED <<ctrlcHits, typed, queue, busy, workerLive, worker, client,
                 cancel, q, sent, meant>>

(* Esc twice during a turn.                                                *)
Escape ==
  /\ ~q.active /\ busy /\ Key("cancelling")
  /\ UNCHANGED <<ctrlcHits, typed, compactions, next, queue, busy, workerLive,
                 worker, client, cancel, q, sent, meant>>

(* Ctrl+c on an empty prompt: the second one quits, and a third one in the *)
(* same batch takes it back.                                               *)
CtrlC ==
  /\ ~q.active
  /\ Key(IF ctrlcHits = 1 /\ busy THEN "cancelling" ELSE "keys")
  /\ ctrlcHits' = IF ctrlcHits = 1 THEN -1 ELSE 1
  /\ UNCHANGED <<typed, compactions, next, queue, busy, workerLive, worker,
                 client, cancel, q, sent, meant>>

(* Ctrl+d on an empty prompt, /exit and /quit.                             *)
Quit ==
  /\ ~q.active /\ Key("keys") /\ ctrlcHits' = -1
  /\ UNCHANGED <<typed, compactions, next, queue, busy, workerLive, worker,
                 client, cancel, q, sent, meant>>

(* Any other key edits the prompt or moves the view.                       *)
OtherKey ==
  /\ ~q.active /\ Key("keys")
  /\ UNCHANGED <<ctrlcHits, typed, compactions, next, queue, busy, workerLive,
                 worker, client, cancel, q, sent, meant>>
-----------------------------------------------------------------------------
(* What a key does once handle_key has looked.                             *)
Enqueue ==
  /\ ui = "queueing" /\ ui' = "keys"
  /\ queue' = Append(queue, next)
  /\ UNCHANGED <<keys, ctrlcHits, typed, compactions, next, busy, workerLive,
                 worker, client, cancel, q, sent, meant>>

RequestCancel ==
  /\ ui = "cancelling" /\ ui' = "keys"
  /\ cancel' = TRUE /\ meant' = TRUE
  /\ UNCHANGED <<keys, ctrlcHits, typed, compactions, next, queue, busy,
                 workerLive, worker, client, q, sent>>

(* question_key, under the lock: the dialog may have closed meanwhile, or  *)
(* have been answered already.                                             *)
Commit(d) == [d EXCEPT !.idx = d.idx + 1, !.finished = (d.idx + 1 = d.items)]
Dismiss(d) == [d EXCEPT !.dismissed = TRUE]
HasMoreToAsk(d) == d.idx < d.items
DialogKey ==
  /\ ui = "dialog" /\ ui' = "keys"
  /\ q' \in IF HasMoreToAsk(q) THEN {Commit(q), Dismiss(q), q} ELSE {q}
  /\ UNCHANGED <<keys, ctrlcHits, typed, compactions, next, queue, busy,
                 workerLive, worker, client, cancel, sent, meant>>

(* start_turn and start_compress: both join the worker before they replace *)
(* it, and only the first clears the cancel flag.                          *)
Joined == worker \in {"none", "over"}

KeepCancel  == UNCHANGED cancel                                   \* mutant
ClearCancel == cancel' = FALSE
StartTurn    == ClearCancel /\ sent' = Append(sent, next)
StartCompact == UNCHANGED <<cancel, sent>>

StartWorker ==
  /\ \/ ui = "starting" /\ ui' = "keys"
     \/ ui = "draining" /\ ui' = "head"
  /\ Joined
  /\ busy' = TRUE /\ workerLive' = TRUE
  /\ worker' = "hop" /\ job' = next /\ hop' = 0 /\ calls' = 0
  /\ meant' = FALSE
  /\ IF next = Compact THEN StartCompact ELSE StartTurn
  /\ UNCHANGED <<keys, ctrlcHits, typed, compactions, next, queue, q>>

(* The end of a batch: a queued prompt is started once the worker is done. *)
Idle == ~busy /\ ~workerLive
PeekedAt(s) == s                                                  \* mutant
Popped(s)   == Tail(s)
EndOfBatch ==
  /\ ui = "keys" /\ keys = 0
  /\ IF Idle /\ queue # <<>>
     THEN ui' = "draining" /\ next' = Head(queue) /\ queue' = Popped(queue)
     ELSE ui' = "head" /\ UNCHANGED <<next, queue>>
  /\ UNCHANGED <<keys, ctrlcHits, typed, compactions, busy, workerLive, worker,
                 client, cancel, q, sent, meant>>

(* The end: cancel the turn, join the worker, and only then dismiss a      *)
(* dialog it may have been waiting on.                                     *)
Shutdown ==
  /\ ui = "shutdown" /\ ui' = "joining"
  /\ cancel' = TRUE /\ meant' = TRUE
  /\ UNCHANGED <<keys, ctrlcHits, typed, compactions, next, queue, busy,
                 workerLive, worker, client, q, sent>>

Leave ==
  /\ ui = "joining" /\ Joined
  /\ ui' = "gone" /\ worker' = "none"
  /\ q' = IF q.active THEN Dismiss(q) ELSE q
  /\ UNCHANGED <<keys, ctrlcHits, typed, compactions, next, queue, busy,
                 workerLive, client, cancel, sent, meant>>
-----------------------------------------------------------------------------
(* The worker: the client's loop, as far as this program can see it.       *)
Work(from, to) == worker = from /\ worker' = to
KeepUi == UNCHANGED <<terminal, queue, sent, meant, cancel, job>>

(* The head of a hop: cancelled, out of hops, or a request to the server.  *)
Hop ==
  /\ \/ cancel /\ Work("hop", "stopped")
     \/ ~cancel /\ hop = MaxToolHops /\ Work("hop", "answered")
     \/ ~cancel /\ hop < MaxToolHops /\ Work("hop", "stream")
  /\ KeepUi /\ UNCHANGED <<busy, workerLive, hop, calls, q>>

(* The stream ends with an answer or an error, with tool calls, or because *)
(* a chunk or a retry found the cancel flag up.                            *)
Stream ==
  /\ \/ cancel /\ Work("stream", "stopped") /\ calls' = 0
     \/ Work("stream", "answered") /\ calls' = 0
     \/ Work("stream", "tools") /\ calls' \in 1..MaxCalls
  /\ KeepUi /\ UNCHANGED <<busy, workerLive, hop, q>>

(* A tool that does not ask, or the next hop.                              *)
SameHop == hop                                                    \* mutant
NextHop == hop + 1
Dispatch ==
  /\ IF calls > 0
     THEN Work("tools", "tools") /\ calls' = calls - 1 /\ UNCHANGED hop
     ELSE Work("tools", "hop") /\ hop' = NextHop /\ UNCHANGED calls
  /\ KeepUi /\ UNCHANGED <<busy, workerLive, q>>

(* The question tool opens the dialog and waits.                           *)
Ask ==
  /\ calls > 0 /\ Work("tools", "asking")
  /\ q' \in [active : {TRUE}, items : 1..MaxItems, idx : {0},
             finished : {FALSE}, dismissed : {FALSE}]
  /\ KeepUi /\ UNCHANGED <<busy, workerLive, hop, calls>>

Closed(d)   == NoDialog
Told ==
  /\ Work("asking", "tools") /\ (q.finished \/ q.dismissed)
  /\ q' = Closed(q) /\ calls' = calls - 1
  /\ KeepUi /\ UNCHANGED <<busy, workerLive, hop>>

(* The call has returned: busy falls under the lock, the session is saved, *)
(* and only then worker_live falls and the thread ends.                    *)
Return ==
  /\ (Work("stopped", "saving") \/ Work("answered", "saving"))
  /\ busy' = FALSE
  /\ KeepUi /\ UNCHANGED <<workerLive, hop, calls, q>>

LiveStays == UNCHANGED workerLive                                 \* mutant
LiveFalls == workerLive' = FALSE
Saved ==
  /\ Work("saving", "over") /\ LiveFalls
  /\ KeepUi /\ UNCHANGED <<busy, hop, calls, q>>
-----------------------------------------------------------------------------
KeyAction == \/ KeyForDialog \/ Submit \/ Compress \/ Escape \/ CtrlC \/ Quit
             \/ OtherKey
UiStep == \/ LoopHead \/ Enqueue \/ RequestCancel \/ DialogKey
          \/ StartWorker \/ EndOfBatch \/ Shutdown \/ Leave
WorkerStep == Hop \/ Stream \/ Dispatch \/ Ask \/ Told \/ Return \/ Saved
Next == KeyAction \/ UiStep \/ WorkerStep
Spec == Init /\ [][Next]_vars

(* Both threads run when they can.  What the user types, and whether the   *)
(* user answers, is nobody's duty.                                         *)
FairSpec == Spec /\ WF_vars(KeyAction \/ UiStep) /\ WF_vars(WorkerStep)
-----------------------------------------------------------------------------
Dialog == [active : BOOLEAN, items : 0..MaxItems, idx : 0..MaxItems,
           finished : BOOLEAN, dismissed : BOOLEAN]
Prompt == 1..MaxPrompts

TypeOK ==
  /\ ui \in {"head", "keys", "dialog", "queueing", "starting", "cancelling",
             "draining", "shutdown", "joining", "gone"}
  /\ keys \in 0..MaxKeys /\ ctrlcHits \in {-1, 0, 1}
  /\ typed \in 0..MaxPrompts /\ compactions \in 0..MaxCompactions
  /\ next \in 0..MaxPrompts /\ job \in 0..MaxPrompts
  /\ queue \in Seq(Prompt) /\ sent \in Seq(Prompt)
  /\ worker \in InCall \cup {"none", "saving", "over"}
  /\ hop \in 0..MaxToolHops /\ calls \in 0..MaxCalls
  /\ q \in Dialog /\ q.idx <= q.items
  /\ {busy, workerLive, cancel, meant} \subseteq BOOLEAN

(* What the keyboard thread reads of the worker is true: busy while a call *)
(* runs and no longer, worker_live until the session is saved.             *)
FlagsTellTheWorker ==
  /\ busy <=> worker \in InCall
  /\ workerLive <=> worker \in InCall \cup {"saving"}

(* A dialog is on the screen exactly while a tool waits for it: nobody     *)
(* waits behind a closed one, and no dialog eats the keys for ever.        *)
DialogIsWaitedFor == q.active <=> worker = "asking"

(* What the two threads tell each other through what they share is true.   *)
ThreadsAgree == TypeOK /\ FlagsTellTheWorker /\ DialogIsWaitedFor

(* A turn is only ever interrupted by a user who asked for that during     *)
(* this turn, whatever was interrupted before.  A compaction does not      *)
(* clear the flag and falls to the cancel of the turn before it.           *)
InterruptIsOwn == worker = "stopped" => meant \/ job = Compact

(* Every prompt typed is in one place: sent, queued, or in hand on its way *)
(* to one of the two.  None is lost and none is sent twice.                *)
InHand == IF ui \in {"queueing", "starting", "draining"} /\ next # Compact
          THEN <<next>> ELSE <<>>
Prompts == sent \o queue \o InHand
PromptsAreKept == Len(Prompts) = typed /\ ToSet(Prompts) = 1..typed

(* A prompt that was queued is sent, unless the user is asked or leaves.   *)
Leaving == ui \in {"shutdown", "joining", "gone"}
QueuedAreSent == \A p \in Prompt :
  p \in ToSet(queue) ~> (p \in ToSet(sent) \/ Leaving \/ worker = "asking")

(* The loop runs until the user leaves (tui.hpp:80): then it ends, and a   *)
(* dialog that is still open is dismissed (the comment at tui.cpp:3568).   *)
QuitEnds == Leaving ~> ui = "gone"
=============================================================================
