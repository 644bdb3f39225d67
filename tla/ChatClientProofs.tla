--------------------------- MODULE ChatClientProofs ---------------------------
(***************************************************************************)
(* Proofs about ChatClient, for every value of its constants: the stream   *)
(* first, which says what a turn may be; then the budgets of the loop, the *)
(* conversation that is kept, and the contract with the caller.            *)
(***************************************************************************)
EXTENDS ChatClient, FiniteSetTheorems, SequenceTheorems, TLAPS

-----------------------------------------------------------------------------
(* What is heard of an event and what was sent of it stay well formed.     *)
LEMMA EventsAreTyped ==
  ASSUME StreamTypeOK, MaxEvents \in Nat, NEW e \in Event
  PROVE  /\ Heard(e) \in Turn
         /\ [Heard(e) EXCEPT !.calls = 0, !.finish = "stop"] \in Turn
         /\ Sent(e) \in [thoughts : Nat, shown : Nat, calls : Nat, events : Nat]
<1>1. /\ e.finish \in {"stop", "tool_calls", "length"} /\ e.incomplete \in BOOLEAN
      /\ e.ctx \in {"unknown", "low", "full"}
  <2> DEFINE Plains == {[sort |-> s, finish |-> "stop", incomplete |-> FALSE,
                         ctx |-> "unknown"] :
                          s \in {"tick", "eval", "summary", "reason", "content", "call"}}
             Finals == [sort : {"final"}, finish : {"stop", "tool_calls", "length"},
                        incomplete : BOOLEAN, ctx : {"low", "full"}]
  <2>1. e \in Plains \/ e \in Finals
    BY Zenon DEF Event
  <2>2. CASE e \in Plains
    <3>1. PICK s : e = [sort |-> s, finish |-> "stop", incomplete |-> FALSE,
                        ctx |-> "unknown"]
      BY <2>2
    <3>2. QED
      BY <3>1
  <2>3. CASE e \in Finals
    BY <2>3
  <2>4. QED
    BY <2>1, <2>2, <2>3
<1>2. Heard(e) \in Turn
  <2>1. /\ turn \in Turn /\ turn.thoughts \in Nat /\ turn.shown \in Nat
        /\ turn.calls \in Nat /\ turn.incomplete \in BOOLEAN
        /\ turn.finish \in {"stop", "tool_calls", "length"}
        /\ turn.ctx \in {"unknown", "low", "full"}
    BY DEF StreamTypeOK, Turn
  <2> DEFINE th == IF e.sort \in {"reason", "summary"} THEN turn.thoughts + 1
                   ELSE turn.thoughts
             sh == IF e.sort = "content" THEN turn.shown + 1 ELSE turn.shown
             cs == IF e.sort = "call" THEN turn.calls + 1 ELSE turn.calls
             fi == IF e.sort = "final" THEN e.finish ELSE turn.finish
             ic == IF e.sort = "final" THEN e.incomplete ELSE turn.incomplete
             cx == IF e.sort = "final" THEN e.ctx ELSE turn.ctx
  <2>2. /\ th \in Nat /\ sh \in Nat /\ cs \in Nat
        /\ fi \in {"stop", "tool_calls", "length"}
        /\ cx \in {"unknown", "low", "full"}
    BY <1>1, <2>1
  <2>3. ic \in BOOLEAN
    BY <1>1, <2>1, Zenon
  <2>4. Heard(e) = [turn EXCEPT !.thoughts = th, !.shown = sh, !.calls = cs,
                                !.finish = fi, !.incomplete = ic, !.ctx = cx]
    BY Zenon DEF Heard
  <2> HIDE DEF th, sh, cs, fi, ic, cx
  <2>5. QED
    BY <2>1, <2>2, <2>3, <2>4 DEF Turn
<1>3. [Heard(e) EXCEPT !.calls = 0, !.finish = "stop"] \in Turn
  BY <1>2 DEF Turn
<1>4. Sent(e) \in [thoughts : Nat, shown : Nat, calls : Nat, events : Nat]
  <2> DEFINE ev == IF e.sort = "final" THEN MaxEvents ELSE sent.events + 1
             th == IF e.sort = "reason" THEN sent.thoughts + 1 ELSE sent.thoughts
             sh == IF e.sort = "content" THEN sent.shown + 1 ELSE sent.shown
             cs == IF e.sort = "call" THEN sent.calls + 1 ELSE sent.calls
  <2>1. sent \in [thoughts : Nat, shown : Nat, calls : Nat, events : Nat]
    BY DEF StreamTypeOK
  <2>2. ev \in Nat /\ th \in Nat /\ sh \in Nat /\ cs \in Nat
    BY <2>1
  <2>3. Sent(e) = [sent EXCEPT !.events = ev, !.thoughts = th, !.shown = sh,
                               !.calls = cs]
    BY Zenon DEF Sent
  <2> HIDE DEF ev, th, sh, cs
  <2>4. QED
    BY <2>1, <2>2, <2>3
<1>5. QED
  BY <1>2, <1>3, <1>4

LEMMA NoTurnIsTyped ==
  /\ NoTurn \in Turn
  /\ NothingSent \in [thoughts : Nat, shown : Nat, calls : Nat, events : Nat]
BY DEF NoTurn, Turn, NothingSent
-----------------------------------------------------------------------------
(* The inductive invariant of the loops.  WithinBudgets is inductive once  *)
(* the control variables are typed.                                        *)
LoopInv == LoopTypeOK /\ StreamTypeOK /\ WithinBudgets

LEMMA LoopInvInit == Init => LoopInv
<1> SUFFICES ASSUME Init PROVE LoopInv
  OBVIOUS
<1>1. LoopTypeOK
  BY DEF Init, LoopTypeOK
<1>2. StreamTypeOK
  BY NoTurnIsTyped DEF Init, StreamTypeOK
<1>3. WithinBudgets
  BY ClientAssumption DEF Init, WithinBudgets
<1>4. QED
  BY <1>1, <1>2, <1>3 DEF LoopInv

LEMMA LoopInvClientStep == LoopInv /\ ClientStep => LoopInv'
<1> SUFFICES ASSUME LoopInv, ClientStep PROVE LoopInv'
  OBVIOUS
<1> USE DEF LoopInv, LoopTypeOK, WithinBudgets, loop, call
<1>1. CASE LoopHead
  <2>1. turn' \in {turn, NoTurn} /\ sent' = sent
    BY <1>1 DEF LoopHead
  <2>2. StreamTypeOK'
    BY <2>1, NoTurnIsTyped DEF StreamTypeOK
  <2>3. /\ at = "hop" /\ {received', residue', skipNext'} \subseteq BOOLEAN
        /\ UNCHANGED <<hop, incompleteRetries, nudged, pending, lastCtx, cancel, startLen>>
    BY <1>1 DEF LoopHead
  <2>4. /\ \/ at' = "idle" /\ attempt' = attempt
           \/ at' = "attempt" /\ attempt' = 1 /\ ~OutOfHops
        /\ lastError' \in {lastError, "hops", "cancelled"}
        /\ outcome' \in {outcome, "failed", "exhausted"}
    BY <1>1 DEF LoopHead, Finish, Fail
  <2>5. LoopTypeOK' /\ WithinBudgets'
    BY <2>3, <2>4, ClientAssumption DEF OutOfHops
  <2>6. QED
    BY <2>2, <2>5
<1>2. CASE Post
  <2>1. turn' = turn /\ sent' \in {sent, NothingSent}
    BY <1>2 DEF Post
  <2>2. StreamTypeOK'
    BY <2>1, NoTurnIsTyped DEF StreamTypeOK
  <2>3. LoopTypeOK' /\ WithinBudgets'
    <3>1. /\ at = "attempt" /\ at' \in {"attempt", "stream", "idle"}
          /\ lastError' \in {lastError, "http", "status", "cancelled"}
          /\ outcome' \in {outcome, "failed"}
          /\ UNCHANGED <<hop, incompleteRetries, nudged, pending, received, skipNext,
                         lastCtx, cancel, startLen>>
      BY <1>2 DEF Post, RetryOrFail, Finish, Fail
    <3>2. /\ residue' \in BOOLEAN
          /\ attempt' = attempt \/ (attempt <= HttpRetries /\ attempt' = attempt + 1)
      BY <1>2 DEF Post, RetryOrFail, NextAttempt, Finish, Fail
    <3>3. QED
      BY <3>1, <3>2, ClientAssumption
  <2>4. QED
    BY <2>2, <2>3
<1>3. ASSUME NEW e \in Event, Receive(e) PROVE LoopInv'
  <2>1. /\ turn' \in {turn, Heard(e), [Heard(e) EXCEPT !.calls = 0, !.finish = "stop"]}
        /\ sent' = Sent(e)
    BY <1>3 DEF Receive
  <2>2. StreamTypeOK'
    BY <2>1, EventsAreTyped, ClientAssumption DEF StreamTypeOK
  <2>3. /\ at = "stream" /\ at' \in {"stream", "judge"}
        /\ {received', residue', skipNext'} \subseteq BOOLEAN
        /\ lastError' \in {lastError, "runaway"}
        /\ UNCHANGED <<hop, incompleteRetries, nudged, pending, attempt, lastCtx,
                       cancel, outcome, startLen>>
    BY <1>3 DEF Receive, Skipped
  <2>4. LoopTypeOK' /\ WithinBudgets'
    BY <2>3
  <2>5. QED
    BY <2>2, <2>4
<1>4. CASE CancelStream
  BY <1>4 DEF CancelStream, Fail, Finish, stream, StreamTypeOK
<1>5. CASE BreakOff
  <2>1. UNCHANGED <<turn, sent>>
    BY <1>5 DEF BreakOff
  <2>2. LoopTypeOK' /\ WithinBudgets'
    BY <1>5, ClientAssumption
    DEF BreakOff, RetryOrFail, NextAttempt, Retryable, Finish, Fail
  <2>3. QED
    BY <2>1, <2>2 DEF StreamTypeOK
<1>6. CASE Complete
  BY <1>6 DEF Complete, Fail, Finish, stream, StreamTypeOK
<1>7. CASE RetryTurn
  BY <1>7, ClientAssumption DEF RetryTurn, RetryDue, NudgeDue, stream, StreamTypeOK
<1>8. CASE GiveUp
  BY <1>8 DEF GiveUp, Finish, stream, StreamTypeOK
<1>9. turn.ctx \in {"unknown", "low", "full"} /\ turn.calls \in Nat
  BY DEF StreamTypeOK, Turn
<1>10. CASE StopAtCeiling
  BY <1>9, <1>10 DEF StopAtCeiling, Keep, Finish, stream, StreamTypeOK
<1>11. CASE Answer
  BY <1>9, <1>11 DEF Answer, Keep, Finish, stream, StreamTypeOK
<1>12. CASE StartTools
  BY <1>9, <1>12 DEF StartTools, Asks, CallsToRun, Keep, Finish, stream, StreamTypeOK
<1>13. CASE DispatchTool
  BY <1>13, ClientAssumption DEF DispatchTool, stream, StreamTypeOK
<1>14. QED
  BY <1>1, <1>2, <1>3, <1>4, <1>5, <1>6, <1>7, <1>8, <1>10, <1>11, <1>12, <1>13
  DEF ClientStep, OwnStep

LEMMA LoopInvCallerStep ==
  MessagesTypeOK' /\ LoopInv /\ CallerStep => LoopInv'
<1> SUFFICES ASSUME MessagesTypeOK', LoopInv, CallerStep PROVE LoopInv'
  OBVIOUS
<1>1. Len(history') \in Nat
  BY DEF MessagesTypeOK
<1>2. ASSUME NEW h, Enter(h), history' = h PROVE LoopInv'
  <2>1. startLen' \in Nat
    BY <1>1, <1>2 DEF Enter
  <2>2. UNCHANGED <<turn, sent, received, residue, skipNext, lastCtx, cancel, attempt>>
    BY <1>2 DEF Enter, stream
  <2>3. LoopTypeOK'
    BY <1>2, <2>1, <2>2 DEF Enter, LoopInv, LoopTypeOK
  <2>4. WithinBudgets'
    BY <1>2, <2>2, ClientAssumption DEF Enter, LoopInv, WithinBudgets
  <2>5. StreamTypeOK'
    BY <2>2 DEF LoopInv, StreamTypeOK
  <2>6. QED
    BY <2>3, <2>4, <2>5 DEF LoopInv
<1>3. ASSUME NEW h, SetHistory(h), history' = h,
             lastCtx' \in {lastCtx, "unknown"}
      PROVE  LoopInv'
  <2>1. startLen' \in Nat
    BY <1>1, <1>3 DEF SetHistory
  <2>2. QED
    BY <1>3, <2>1
    DEF SetHistory, LoopInv, LoopTypeOK, StreamTypeOK, WithinBudgets, stream, loop
<1>4. CASE Chat
  BY <1>2, <1>4 DEF Chat, Enter
<1>5. CASE ChatContinue
  BY <1>2, <1>5 DEF ChatContinue, Enter
<1>6. CASE RequestCancel \/ ClearCancel
  BY <1>6 DEF RequestCancel, ClearCancel, LoopInv, LoopTypeOK, StreamTypeOK,
              WithinBudgets, stream, loop, call
<1>7. CASE ClearHistory
  BY <1>3, <1>7 DEF ClearHistory, SetHistory
<1>8. ASSUME NEW h \in SavedHistories, LoadHistory(h) PROVE LoopInv'
  BY <1>3, <1>8 DEF LoadHistory, SetHistory
<1>9. QED
  BY <1>4, <1>5, <1>6, <1>7, <1>8 DEF CallerStep

LEMMA LoopInvStutter == LoopInv /\ UNCHANGED vars => LoopInv'
BY DEF LoopInv, LoopTypeOK, StreamTypeOK, WithinBudgets, vars, stream, loop, call
-----------------------------------------------------------------------------
(* The conversation.  What a call found stays in front of what it adds.    *)
KeptInv ==
  /\ MessagesTypeOK
  /\ EarlierTurnsKept
  /\ outcome = "incomplete" => at = "idle" /\ history = before

LEMMA AppendKeeps ==
  ASSUME NEW s \in Seq(Message), NEW b \in Seq(Message), NEW e \in Message,
         Len(b) <= Len(s), SubSeq(s, 1, Len(b)) = b
  PROVE  /\ Append(s, e) \in Seq(Message)
         /\ Len(b) <= Len(Append(s, e)) /\ SubSeq(Append(s, e), 1, Len(b)) = b
<1>1. /\ Len(b) \in Nat /\ Len(s) \in Nat /\ Append(s, e) \in Seq(Message)
      /\ Len(Append(s, e)) = Len(s) + 1
      /\ \A i \in 1 .. Len(s) : Append(s, e)[i] = s[i]
  OBVIOUS
<1>2. \A i \in 1 .. Len(b) : b[i] = s[i]
  <2> TAKE i \in 1 .. Len(b)
  <2>1. SubSeq(s, 1, Len(b))[i] = s[i]
    BY <1>1
  <2>2. QED
    BY <2>1
<1>3. /\ SubSeq(Append(s, e), 1, Len(b)) \in Seq(Message)
      /\ Len(SubSeq(Append(s, e), 1, Len(b))) = Len(b)
      /\ \A i \in 1 .. Len(b) : SubSeq(Append(s, e), 1, Len(b))[i] = Append(s, e)[i]
  <2>1. \A i \in 1 .. Len(b) : Append(s, e)[i] \in Message
    BY <1>1
  <2>2. QED
    BY <1>1, <2>1, SubSeqProperties
<1>4. \A i \in 1 .. Len(b) : SubSeq(Append(s, e), 1, Len(b))[i] = b[i]
  BY <1>1, <1>2, <1>3
<1>5. SubSeq(Append(s, e), 1, Len(b)) = b
  BY <1>1, <1>3, <1>4, SeqEqual
<1>6. QED
  BY <1>1, <1>5

LEMMA AllOfIt ==
  ASSUME NEW s \in Seq(Message)
  PROVE  Len(s) \in Nat /\ SubSeq(s, 1, Len(s)) = s
<1>1. Len(s) \in Nat /\ \A i \in 1 .. Len(s) : s[i] \in Message
  OBVIOUS
<1>2. /\ SubSeq(s, 1, Len(s)) \in Seq(Message) /\ Len(SubSeq(s, 1, Len(s))) = Len(s)
      /\ \A i \in 1 .. Len(s) : SubSeq(s, 1, Len(s))[i] = s[i]
  BY <1>1, SubSeqProperties
<1>3. QED
  BY <1>1, <1>2, SeqEqual

LEMMA KeptInit == Init => KeptInv
<1> SUFFICES ASSUME Init PROVE KeptInv
  OBVIOUS
<1>1. history = <<>> /\ before = <<>> /\ outcome = "none"
  BY DEF Init
<1>2. <<>> \in Seq(Message)
  OBVIOUS
<1>3. QED
  BY <1>1, <1>2, AllOfIt DEF KeptInv, MessagesTypeOK, EarlierTurnsKept

(* A step of the call pushes a message, leaves the conversation alone, or  *)
(* gives up and rolls back.                                                *)
LEMMA ClientStepWrites ==
  ASSUME LoopInv, ClientStep
  PROVE  /\ before' = before /\ startLen' = startLen /\ at # "idle"
         /\ \/ GiveUp
            \/ /\ \/ history' = history
                  \/ \E m \in Message : history' = Append(history, m)
               /\ outcome' # "incomplete" \/ outcome' = outcome
<1>1. turn.calls \in Nat
  BY DEF LoopInv, StreamTypeOK, Turn
<1>2. LoopHead \/ Post \/ (\E e \in Event : Receive(e)) \/ CancelStream \/ BreakOff
      \/ Complete
        => /\ UNCHANGED <<before, startLen, history>> /\ at # "idle"
           /\ outcome' # "incomplete" \/ outcome' = outcome
  BY DEF LoopHead, Post, Receive, CancelStream, BreakOff, Complete, RetryOrFail,
         Finish, Fail, call
<1>3. CASE RetryTurn
  <2>1. Nudge \in Message
    BY DEF Nudge, Plain, Message, Roles
  <2>2. QED
    BY <1>3, <2>1 DEF RetryTurn, Push, call
<1>4. CASE GiveUp
  BY <1>4 DEF GiveUp, call
<1>5. CASE StopAtCeiling \/ Answer \/ StartTools
  <2>1. [role |-> "assistant", calls |-> turn.calls] \in Message
    BY <1>1 DEF Message, Roles
  <2>2. Keep /\ (outcome' # "incomplete" \/ outcome' = outcome)
    BY <1>5 DEF StopAtCeiling, Answer, StartTools, Finish
  <2>3. QED
    BY <1>5, <2>1, <2>2 DEF StopAtCeiling, Answer, StartTools, Finish, Keep, Push, call
<1>6. CASE DispatchTool
  <2>1. ToolMessage \in Message
    BY DEF ToolMessage, Plain, Message, Roles
  <2>2. QED
    BY <1>6, <2>1 DEF DispatchTool, Push, call
<1>7. QED
  BY <1>2, <1>3, <1>4, <1>5, <1>6 DEF ClientStep, OwnStep

LEMMA KeptClientStep == LoopInv /\ KeptInv /\ ClientStep => KeptInv'
<1> SUFFICES ASSUME LoopInv, KeptInv, ClientStep PROVE KeptInv'
  OBVIOUS
<1>1. /\ history \in Seq(Message) /\ before \in Seq(Message)
      /\ Len(before) <= Len(history) /\ SubSeq(history, 1, Len(before)) = before
  BY DEF KeptInv, MessagesTypeOK, EarlierTurnsKept
<1>2. before' = before /\ at # "idle"
  BY ClientStepWrites
<1>3. CASE GiveUp
  <2>1. history' = before /\ at' = "idle"
    BY <1>1, <1>3 DEF GiveUp, RolledBack, Finish
  <2>2. QED
    BY <1>1, <1>2, <2>1, AllOfIt DEF KeptInv, MessagesTypeOK, EarlierTurnsKept
<1>4. CASE ~GiveUp
  <2>1. outcome' # "incomplete"
    BY <1>2, <1>4, ClientStepWrites DEF KeptInv
  <2>2. CASE history' = history
    BY <1>1, <1>2, <2>1, <2>2 DEF KeptInv, MessagesTypeOK, EarlierTurnsKept
  <2>3. ASSUME NEW m \in Message, history' = Append(history, m) PROVE KeptInv'
    BY <1>1, <1>2, <2>1, <2>3, AppendKeeps DEF KeptInv, MessagesTypeOK, EarlierTurnsKept
  <2>4. QED
    BY <1>4, <2>2, <2>3, ClientStepWrites
<1>5. QED
  BY <1>3, <1>4

LEMMA KeptCallerStep == LoopInv /\ KeptInv /\ CallerStep => KeptInv'
<1> SUFFICES ASSUME LoopInv, KeptInv, CallerStep PROVE KeptInv'
  OBVIOUS
<1>1. history \in Seq(Message) /\ before \in Seq(Message)
  BY DEF KeptInv, MessagesTypeOK
<1>2. ASSUME NEW h \in Seq(Message), before' = h, history' = h, outcome' = "none"
      PROVE  KeptInv'
  BY <1>2, AllOfIt DEF KeptInv, MessagesTypeOK, EarlierTurnsKept
<1>3. CASE Chat
  <2>1. UserMessage \in Message
    BY DEF UserMessage, Plain, Message, Roles
  <2>2. before' = history /\ history' = Append(history, UserMessage) /\ outcome' = "none"
    BY <1>3 DEF Chat, Enter
  <2>3. QED
    BY <1>1, <2>1, <2>2, AllOfIt, AppendKeeps
    DEF KeptInv, MessagesTypeOK, EarlierTurnsKept
<1>4. CASE ChatContinue
  BY <1>1, <1>2, <1>4 DEF ChatContinue, Enter
<1>5. CASE RequestCancel \/ ClearCancel
  BY <1>5 DEF RequestCancel, ClearCancel, call, KeptInv, MessagesTypeOK, EarlierTurnsKept
<1>6. CASE ClearHistory
  <2>1. <<>> \in Seq(Message)
    OBVIOUS
  <2>2. QED
    BY <1>2, <1>6, <2>1 DEF ClearHistory, SetHistory
<1>7. ASSUME NEW h \in SavedHistories, LoadHistory(h) PROVE KeptInv'
  <2>1. h \in Seq(Message)
    BY SavedAssumption
  <2>2. QED
    BY <1>2, <1>7, <2>1 DEF LoadHistory, SetHistory
<1>8. QED
  BY <1>3, <1>4, <1>5, <1>6, <1>7 DEF CallerStep

(* The two invariants hold together: the loop needs typed messages, the    *)
(* conversation a typed turn.                                              *)
LEMMA ClientInvariant == Spec => [](LoopInv /\ KeptInv)
<1>1. KeptInv /\ UNCHANGED vars => KeptInv'
  BY DEF KeptInv, MessagesTypeOK, EarlierTurnsKept, vars, call
<1>2. LoopInv /\ KeptInv /\ CallerStep => LoopInv'
  BY KeptCallerStep, LoopInvCallerStep DEF KeptInv
<1>3. LoopInv /\ KeptInv /\ [Next]_vars => LoopInv' /\ KeptInv'
  BY <1>1, <1>2, LoopInvStutter, LoopInvClientStep, KeptClientStep, KeptCallerStep
  DEF Next
<1>4. QED
  BY LoopInvInit, KeptInit, <1>3, PTL DEF Spec

(* Every variable keeps its type, for every setting and every server.      *)
THEOREM ClientTyped == Spec => []TypeOK
<1>1. LoopInv /\ KeptInv => TypeOK
  BY DEF LoopInv, KeptInv, TypeOK
<1>2. QED
  BY ClientInvariant, <1>1, PTL

(* Hops, attempts and retries stay within their budgets, whatever the      *)
(* budgets are and whatever the server sends.                              *)
THEOREM ClientBudgetsHold == Spec => []WithinBudgets
<1>1. LoopInv => WithinBudgets
  BY DEF LoopInv
<1>2. QED
  BY ClientInvariant, <1>1, PTL

(* No call, failed or rolled back, changes a message that was there before *)
(* it.                                                                     *)
THEOREM HistoryIsOnlyExtended == Spec => []EarlierTurnsKept
<1>1. KeptInv => EarlierTurnsKept
  BY DEF KeptInv
<1>2. QED
  BY ClientInvariant, <1>1, PTL

(* The rollback of an incomplete turn leaves nothing of the call behind.   *)
THEOREM RollbackIsComplete == Spec => []IncompleteLeavesNoTrace
<1>1. KeptInv => IncompleteLeavesNoTrace
  BY DEF KeptInv, IncompleteLeavesNoTrace
<1>2. QED
  BY ClientInvariant, <1>1, PTL
-----------------------------------------------------------------------------
(* The stream.  A turn is judged whole because it is empty whenever a post *)
(* may still be retried, and because bytes of an earlier attempt garble    *)
(* the first event only, which never carries a part of the turn.  With     *)
(* progress ticks that first event is not the summary's either, and the    *)
(* flag that drops the repeated summary is up exactly when it arrives.     *)
PartsMatch ==
  /\ at = "stream" => turn.shown = sent.shown /\ turn.calls = sent.calls
  /\ at = "judge" =>
       /\ turn.shown = sent.shown
       /\ turn.calls = sent.calls \/ (Runaway(turn) /\ turn.calls = 0)
  /\ at \in {"stream", "judge"} =>
       sent.calls <= sent.events /\ sent.events <= MaxEvents
ThoughtsMatch ==
  /\ at \in {"stream", "judge"} => turn.thoughts = sent.thoughts
  /\ at = "stream" /\ sent.events = 2 => skipNext
  /\ at = "stream" /\ sent.events > 2 => ~skipNext
StreamInv ==
  /\ at = "attempt" => ~received
  /\ at \in {"attempt", "stream"} /\ ~received => turn = NoTurn
  /\ at = "stream" /\ residue => sent.events = 0
  /\ PartsMatch
  /\ SendPromptProgress => ThoughtsMatch

(* The parts of a turn and of what was sent, one event later.              *)
LEMMA EventParts ==
  ASSUME StreamTypeOK, NEW e \in Event
  PROVE  /\ {turn.thoughts, turn.shown, turn.calls, sent.thoughts, sent.shown,
             sent.calls, sent.events} \subseteq Nat
         /\ Heard(e).thoughts = IF e.sort \in {"reason", "summary"}
                                  THEN turn.thoughts + 1 ELSE turn.thoughts
         /\ Heard(e).shown = IF e.sort = "content" THEN turn.shown + 1 ELSE turn.shown
         /\ Heard(e).calls = IF e.sort = "call" THEN turn.calls + 1 ELSE turn.calls
         /\ Sent(e).thoughts = IF e.sort = "reason" THEN sent.thoughts + 1
                                 ELSE sent.thoughts
         /\ Sent(e).shown = IF e.sort = "content" THEN sent.shown + 1 ELSE sent.shown
         /\ Sent(e).calls = IF e.sort = "call" THEN sent.calls + 1 ELSE sent.calls
         /\ Sent(e).events = IF e.sort = "final" THEN MaxEvents ELSE sent.events + 1
<1>1. turn \in Turn /\ sent \in [thoughts : Nat, shown : Nat, calls : Nat, events : Nat]
  BY DEF StreamTypeOK
<1>2. {turn.thoughts, turn.shown, turn.calls, sent.thoughts, sent.shown,
       sent.calls, sent.events} \subseteq Nat
  BY <1>1 DEF Turn
<1>3. /\ Heard(e).thoughts = IF e.sort \in {"reason", "summary"}
                               THEN turn.thoughts + 1 ELSE turn.thoughts
      /\ Heard(e).shown = IF e.sort = "content" THEN turn.shown + 1 ELSE turn.shown
      /\ Heard(e).calls = IF e.sort = "call" THEN turn.calls + 1 ELSE turn.calls
  BY <1>1 DEF Heard, Turn
<1>4. /\ Sent(e).thoughts = IF e.sort = "reason" THEN sent.thoughts + 1
                              ELSE sent.thoughts
      /\ Sent(e).shown = IF e.sort = "content" THEN sent.shown + 1 ELSE sent.shown
      /\ Sent(e).calls = IF e.sort = "call" THEN sent.calls + 1 ELSE sent.calls
      /\ Sent(e).events = IF e.sort = "final" THEN MaxEvents ELSE sent.events + 1
  BY <1>1 DEF Sent
<1>5. QED
  BY <1>2, <1>3, <1>4

LEMMA StreamReceive ==
  ASSUME StreamTypeOK, StreamInv, NEW e \in Event, Receive(e)
  PROVE  StreamInv'
<1> DEFINE t == [Heard(e) EXCEPT !.calls = 0, !.finish = "stop"]
<1>1. at = "stream" /\ sent' = Sent(e) /\ sent.events < MaxEvents /\ MaxEvents \in Nat
  BY ClientAssumption DEF Receive, ServerSends
<1>2. /\ e.sort = "tick" <=> sent.events < Ticks
      /\ e.sort = "eval" <=> sent.events = Ticks
      /\ e.sort = "summary" <=> sent.events = Ticks + 1
      /\ Ticks \in {0, 1} /\ (SendPromptProgress => Ticks = 1)
  BY DEF Receive, ServerSends, Ticks
<1>3. /\ turn.shown = sent.shown /\ turn.calls = sent.calls
      /\ sent.calls <= sent.events
  BY <1>1 DEF StreamInv, PartsMatch
<1>4. /\ t.thoughts = Heard(e).thoughts /\ t.shown = Heard(e).shown /\ t.calls = 0
  BY EventsAreTyped, <1>1 DEF Turn
<1>5. sent'.calls <= sent'.events /\ sent'.events <= MaxEvents
  BY <1>1, <1>2, <1>3, EventParts
<1>6. CASE residue
  <2>1. /\ sent.events = 0 /\ turn' = turn /\ at' = "stream"
        /\ residue' = FALSE /\ received' \in {received, TRUE}
    BY <1>1, <1>6 DEF Receive, StreamInv
  <2>2. e.sort \in {"tick", "eval"} /\ (SendPromptProgress => e.sort = "tick")
    BY <1>2, <2>1
  <2>3. /\ sent'.thoughts = sent.thoughts /\ sent'.shown = sent.shown
        /\ sent'.calls = sent.calls /\ sent'.events = 1
    BY <1>1, <2>1, <2>2, EventParts
  <2>4. PartsMatch'
    BY <1>3, <1>5, <2>1, <2>3 DEF PartsMatch
  <2>5. SendPromptProgress => ThoughtsMatch'
    BY <1>1, <2>1, <2>3 DEF StreamInv, ThoughtsMatch
  <2>6. QED
    BY <1>1, <2>1, <2>4, <2>5 DEF StreamInv
<1>7. CASE ~residue /\ ~IsChoice(e)
  <2>0. /\ skipNext' = (skipNext \/ e.sort = "eval")
        /\ UNCHANGED <<at, turn, received, residue, lastError>>
    BY <1>7, Zenon DEF Receive
  <2>1. /\ turn' = turn /\ at' = "stream" /\ ~residue' /\ received' = received
        /\ (e.sort = "eval" => skipNext')
    BY <1>1, <1>7, <2>0
  <2>2. e.sort \in {"tick", "eval"}
    BY <1>7 DEF IsChoice
  <2>3. /\ sent'.thoughts = sent.thoughts /\ sent'.shown = sent.shown
        /\ sent'.calls = sent.calls /\ sent'.events = sent.events + 1
    BY <1>1, <2>2, EventParts
  <2>4. PartsMatch'
    BY <1>3, <1>5, <2>1, <2>3 DEF PartsMatch
  <2>5. ASSUME SendPromptProgress PROVE ThoughtsMatch'
    <3>1. sent.events \in Nat /\ sent.events <= 1 /\ (sent.events = 1 => e.sort = "eval")
      BY <1>2, <2>2, <2>5, EventParts
    <3>2. turn.thoughts = sent.thoughts
      BY <1>1, <2>5 DEF StreamInv, ThoughtsMatch
    <3>3. sent'.events = 2 => skipNext'
      BY <2>1, <2>3, <3>1
    <3>4. QED
      BY <2>3, <3>1, <3>2, <3>3, <2>1 DEF ThoughtsMatch
  <2>6. QED
    BY <1>1, <2>1, <2>4, <2>5 DEF StreamInv
<1>8. CASE ~residue /\ IsChoice(e) /\ Skipped(e)
  <2>0. /\ skipNext' = FALSE /\ received' = TRUE
        /\ UNCHANGED <<at, turn, residue, lastError>>
    BY <1>8, Zenon DEF Receive
  <2>1. /\ turn' = turn /\ at' = "stream" /\ ~residue' /\ received'
        /\ ~skipNext' /\ skipNext /\ e.sort \in {"reason", "summary"}
    BY <1>1, <1>8, <2>0 DEF Skipped
  <2>2. /\ sent'.shown = sent.shown /\ sent'.calls = sent.calls
        /\ sent'.events = sent.events + 1
        /\ (e.sort = "summary" => sent'.thoughts = sent.thoughts)
    BY <1>1, <2>1, EventParts
  <2>3. PartsMatch'
    BY <1>3, <1>5, <2>1, <2>2 DEF PartsMatch
  <2>4. ASSUME SendPromptProgress PROVE ThoughtsMatch'
    <3>1. sent.events \in Nat /\ e.sort = "summary" /\ sent.events = 2
      BY <1>1, <1>2, <2>1, <2>4, EventParts DEF StreamInv, ThoughtsMatch
    <3>2. turn.thoughts = sent.thoughts
      BY <1>1, <2>4 DEF StreamInv, ThoughtsMatch
    <3>3. QED
      BY <2>1, <2>2, <3>1, <3>2 DEF ThoughtsMatch
  <2>5. QED
    BY <1>1, <2>1, <2>3, <2>4 DEF StreamInv
<1>9. CASE ~residue /\ IsChoice(e) /\ ~Skipped(e)
  <2>0. /\ received' = TRUE /\ UNCHANGED <<residue, skipNext>>
        /\ IF e.sort = "reason" /\ Runaway(Heard(e))
             THEN turn' = t /\ lastError' = "runaway" /\ at' = "judge"
             ELSE turn' = Heard(e) /\ UNCHANGED <<at, lastError>>
    BY <1>9, Zenon DEF Receive
  <2>1. /\ ~residue' /\ received' /\ skipNext' = skipNext
        /\ \/ at' = "judge" /\ turn' = t /\ Runaway(Heard(e)) /\ e.sort = "reason"
           \/ at' = "stream" /\ turn' = Heard(e)
    BY <1>1, <1>9, <2>0
  <2>2. e.sort \notin {"tick", "eval"}
    BY <1>9 DEF IsChoice
  <2>3. PartsMatch'
    <3>1. CASE at' = "stream" /\ turn' = Heard(e)
      BY <1>1, <1>3, <1>5, <3>1, EventParts DEF PartsMatch
    <3>2. CASE at' = "judge" /\ turn' = t /\ Runaway(Heard(e)) /\ e.sort = "reason"
      <4>1. Runaway(turn)' /\ turn'.calls = 0 /\ turn'.shown = sent'.shown
        BY <1>1, <1>3, <1>4, <3>2, EventParts DEF Runaway
      <4>2. QED
        BY <1>5, <3>2, <4>1 DEF PartsMatch
    <3>3. QED
      BY <2>1, <3>1, <3>2
  <2>4. ASSUME SendPromptProgress PROVE ThoughtsMatch'
    <3>1. sent.events \in Nat /\ sent.events > 1 /\ turn.thoughts = sent.thoughts
      BY <1>1, <1>2, <2>2, <2>4, EventParts DEF StreamInv, ThoughtsMatch
    <3>2. e.sort # "summary" /\ sent.events > 2 /\ ~skipNext
      BY <1>1, <1>2, <1>9, <2>4, <3>1 DEF Skipped, StreamInv, ThoughtsMatch
    <3>3. turn'.thoughts = sent'.thoughts
      BY <1>1, <1>4, <2>1, <3>1, <3>2, EventParts
    <3>4. sent'.events > 2
      BY <1>1, <3>1, <3>2, EventParts
    <3>5. QED
      BY <2>1, <3>2, <3>3, <3>4 DEF ThoughtsMatch
  <2>5. QED
    BY <2>1, <2>3, <2>4 DEF StreamInv
<1>10. QED
  BY <1>6, <1>7, <1>8, <1>9

(* No other step touches what a turn is made of while it is received.      *)
LEMMA StreamStep ==
  ASSUME StreamTypeOK, StreamInv, [Next]_vars
  PROVE  StreamInv'
<1> USE DEF StreamInv, PartsMatch, ThoughtsMatch
<1>1. ASSUME at' \notin {"attempt", "stream", "judge"} PROVE StreamInv'
  BY <1>1
<1>2. ASSUME UNCHANGED <<at, stream>> PROVE StreamInv'
  BY <1>2 DEF stream, Runaway
<1>3. CASE LoopHead
  BY <1>3 DEF LoopHead, Finish, Fail
<1>4. CASE Post
  <2>1. CASE at' = "attempt"
    BY <1>4, <2>1 DEF Post
  <2>2. CASE at' = "stream"
    <3>1. /\ turn' = NoTurn /\ sent' = NothingSent /\ received' = FALSE
      BY <1>4, <2>2 DEF Post, RetryOrFail, Finish, Fail
    <3>2. QED
      BY <2>2, <3>1, ClientAssumption DEF NoTurn, NothingSent
  <2>3. CASE at' = "idle"
    BY <1>1, <2>3
  <2>4. QED
    BY <1>4, <2>1, <2>2, <2>3 DEF Post, RetryOrFail, Finish, Fail
<1>5. ASSUME NEW e \in Event, Receive(e) PROVE StreamInv'
  BY <1>5, StreamReceive
<1>6. CASE BreakOff
  BY <1>6 DEF BreakOff, Retryable, RetryOrFail, Finish, Fail
<1>7. CASE Complete
  <2>1. /\ at = "stream" /\ at' \in {"judge", "idle"} /\ UNCHANGED <<turn, sent>>
    BY <1>7 DEF Complete, Finish, Fail, stream
  <2>2. QED
    BY <2>1
<1>8. CancelStream \/ RetryTurn \/ GiveUp \/ StopAtCeiling \/ Answer \/ StartTools
      \/ DispatchTool \/ Chat \/ ChatContinue
        => at' \in {"idle", "hop", "tool"}
  BY DEF CancelStream, RetryTurn, GiveUp, StopAtCeiling, Answer, StartTools,
         DispatchTool, Chat, ChatContinue, Enter, Finish, Fail
<1>9. RequestCancel \/ ClearCancel \/ ClearHistory
      \/ (\E h \in SavedHistories : LoadHistory(h)) \/ UNCHANGED vars
        => UNCHANGED <<at, stream>>
  BY DEF RequestCancel, ClearCancel, ClearHistory, LoadHistory, SetHistory, vars
<1>10. QED
  BY <1>1, <1>2, <1>3, <1>4, <1>5, <1>6, <1>7, <1>8, <1>9
  DEF Next, ClientStep, OwnStep, CallerStep

LEMMA StreamInvariant == Spec => []StreamInv
<1>1. Init => StreamInv
  BY DEF Init, StreamInv, PartsMatch, ThoughtsMatch
<1>2. LoopInv /\ StreamInv /\ [Next]_vars => StreamInv'
  BY StreamStep DEF LoopInv
<1>3. QED
  BY ClientInvariant, <1>1, <1>2, PTL DEF Spec

(* A client that keeps the progress ticks on judges whole responses only,  *)
(* however many attempts a post takes and wherever they break off.         *)
THEOREM TurnsAreOneResponse ==
  ASSUME SendPromptProgress
  PROVE  Spec => []TurnIsOneResponse
<1>1. StreamInv => TurnIsOneResponse
  BY DEF StreamInv, PartsMatch, ThoughtsMatch, TurnIsOneResponse
<1>2. QED
  BY StreamInvariant, <1>1, PTL
-----------------------------------------------------------------------------
(* The contract.  A hop owes no more results than a response has events.   *)
LEMMA ContractClientStep ==
  LoopInv /\ StreamInv /\ ClientStep => [Contract!Next]_(Contract!vars)
<1> SUFFICES ASSUME LoopInv, StreamInv, ClientStep
             PROVE  [Contract!Next]_(Contract!vars)
  OBVIOUS
<1> USE DEF Contract!vars, loop
<1>1. /\ hop \in Nat /\ pending \in Nat /\ (at = "tool" <=> pending > 0)
      /\ at \in {"attempt", "stream", "judge", "tool"} => hop < MaxToolHops
      /\ MaxToolHops \in Nat
  BY ClientAssumption DEF LoopInv, LoopTypeOK, WithinBudgets
<1>2. ASSUME at # "idle", at' # "idle", UNCHANGED <<hop, pending>>
      PROVE  [Contract!Next]_(Contract!vars)
  BY <1>2
<1>3. ASSUME at \notin {"idle", "tool"}, at' = "idle", UNCHANGED <<hop, pending>>
      PROVE  [Contract!Next]_(Contract!vars)
  BY <1>1, <1>3 DEF Contract!Next, Contract!Work, Contract!Return
<1>4. LoopHead \/ Post \/ (\E e \in Event : Receive(e)) \/ CancelStream \/ BreakOff
      \/ Complete \/ GiveUp
        => at \notin {"idle", "tool"} /\ UNCHANGED <<hop, pending>>
  BY DEF LoopHead, Post, Receive, CancelStream, BreakOff, Complete, GiveUp
<1>5. CASE RetryTurn
  BY <1>1, <1>5 DEF RetryTurn, Contract!Next, Contract!Work, Contract!EndRound
<1>6. CASE StopAtCeiling \/ Answer
  BY <1>3, <1>6 DEF StopAtCeiling, Answer, Keep, Finish
<1>7. CASE StartTools
  <2>1. /\ at = "judge" /\ at' = "tool" /\ pending' = turn.calls /\ hop' = hop
        /\ turn.calls > 0
    BY <1>7 DEF StartTools, Keep, Asks, CallsToRun
  <2>2. turn.calls \in Nat /\ sent.calls \in Nat /\ sent.events \in Nat /\ MaxEvents \in Nat
    BY ClientAssumption DEF LoopInv, StreamTypeOK, Turn
  <2>3. turn.calls <= MaxEvents
    BY <2>1, <2>2 DEF StreamInv, PartsMatch
  <2>4. pending = 0 /\ pending' \in 1 .. MaxEvents /\ hop < MaxToolHops
    BY <1>1, <2>1, <2>2, <2>3
  <2>5. QED
    BY <2>1, <2>4 DEF Contract!Next, Contract!Work, Contract!OweResults
<1>8. CASE DispatchTool
  <2>1. at = "tool" /\ pending > 0 /\ hop < MaxToolHops /\ pending' = pending - 1
    BY <1>1, <1>8 DEF DispatchTool
  <2>2. CASE pending' = 0
    <3>1. at' = "hop" /\ hop' = hop + 1 /\ pending <= 1
      BY <1>1, <1>8, <2>1, <2>2 DEF DispatchTool
    <3>2. QED
      BY <1>1, <2>1, <2>2, <3>1 DEF Contract!Next, Contract!Work, Contract!EndRound
  <2>3. CASE pending' # 0
    <3>1. UNCHANGED <<at, hop>> /\ pending > 1
      BY <1>1, <1>8, <2>1, <2>3 DEF DispatchTool
    <3>2. QED
      BY <2>1, <3>1 DEF Contract!Next, Contract!Work, Contract!GiveResult
  <2>4. QED
    BY <2>2, <2>3
<1>9. QED
  BY <1>2, <1>3, <1>4, <1>5, <1>6, <1>7, <1>8 DEF ClientStep, OwnStep

LEMMA ContractCallerStep == LoopInv /\ CallerStep => [Contract!Next]_(Contract!vars)
<1> SUFFICES ASSUME LoopInv, CallerStep PROVE [Contract!Next]_(Contract!vars)
  OBVIOUS
<1> USE DEF Contract!vars
<1>1. ASSUME NEW h, Enter(h) PROVE [Contract!Next]_(Contract!vars)
  BY <1>1 DEF Enter, Contract!Next, Contract!Begin
<1>2. CASE Chat \/ ChatContinue
  BY <1>1, <1>2 DEF Chat, ChatContinue
<1>3. RequestCancel \/ ClearCancel \/ ClearHistory
      \/ (\E h \in SavedHistories : LoadHistory(h))
        => UNCHANGED <<at, hop, pending>>
  BY DEF RequestCancel, ClearCancel, ClearHistory, LoadHistory, SetHistory, loop
<1>4. QED
  BY <1>2, <1>3 DEF CallerStep

(* Attempts, broken streams, retries and rollbacks stay inside the         *)
(* contract of the engine's own loop.                                      *)
THEOREM ClientStepsLikeAgentTurn == Spec => StepsLikeAgentTurn
<1>1. Init => Contract!Init
  BY DEF Init, Contract!Init
<1>2. UNCHANGED vars => UNCHANGED Contract!vars
  BY DEF vars, loop, Contract!vars
<1>3. LoopInv /\ StreamInv /\ [Next]_vars => [Contract!Next]_(Contract!vars)
  BY <1>2, ContractClientStep, ContractCallerStep DEF Next
<1>4. QED
  BY ClientInvariant, StreamInvariant, <1>1, <1>3, PTL
  DEF Spec, StepsLikeAgentTurn, Contract!Safety
-----------------------------------------------------------------------------
(* Every tool message answers a call.  While tools run, the message that   *)
(* asked covers the results given and those still to come.                 *)
Covered(h, n) ==
  \E j \in startLen + 1 .. Len(h) :
    /\ h[j].role = "assistant" /\ h[j].calls >= Len(h) - j + n
    /\ \A k \in j + 1 .. Len(h) : h[k].role = "tool"
ToolInv ==
  /\ ToolMessagesAnswerCalls
  /\ Len(before) <= startLen
  /\ at # "idle" => startLen <= Len(history)
  /\ at = "tool" => Covered(history, pending)

(* Appending a message answers what was answered before.                   *)
LEMMA StillAnswered ==
  ASSUME history \in Seq(Message), ToolMessagesAnswerCalls, startLen \in Nat,
         NEW m \in Message, history' = Append(history, m), startLen' = startLen,
         m.role = "tool" => Covered(history, 1)
  PROVE  ToolMessagesAnswerCalls'
<1>1. /\ Len(history) \in Nat /\ Len(history') = Len(history) + 1
      /\ history'[Len(history')] = m
      /\ \A i \in 1 .. Len(history) : history'[i] = history[i]
  OBVIOUS
<1>2. ASSUME NEW i \in startLen' + 1 .. Len(history'), history'[i].role = "tool"
      PROVE  AnswersACall(i)'
  <2>1. PICK j \in startLen + 1 .. i - 1 :
          /\ j <= Len(history) /\ history[j].role = "assistant"
          /\ history[j].calls >= i - j
          /\ \A k \in j + 1 .. i - 1 : history[k].role = "tool"
    <3>1. CASE i = Len(history')
      <4>1. Covered(history, 1) /\ i - 1 = Len(history)
        BY <1>1, <1>2, <3>1
      <4>2. PICK j \in startLen + 1 .. Len(history) :
              /\ history[j].role = "assistant"
              /\ history[j].calls >= Len(history) - j + 1
              /\ \A k \in j + 1 .. Len(history) : history[k].role = "tool"
        BY <4>1 DEF Covered
      <4>3. Len(history) - j + 1 = i - j
        BY <1>1, <4>1
      <4>4. QED
        BY <1>1, <4>1, <4>2, <4>3
    <3>2. CASE i # Len(history')
      <4>1. i \in startLen + 1 .. Len(history) /\ history[i].role = "tool"
        BY <1>1, <1>2, <3>2
      <4>2. AnswersACall(i)
        BY <4>1 DEF ToolMessagesAnswerCalls
      <4>3. \A j \in startLen + 1 .. i - 1 : j <= Len(history)
        BY <1>1, <4>1
      <4>4. QED
        BY <4>2, <4>3 DEF AnswersACall
    <3>3. QED
      BY <3>1, <3>2
  <2>2. \A k \in j .. i - 1 : k \in 1 .. Len(history)
    BY <1>1, <1>2, <2>1
  <2>3. \A k \in j .. i - 1 : history'[k] = history[k]
    BY <1>1, <2>2
  <2>4. j \in j .. i - 1 /\ \A k \in j + 1 .. i - 1 : k \in j .. i - 1
    BY <1>2, <2>1
  <2>5. /\ history'[j].role = "assistant" /\ history'[j].calls >= i - j
        /\ \A k \in j + 1 .. i - 1 : history'[k].role = "tool"
    BY <2>1, <2>3, <2>4
  <2>6. j \in startLen' + 1 .. i - 1
    BY <2>1
  <2>7. QED
    BY <2>5, <2>6 DEF AnswersACall
<1>3. QED
  BY <1>2 DEF ToolMessagesAnswerCalls

LEMMA ToolFrame ==
  ASSUME UNCHANGED <<history, startLen>>
  PROVE  ToolMessagesAnswerCalls' <=> ToolMessagesAnswerCalls
<1>1. history' = history /\ startLen' = startLen
  OBVIOUS
<1>2. \A i : AnswersACall(i)' <=> AnswersACall(i)
  BY <1>1, Zenon DEF AnswersACall
<1>3. QED
  BY <1>1, <1>2, Zenon DEF ToolMessagesAnswerCalls

LEMMA ToolClientStep ==
  LoopInv /\ KeptInv /\ ToolInv /\ ClientStep => ToolInv'
<1> SUFFICES ASSUME LoopInv, KeptInv, ToolInv, ClientStep PROVE ToolInv'
  OBVIOUS
<1>1. /\ history \in Seq(Message) /\ before \in Seq(Message) /\ startLen \in Nat
      /\ ToolMessagesAnswerCalls /\ Len(before) <= startLen
      /\ pending \in Nat /\ (at = "tool" <=> pending > 0)
      /\ turn.calls \in Nat
  BY DEF LoopInv, LoopTypeOK, StreamTypeOK, Turn, WithinBudgets, KeptInv,
         MessagesTypeOK, ToolInv
<1>2. before' = before /\ startLen' = startLen /\ startLen <= Len(history)
  BY ClientStepWrites DEF ToolInv
<1>3. ASSUME UNCHANGED <<history, startLen>>, at' # "tool" PROVE ToolInv'
  BY <1>1, <1>2, <1>3, ToolFrame DEF ToolInv
<1>4. ASSUME NEW m \in Message, history' = Append(history, m), m.role # "tool",
             at' # "tool"
      PROVE  ToolInv'
  <2>1. ToolMessagesAnswerCalls'
    BY <1>1, <1>2, <1>4, StillAnswered
  <2>2. Len(history) \in Nat /\ Len(history') = Len(history) + 1
    BY <1>1, <1>4
  <2>3. QED
    BY <1>1, <1>2, <1>4, <2>1, <2>2 DEF ToolInv
<1>5. LoopHead \/ Post \/ (\E e \in Event : Receive(e)) \/ CancelStream \/ BreakOff
      \/ Complete
        => UNCHANGED <<history, startLen>> /\ at' # "tool"
  BY DEF LoopHead, Post, Receive, CancelStream, BreakOff, Complete, RetryOrFail,
         Finish, Fail, call
<1>6. CASE RetryTurn
  <2>1. Nudge \in Message /\ Nudge.role # "tool"
    BY DEF Nudge, Plain, Message, Roles
  <2>2. /\ history' = history \/ history' = Append(history, Nudge)
        /\ at' # "tool"
    BY <1>6 DEF RetryTurn, Push
  <2>3. QED
    BY <1>2, <1>3, <1>4, <2>1, <2>2
<1>7. CASE GiveUp
  <2>1. history' = before /\ at' = "idle"
    <3>1. history' = SubSeq(history, 1, Len(before)) /\ at' = "idle"
      BY <1>7 DEF GiveUp, RolledBack, Finish
    <3>2. QED
      BY <3>1 DEF KeptInv, EarlierTurnsKept
  <2>2. \A i \in startLen' + 1 .. Len(history') : FALSE
    BY <1>1, <1>2, <2>1
  <2>3. QED
    BY <1>1, <1>2, <2>1, <2>2 DEF ToolInv, ToolMessagesAnswerCalls
<1> DEFINE m == [role |-> "assistant", calls |-> turn.calls]
<1>8. m \in Message /\ m.role # "tool" /\ m.role = "assistant" /\ m.calls = turn.calls
  BY <1>1 DEF Message, Roles
<1>9. CASE StopAtCeiling \/ Answer
  <2>1. history' = Append(history, m) /\ at' # "tool"
    BY <1>9 DEF StopAtCeiling, Answer, Keep, Push, Finish
  <2>2. QED
    BY <1>4, <1>8, <2>1
<1>10. CASE StartTools
  <2>1. history' = Append(history, m) /\ pending' = turn.calls
    BY <1>10 DEF StartTools, Keep, Push, CallsToRun
  <2>2. ToolMessagesAnswerCalls'
    BY <1>1, <1>2, <1>8, <2>1, StillAnswered
  <2>3. /\ Len(history) \in Nat /\ Len(history') = Len(history) + 1
        /\ history'[Len(history')] = m
    BY <1>1, <1>8, <2>1
  <2>4. Covered(history, pending)'
    <3>1. /\ Len(history') \in startLen' + 1 .. Len(history')
          /\ history'[Len(history')].role = "assistant"
          /\ history'[Len(history')].calls >= Len(history') - Len(history') + pending'
          /\ \A k \in Len(history') + 1 .. Len(history') : history'[k].role = "tool"
      BY <1>1, <1>2, <1>8, <2>1, <2>3
    <3>2. QED
      BY <3>1 DEF Covered
  <2>5. QED
    BY <1>1, <1>2, <2>2, <2>3, <2>4 DEF ToolInv
<1>11. CASE DispatchTool
  <2>1. /\ history' = Append(history, ToolMessage) /\ pending' = pending - 1
        /\ at = "tool" /\ (at' = "tool" => pending > 1)
    BY <1>1, <1>11 DEF DispatchTool, Push
  <2>2. ToolMessage \in Message /\ ToolMessage.role = "tool"
    BY DEF ToolMessage, Plain, Message, Roles
  <2>3. /\ Len(history) \in Nat /\ Len(history') = Len(history) + 1
        /\ history'[Len(history')] = ToolMessage
        /\ \A i \in 1 .. Len(history) : history'[i] = history[i]
    BY <1>1, <2>1, <2>2
  <2>4. PICK j \in startLen + 1 .. Len(history) :
          /\ history[j].role = "assistant"
          /\ history[j].calls >= Len(history) - j + pending
          /\ \A k \in j + 1 .. Len(history) : history[k].role = "tool"
    BY <2>1 DEF ToolInv, Covered
  <2>5. j \in 1 .. Len(history) /\ history[j].calls \in Nat /\ pending > 0
    <3>1. j \in 1 .. Len(history)
      BY <1>1, <2>3, <2>4
    <3>2. history[j] \in Message
      BY <1>1, <3>1
    <3>3. QED
      BY <1>1, <2>1, <3>1, <3>2 DEF Message
  <2>6. Covered(history, 1)
    <3>1. history[j].calls >= Len(history) - j + 1
      BY <1>1, <2>3, <2>4, <2>5
    <3>2. QED
      BY <2>4, <3>1 DEF Covered
  <2>7. ToolMessagesAnswerCalls'
    BY <1>1, <1>2, <2>1, <2>2, <2>6, StillAnswered
  <2>8. Covered(history, pending)'
    <3>1. history'[j] = history[j] /\ j \in startLen' + 1 .. Len(history')
      BY <1>1, <1>2, <2>3, <2>4, <2>5
    <3>2. history'[j].calls >= Len(history') - j + pending'
      BY <1>1, <2>1, <2>3, <2>4, <2>5, <3>1
    <3>3. \A k \in j + 1 .. Len(history') : history'[k].role = "tool"
      BY <2>2, <2>3, <2>4, <2>5
    <3>4. QED
      BY <2>4, <3>1, <3>2, <3>3 DEF Covered
  <2>9. QED
    BY <1>1, <1>2, <2>3, <2>7, <2>8 DEF ToolInv
<1>12. QED
  BY <1>2, <1>3, <1>5, <1>6, <1>7, <1>9, <1>10, <1>11 DEF ClientStep, OwnStep

LEMMA ToolCallerStep ==
  LoopInv /\ KeptInv /\ KeptInv' /\ ToolInv /\ CallerStep => ToolInv'
<1> SUFFICES ASSUME LoopInv, KeptInv, KeptInv', ToolInv, CallerStep PROVE ToolInv'
  OBVIOUS
<1>1. /\ Len(history) \in Nat /\ Len(history') \in Nat
      /\ Len(before') <= Len(history')
  BY DEF KeptInv, MessagesTypeOK, EarlierTurnsKept
<1>2. ASSUME startLen' = Len(history'), at' # "tool" PROVE ToolInv'
  BY <1>1, <1>2 DEF ToolInv, ToolMessagesAnswerCalls
<1>3. CASE RequestCancel \/ ClearCancel
  <2>1. UNCHANGED <<history, startLen, at, pending, before>>
    BY <1>3 DEF RequestCancel, ClearCancel, loop, call
  <2>2. Covered(history, pending)' <=> Covered(history, pending)
    BY <2>1, Zenon DEF Covered
  <2>3. QED
    BY <2>1, <2>2, ToolFrame DEF ToolInv
<1>4. CASE Chat \/ ChatContinue
  BY <1>2, <1>4 DEF Chat, ChatContinue, Enter
<1>5. CASE ClearHistory \/ (\E h \in SavedHistories : LoadHistory(h))
  <2>1. at = "idle" /\ at' = at /\ startLen' = Len(history')
    BY <1>5 DEF ClearHistory, LoadHistory, SetHistory
  <2>2. QED
    BY <1>2, <2>1
<1>6. QED
  BY <1>3, <1>4, <1>5 DEF CallerStep

LEMMA ToolInvariant == Spec => []ToolInv
<1>1. Init => ToolInv
  <2> SUFFICES ASSUME Init PROVE ToolInv
    OBVIOUS
  <2>1. /\ history = <<>> /\ before = <<>> /\ startLen = 0 /\ at = "idle"
        /\ Len(<<>>) = 0
    BY DEF Init
  <2>2. QED
    BY <2>1 DEF ToolInv, ToolMessagesAnswerCalls
<1>2. ToolInv /\ UNCHANGED vars => ToolInv'
  <2> SUFFICES ASSUME ToolInv, UNCHANGED vars PROVE ToolInv'
    OBVIOUS
  <2>1. UNCHANGED <<history, startLen, at, pending, before>>
    BY DEF vars, loop, call
  <2>2. Covered(history, pending)' <=> Covered(history, pending)
    BY <2>1, Zenon DEF Covered
  <2>3. QED
    BY <2>1, <2>2, ToolFrame DEF ToolInv
<1>3. LoopInv /\ KeptInv /\ KeptInv' /\ ToolInv /\ [Next]_vars => ToolInv'
  BY <1>2, ToolClientStep, ToolCallerStep DEF Next
<1>4. QED
  BY ClientInvariant, <1>1, <1>3, PTL DEF Spec

(* No tool message of a call stands in the conversation without the        *)
(* assistant message that asked for it, however the call ends.             *)
THEOREM ClientToolMessagesAnswer == Spec => []ToolMessagesAnswerCalls
<1>1. ToolInv => ToolMessagesAnswerCalls
  BY DEF ToolInv
<1>2. QED
  BY ToolInvariant, <1>1, PTL
-----------------------------------------------------------------------------
(* The nudge.  The flag that a call has nudged is what keeps the second    *)
(* one out, and it agrees with the count of retries at every step.         *)
CallNudges == {i \in startLen + 1 .. Len(history) : history[i] = Nudge}
NudgeInv ==
  /\ nudged <=> incompleteRetries > 0
  /\ Cardinality(CallNudges) <= IF nudged THEN 1 ELSE 0

(* A message joins the call's part of the conversation: the nudge adds one *)
(* to the count, any other message none.                                   *)
LEMMA PushCounts ==
  ASSUME history \in Seq(Message), startLen \in Nat, startLen <= Len(history),
         startLen' = startLen, NEW m \in Message, Push(m)
  PROVE  /\ Cardinality(CallNudges) \in Nat
         /\ Cardinality(CallNudges') = IF m = Nudge THEN Cardinality(CallNudges) + 1
                                       ELSE Cardinality(CallNudges)
<1>1. /\ Len(history) \in Nat /\ Len(history') = Len(history) + 1
      /\ history'[Len(history) + 1] = m
      /\ \A i \in 1 .. Len(history) : history'[i] = history[i]
  BY DEF Push
<1>2. /\ CallNudges \in SUBSET (1 .. Len(history))
      /\ Len(history) + 1 \notin CallNudges
  BY <1>1 DEF CallNudges
<1>3. IsFiniteSet(CallNudges)
  <2>1. IsFiniteSet(1 .. Len(history))
    BY <1>1, FS_Interval
  <2>2. QED
    BY <1>2, <2>1, FS_Subset
<1>4. CASE m = Nudge
  <2>1. CallNudges' = CallNudges \cup {Len(history) + 1}
    BY <1>1, <1>4 DEF CallNudges
  <2>2. QED
    BY <1>2, <1>3, <1>4, <2>1, FS_AddElement, FS_CardinalityType
<1>5. CASE m # Nudge
  <2>1. CallNudges' = CallNudges
    BY <1>1, <1>5 DEF CallNudges
  <2>2. QED
    BY <1>3, <1>5, <2>1, FS_CardinalityType
<1>6. QED
  BY <1>4, <1>5

(* A conversation that ends before the call began holds no nudge of it.    *)
LEMMA NoneWritten ==
  ASSUME Len(history') \in Nat, startLen' \in Nat, Len(history') <= startLen'
  PROVE  Cardinality(CallNudges') = 0
<1>1. CallNudges' = {}
  BY DEF CallNudges
<1>2. QED
  BY <1>1, FS_EmptySet

LEMMA NudgeClientStep ==
  LoopInv /\ KeptInv /\ ToolInv /\ NudgeInv /\ ClientStep => NudgeInv'
<1> SUFFICES ASSUME LoopInv, KeptInv, ToolInv, NudgeInv, ClientStep PROVE NudgeInv'
  OBVIOUS
<1>1. /\ history \in Seq(Message) /\ before \in Seq(Message) /\ startLen \in Nat
      /\ incompleteRetries \in Nat /\ turn.calls \in Nat
      /\ Len(before) <= startLen /\ Len(before) <= Len(history)
      /\ at # "idle" => startLen <= Len(history)
  BY DEF LoopInv, LoopTypeOK, StreamTypeOK, Turn, KeptInv, MessagesTypeOK,
         EarlierTurnsKept, ToolInv
<1>2. startLen' = startLen /\ at # "idle"
  BY ClientStepWrites
<1>3. ASSUME UNCHANGED <<history, nudged, incompleteRetries>> PROVE NudgeInv'
  BY <1>2, <1>3 DEF NudgeInv, CallNudges
<1>4. ASSUME NEW m \in Message, m # Nudge, Push(m),
             UNCHANGED <<nudged, incompleteRetries>>
      PROVE  NudgeInv'
  BY <1>1, <1>2, <1>4, PushCounts DEF NudgeInv
<1>5. CASE LoopHead \/ Post \/ (\E e \in Event : Receive(e)) \/ CancelStream
           \/ BreakOff \/ Complete
  BY <1>3, <1>5 DEF LoopHead, Post, Receive, CancelStream, BreakOff, Complete, loop
<1>6. CASE RetryTurn
  <2>1. nudged' = TRUE /\ incompleteRetries' = incompleteRetries + 1
    BY <1>6 DEF RetryTurn
  <2>2. CASE ~nudged /\ Push(Nudge)
    <3>1. Nudge \in Message
      BY DEF Nudge, Plain, Message, Roles
    <3>2. Cardinality(CallNudges') = 1
      BY <1>1, <1>2, <2>2, <3>1, PushCounts DEF NudgeInv
    <3>3. QED
      BY <1>1, <2>1, <3>2 DEF NudgeInv
  <2>3. CASE nudged /\ history' = history
    BY <1>1, <1>2, <2>1, <2>3 DEF NudgeInv, CallNudges
  <2>4. QED
    BY <1>6, <2>2, <2>3 DEF RetryTurn, NudgeDue
<1>7. CASE GiveUp
  <2>1. /\ history' = SubSeq(history, 1, Len(before))
        /\ UNCHANGED <<nudged, incompleteRetries>>
    BY <1>7 DEF GiveUp, RolledBack, loop
  <2>2. Len(history') = Len(before)
    BY <1>1, <2>1
  <2>3. Cardinality(CallNudges') = 0
    BY <1>1, <1>2, <2>2, NoneWritten
  <2>4. QED
    BY <2>1, <2>3 DEF NudgeInv
<1>8. CASE StopAtCeiling \/ Answer \/ StartTools
  <2> DEFINE m == [role |-> "assistant", calls |-> turn.calls]
  <2>1. Push(m) /\ UNCHANGED <<nudged, incompleteRetries>>
    BY <1>8 DEF StopAtCeiling, Answer, StartTools, Keep
  <2>2. m \in Message /\ m # Nudge
    BY <1>1 DEF Message, Roles, Nudge, Plain
  <2> HIDE DEF m
  <2>3. QED
    BY <1>4, <2>1, <2>2
<1>9. CASE DispatchTool
  <2>1. Push(ToolMessage) /\ UNCHANGED <<nudged, incompleteRetries>>
    BY <1>9 DEF DispatchTool
  <2>2. ToolMessage \in Message /\ ToolMessage # Nudge
    BY DEF ToolMessage, Plain, Message, Roles, Nudge
  <2>3. QED
    BY <1>4, <2>1, <2>2
<1>10. QED
  BY <1>5, <1>6, <1>7, <1>8, <1>9 DEF ClientStep, OwnStep

LEMMA NudgeCallerStep == KeptInv' /\ NudgeInv /\ CallerStep => NudgeInv'
<1> SUFFICES ASSUME KeptInv', NudgeInv, CallerStep PROVE NudgeInv'
  OBVIOUS
<1>1. Len(history') \in Nat
  BY DEF KeptInv, MessagesTypeOK
<1>2. ASSUME startLen' = Len(history'),
             \/ UNCHANGED <<nudged, incompleteRetries>>
             \/ nudged' = FALSE /\ incompleteRetries' = 0
      PROVE  NudgeInv'
  <2>1. Cardinality(CallNudges') = 0
    BY <1>1, <1>2, NoneWritten
  <2>2. QED
    BY <1>2, <2>1 DEF NudgeInv
<1>3. CASE Chat \/ ChatContinue
  BY <1>2, <1>3 DEF Chat, ChatContinue, Enter
<1>4. CASE ClearHistory \/ \E h \in SavedHistories : LoadHistory(h)
  BY <1>2, <1>4 DEF ClearHistory, LoadHistory, SetHistory, loop
<1>5. CASE RequestCancel \/ ClearCancel
  <2>1. UNCHANGED <<history, startLen, nudged, incompleteRetries>>
    BY <1>5 DEF RequestCancel, ClearCancel, loop, call
  <2>2. QED
    BY <2>1 DEF NudgeInv, CallNudges
<1>6. QED
  BY <1>3, <1>4, <1>5 DEF CallerStep

(* However often a call retries, the conversation it sends to the server   *)
(* holds one nudge of it at most, and none without a retry.                *)
THEOREM CallsNudgeOnce == Spec => []OneNudgePerCall
<1>1. Init => NudgeInv
  <2> SUFFICES ASSUME Init PROVE NudgeInv
    OBVIOUS
  <2>1. /\ startLen = 0 /\ Len(history) = 0 /\ nudged = FALSE
        /\ incompleteRetries = 0
    BY DEF Init
  <2>2. CallNudges = {}
    BY <2>1 DEF CallNudges
  <2>3. QED
    BY <2>1, <2>2, FS_EmptySet DEF NudgeInv
<1>2. NudgeInv /\ UNCHANGED vars => NudgeInv'
  BY DEF NudgeInv, CallNudges, vars, loop, call
<1>3. LoopInv /\ KeptInv /\ KeptInv' /\ ToolInv /\ NudgeInv /\ [Next]_vars => NudgeInv'
  BY <1>2, NudgeClientStep, NudgeCallerStep DEF Next
<1>4. NudgeInv => OneNudgePerCall
  BY DEF NudgeInv, OneNudgePerCall, CallNudges
<1>5. QED
  BY ClientInvariant, ToolInvariant, <1>1, <1>3, <1>4, PTL DEF Spec
=============================================================================
