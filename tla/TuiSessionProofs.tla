-------------------------- MODULE TuiSessionProofs --------------------------
(***************************************************************************)
(* Proofs about TuiSession: what the keyboard thread and the worker tell   *)
(* each other is true, an interrupt is meant for the turn it stops, and no *)
(* prompt is lost, for any number of prompts, keys, hops and questions.    *)
(***************************************************************************)
EXTENDS TuiSession, TLAPS

(* A prompt waits in hand only on its way to the queue or to the client.   *)
InHandIsReal == ui \in {"queueing", "draining"} => next # Compact

(* Past the head of a hop there was one left, and a tool that asks is one  *)
(* of the calls still owed.                                                *)
HopsAreLeft ==
  /\ worker \in {"stream", "tools", "asking"} => hop < MaxToolHops
  /\ worker = "asking" => calls > 0

LEMMA DialogsAreTyped ==
  ASSUME TuiAssumption, q \in Dialog, q.idx <= q.items
  PROVE  /\ NoDialog \in Dialog
         /\ HasMoreToAsk(q) => Commit(q) \in Dialog /\ Commit(q).idx <= Commit(q).items
         /\ Dismiss(q) \in Dialog /\ Dismiss(q).idx <= Dismiss(q).items
         /\ Commit(q).active = q.active /\ Dismiss(q).active = q.active
<1>1. MaxItems \in Nat /\ 0 \in 0..MaxItems
  BY DEF TuiAssumption
<1>2. NoDialog \in Dialog
  BY <1>1 DEF NoDialog, Dialog
<1>3. Dismiss(q) \in Dialog /\ Dismiss(q).idx <= Dismiss(q).items
      /\ Dismiss(q).active = q.active
  BY DEF Dismiss, Dialog
<1>4. Commit(q).active = q.active
  BY DEF Commit, Dialog
<1>5. ASSUME HasMoreToAsk(q)
      PROVE  Commit(q) \in Dialog /\ Commit(q).idx <= Commit(q).items
  <2>1. q.idx + 1 \in 0..MaxItems /\ q.idx + 1 <= q.items
    BY <1>1, <1>5 DEF HasMoreToAsk, Dialog
  <2> DEFINE last == q.idx + 1 = q.items
             done == [q EXCEPT !.idx = q.idx + 1, !.finished = last]
  <2>2. Commit(q) = done
    BY DEF Commit
  <2>3. last \in BOOLEAN
    OBVIOUS
  <2> HIDE DEF last
  <2>4. done \in Dialog /\ done.idx = q.idx + 1 /\ done.items = q.items
    BY <2>1, <2>3 DEF Dialog
  <2> HIDE DEF done
  <2>5. QED
    BY <2>1, <2>2, <2>4
<1>6. QED
  BY <1>2, <1>3, <1>4, <1>5

(* The steps of the keyboard thread leave the worker where it is, but for  *)
(* StartWorker and Leave; those of the worker leave the keyboard alone.    *)
LEMMA TypeInit == TuiAssumption /\ Init => TypeOK
<1> SUFFICES ASSUME TuiAssumption, Init PROVE TypeOK
  OBVIOUS
<1>1. q \in Dialog /\ q.idx <= q.items
  BY DEF Init, NoDialog, Dialog, TuiAssumption
<1>2. queue \in Seq(Prompt) /\ sent \in Seq(Prompt)
  BY DEF Init
<1>3. {busy, workerLive, cancel, meant} \subseteq BOOLEAN
  BY DEF Init
<1>4. /\ {keys, typed, compactions, next, job, hop, calls} = {0}
      /\ ui = "head" /\ worker = "none" /\ ctrlcHits = 0
  BY DEF Init, Compact
<1>5. /\ 0 \in 0..MaxKeys /\ 0 \in 0..MaxPrompts /\ 0 \in 0..MaxCompactions
      /\ 0 \in 0..MaxToolHops /\ 0 \in 0..MaxCalls
  BY DEF TuiAssumption
<1>6. QED
  BY <1>1, <1>2, <1>3, <1>4, <1>5 DEF TypeOK

LEMMA TypeKeys == TuiAssumption /\ TypeOK /\ KeyAction => TypeOK'
<1> SUFFICES ASSUME TuiAssumption, TypeOK, KeyAction PROVE TypeOK'
  OBVIOUS
<1> USE DEF TypeOK, TuiAssumption, Key, client
<1>1. CASE KeyForDialog
  BY <1>1 DEF KeyForDialog
<1>2. CASE Submit
  BY <1>2 DEF Submit
<1>3. CASE Compress
  BY <1>3 DEF Compress, Compact
<1>4. CASE Escape
  BY <1>4 DEF Escape
<1>5. CASE CtrlC
  BY <1>5 DEF CtrlC
<1>6. CASE Quit
  BY <1>6 DEF Quit
<1>7. CASE OtherKey
  BY <1>7 DEF OtherKey
<1>8. QED
  BY <1>1, <1>2, <1>3, <1>4, <1>5, <1>6, <1>7 DEF KeyAction

LEMMA TypeUi == TuiAssumption /\ TypeOK /\ InHandIsReal /\ UiStep => TypeOK'
<1> SUFFICES ASSUME TuiAssumption, TypeOK, InHandIsReal, UiStep PROVE TypeOK'
  OBVIOUS
<1> USE DEF TypeOK, TuiAssumption, client
<1>1. CASE LoopHead
  BY <1>1 DEF LoopHead
<1>2. CASE Enqueue
  <2>1. next \in Prompt
    BY <1>2 DEF Enqueue, InHandIsReal, Compact, Prompt
  <2>2. queue' \in Seq(Prompt)
    BY <1>2, <2>1 DEF Enqueue
  <2>3. QED
    BY <1>2, <2>2 DEF Enqueue
<1>3. CASE RequestCancel
  BY <1>3 DEF RequestCancel
<1>4. CASE DialogKey
  <2>1. q' \in Dialog /\ q'.idx <= q'.items
    BY <1>4, DialogsAreTyped DEF DialogKey
  <2>2. QED
    BY <1>4, <2>1 DEF DialogKey
<1>5. CASE StartWorker
  <2>1. sent' \in Seq(Prompt) /\ cancel' \in BOOLEAN
    <3>1. CASE next = Compact
      BY <1>5, <3>1 DEF StartWorker, StartCompact
    <3>2. CASE next # Compact
      <4>1. next \in Prompt
        BY <3>2 DEF Compact, Prompt
      <4>2. QED
        <5>1. sent' = Append(sent, next) /\ cancel' = FALSE
          BY <1>5, <3>2 DEF StartWorker, StartTurn, ClearCancel
        <5>2. Append(sent, next) \in Seq(Prompt)
          BY <4>1
        <5>3. QED
          BY <5>1, <5>2
    <3>3. QED
      BY <3>1, <3>2
  <2>2. {busy, workerLive, meant}' \subseteq BOOLEAN
    BY <1>5 DEF StartWorker
  <2>3. QED
    BY <1>5, <2>1, <2>2 DEF StartWorker, InCall
<1>6. CASE EndOfBatch
  <2>1. next' \in 0..MaxPrompts /\ queue' \in Seq(Prompt)
    <3>1. CASE queue # <<>>
      <4>1. Head(queue) \in Prompt /\ Tail(queue) \in Seq(Prompt)
        BY <3>1
      <4>2. /\ next' = next \/ next' = Head(queue)
            /\ queue' = queue \/ queue' = Tail(queue)
        BY <1>6 DEF EndOfBatch, Popped
      <4>3. Head(queue) \in 0..MaxPrompts
        BY <4>1 DEF Prompt
      <4>4. QED
        BY <4>1, <4>2, <4>3
    <3>2. CASE queue = <<>>
      BY <1>6, <3>2 DEF EndOfBatch
    <3>3. QED
      BY <3>1, <3>2
  <2>2. QED
    BY <1>6, <2>1 DEF EndOfBatch
<1>7. CASE Shutdown
  BY <1>7 DEF Shutdown
<1>8. CASE Leave
  <2>1. q' \in Dialog /\ q'.idx <= q'.items
    BY <1>8, DialogsAreTyped DEF Leave
  <2>2. QED
    BY <1>8, <2>1 DEF Leave
<1>9. QED
  BY <1>1, <1>2, <1>3, <1>4, <1>5, <1>6, <1>7, <1>8 DEF UiStep

LEMMA TypeWorker ==
  TuiAssumption /\ TypeOK /\ HopsAreLeft /\ WorkerStep => TypeOK'
<1> SUFFICES ASSUME TuiAssumption, TypeOK, HopsAreLeft, WorkerStep PROVE TypeOK'
  OBVIOUS
<1> USE DEF TypeOK, TuiAssumption, KeepUi, terminal, Work, InCall
<1>1. CASE Hop
  BY <1>1 DEF Hop
<1>2. CASE Stream
  BY <1>2 DEF Stream
<1>3. CASE Dispatch
  BY <1>3 DEF Dispatch, NextHop, HopsAreLeft
<1>4. CASE Ask
  <2>1. q' \in Dialog /\ q'.idx <= q'.items
    <3>1. PICK n \in 1..MaxItems :
            q' = [active |-> TRUE, items |-> n, idx |-> 0,
                  finished |-> FALSE, dismissed |-> FALSE]
      BY <1>4 DEF Ask
    <3>2. n \in 0..MaxItems /\ 0 \in 0..MaxItems /\ 0 <= n
      OBVIOUS
    <3>3. QED
      BY <3>1, <3>2 DEF Dialog
  <2>2. QED
    BY <1>4, <2>1 DEF Ask
<1>5. CASE Told
  <2>1. q' \in Dialog /\ q'.idx <= q'.items
    BY <1>5, DialogsAreTyped DEF Told, Closed, NoDialog
  <2>2. QED
    BY <1>5, <2>1 DEF Told, HopsAreLeft
<1>6. CASE Return
  BY <1>6 DEF Return
<1>7. CASE Saved
  BY <1>7 DEF Saved, LiveFalls
<1>8. QED
  BY <1>1, <1>2, <1>3, <1>4, <1>5, <1>6, <1>7 DEF WorkerStep
-----------------------------------------------------------------------------
(* The control: a cancel that is up during a call was meant for it.        *)
CancelIsMeant == cancel /\ worker \in InCall => meant \/ job = Compact

Control == /\ FlagsTellTheWorker /\ DialogIsWaitedFor /\ HopsAreLeft
           /\ InHandIsReal /\ CancelIsMeant /\ InterruptIsOwn
SessionInv == TypeOK /\ Control

LEMMA ControlInit == TuiAssumption /\ Init => Control
<1> SUFFICES ASSUME TuiAssumption, Init PROVE Control
  OBVIOUS
<1>1. worker = "none" /\ ui = "head" /\ ~busy /\ ~workerLive /\ ~cancel
  BY DEF Init
<1>2. ~q.active
  BY DEF Init, NoDialog
<1>3. QED
  BY <1>1, <1>2 DEF Control, FlagsTellTheWorker, DialogIsWaitedFor, HopsAreLeft,
     InHandIsReal, CancelIsMeant, InterruptIsOwn, InCall

(* A step that leaves the worker, what it says of itself and the cancel    *)
(* flag alone keeps all but what is in hand.                               *)
LEMMA ControlFrame ==
  ASSUME Control, UNCHANGED <<busy, workerLive, worker, client, cancel, meant>>,
         q'.active = q.active, InHandIsReal'
  PROVE  Control'
BY DEF Control, FlagsTellTheWorker, DialogIsWaitedFor, HopsAreLeft,
   CancelIsMeant, InterruptIsOwn, client

LEMMA ControlKeys == TuiAssumption /\ SessionInv /\ KeyAction => Control'
<1> SUFFICES ASSUME TuiAssumption, SessionInv, KeyAction PROVE Control'
  OBVIOUS
<1>1. /\ UNCHANGED <<busy, workerLive, worker, client, cancel, meant, q>>
      /\ ui' \in {"queueing", "draining"} => next' # Compact
  <2> USE DEF Key
  <2>1. CASE Submit
    <3>1. typed + 1 # 0
      BY DEF SessionInv, TypeOK
    <3>2. QED
      BY <2>1, <3>1 DEF Submit, Compact
  <2>2. CASE Compress
    BY <2>2 DEF Compress
  <2>3. CASE KeyForDialog \/ Escape \/ CtrlC \/ Quit \/ OtherKey
    BY <2>3 DEF KeyForDialog, Escape, CtrlC, Quit, OtherKey
  <2>4. QED
    BY <2>1, <2>2, <2>3 DEF KeyAction
<1>2. QED
  BY <1>1, ControlFrame DEF SessionInv, InHandIsReal

LEMMA ControlUi == TuiAssumption /\ SessionInv /\ UiStep => Control'
<1> SUFFICES ASSUME TuiAssumption, SessionInv, UiStep PROVE Control'
  OBVIOUS
<1> USE DEF SessionInv
<1>1. CASE LoopHead \/ Enqueue
  BY <1>1, ControlFrame DEF LoopHead, Enqueue, InHandIsReal
<1>2. CASE DialogKey
  <2>1. q'.active = q.active
    BY <1>2, DialogsAreTyped DEF DialogKey, TypeOK
  <2>2. QED
    BY <1>2, <2>1, ControlFrame DEF DialogKey, InHandIsReal
<1>3. CASE EndOfBatch
  <2>1. ui' = "draining" => next' # Compact
    <3>1. CASE queue # <<>>
      <4>1. Head(queue) \in Prompt
        BY <3>1 DEF TypeOK
      <4>2. QED
        BY <1>3, <4>1 DEF EndOfBatch, Prompt, Compact
    <3>2. CASE queue = <<>>
      BY <1>3, <3>2 DEF EndOfBatch
    <3>3. QED
      BY <3>1, <3>2
  <2>2. /\ UNCHANGED <<busy, workerLive, worker, client, cancel, meant, q>>
        /\ ui' # "queueing"
    BY <1>3 DEF EndOfBatch
  <2>3. QED
    BY <2>1, <2>2, ControlFrame DEF InHandIsReal
<1>4. CASE RequestCancel \/ Shutdown
  BY <1>4 DEF RequestCancel, Shutdown, Control, FlagsTellTheWorker,
     DialogIsWaitedFor, HopsAreLeft, InHandIsReal, CancelIsMeant, InterruptIsOwn,
     client
<1>5. CASE StartWorker
  <2>1. /\ worker' = "hop" /\ busy' /\ workerLive' /\ q' = q /\ worker # "asking"
        /\ ui' \in {"keys", "head"} /\ job' = next
        /\ next = Compact \/ ~cancel'
    BY <1>5 DEF StartWorker, Joined, StartTurn, ClearCancel
  <2>2. QED
    BY <2>1 DEF Control, FlagsTellTheWorker, DialogIsWaitedFor, HopsAreLeft,
       InHandIsReal, CancelIsMeant, InterruptIsOwn, InCall
<1>6. CASE Leave
  <2>1. /\ worker \in {"none", "over"} /\ worker' = "none" /\ ui' = "gone"
        /\ UNCHANGED <<busy, workerLive>>
        /\ q.active \/ q' = q
    BY <1>6 DEF Leave, Joined
  <2>2. ~q.active /\ ~busy /\ ~workerLive
    BY <2>1 DEF Control, DialogIsWaitedFor, FlagsTellTheWorker, InCall
  <2>3. QED
    BY <2>1, <2>2 DEF Control, FlagsTellTheWorker, DialogIsWaitedFor, HopsAreLeft,
       InHandIsReal, CancelIsMeant, InterruptIsOwn, InCall
<1>7. QED
  BY <1>1, <1>2, <1>3, <1>4, <1>5, <1>6 DEF UiStep

LEMMA ControlWorker == TuiAssumption /\ SessionInv /\ WorkerStep => Control'
<1> SUFFICES ASSUME TuiAssumption, SessionInv, WorkerStep PROVE Control'
  OBVIOUS
<1> USE DEF SessionInv, Work, KeepUi, terminal
<1>1. /\ UNCHANGED <<ui, next, cancel, meant, job>>
      /\ worker \in InCall \/ worker = "saving"
  BY DEF WorkerStep, Hop, Stream, Dispatch, Ask, Told, Return, Saved, InCall
<1>2. InHandIsReal'
  BY <1>1 DEF Control, InHandIsReal
<1>3. CancelIsMeant' /\ InterruptIsOwn'
  <2>1. worker' = "stopped" => cancel /\ worker \in InCall
    BY DEF WorkerStep, Hop, Stream, Dispatch, Ask, Told, Return, Saved, InCall
  <2>2. worker' \in InCall => worker \in InCall
    BY DEF WorkerStep, Hop, Stream, Dispatch, Ask, Told, Return, Saved, InCall
  <2>3. QED
    BY <1>1, <2>1, <2>2 DEF Control, CancelIsMeant, InterruptIsOwn
<1>4. FlagsTellTheWorker'
  <2>1. CASE Return
    BY <2>1 DEF Return, Control, FlagsTellTheWorker, InCall
  <2>2. CASE Saved
    BY <2>2 DEF Saved, LiveFalls, Control, FlagsTellTheWorker, InCall
  <2>3. CASE Hop \/ Stream \/ Dispatch \/ Ask \/ Told
    <3>1. /\ UNCHANGED <<busy, workerLive>>
          /\ worker \in InCall /\ worker' \in InCall
      BY <2>3 DEF Hop, Stream, Dispatch, Ask, Told, InCall
    <3>2. QED
      BY <3>1 DEF Control, FlagsTellTheWorker
  <2>4. QED
    BY <2>1, <2>2, <2>3 DEF WorkerStep
<1>5. DialogIsWaitedFor'
  <2>1. CASE Ask
    BY <2>1 DEF Ask, DialogIsWaitedFor
  <2>2. CASE Told
    BY <2>2 DEF Told, Closed, NoDialog, DialogIsWaitedFor
  <2>3. CASE Hop \/ Stream \/ Dispatch \/ Return \/ Saved
    <3>1. q' = q /\ worker # "asking" /\ worker' # "asking"
      BY <2>3 DEF Hop, Stream, Dispatch, Return, Saved
    <3>2. QED
      BY <3>1 DEF Control, DialogIsWaitedFor
  <2>4. QED
    BY <2>1, <2>2, <2>3 DEF WorkerStep
<1>6. HopsAreLeft'
  <2> USE DEF TypeOK, TuiAssumption, Control, HopsAreLeft
  <2>1. CASE Hop
    BY <2>1 DEF Hop
  <2>2. CASE Stream
    BY <2>2 DEF Stream
  <2>3. CASE Dispatch
    BY <2>3 DEF Dispatch
  <2>4. CASE Ask \/ Told \/ Return \/ Saved
    BY <2>4 DEF Ask, Told, Return, Saved
  <2>5. QED
    BY <2>1, <2>2, <2>3, <2>4 DEF WorkerStep
<1>7. QED
  BY <1>2, <1>3, <1>4, <1>5, <1>6 DEF Control

LEMMA SessionInvariant == Spec => []SessionInv
<1>1. Init => SessionInv
  BY TuiAssumption, TypeInit, ControlInit DEF SessionInv
<1>2. SessionInv /\ [Next]_vars => SessionInv'
  <2>1. SessionInv /\ UNCHANGED vars => SessionInv'
    <3>1. SessionInv /\ UNCHANGED vars => TypeOK'
      BY DEF SessionInv, TypeOK, vars, terminal, client
    <3>2. SessionInv /\ UNCHANGED vars => Control'
      BY DEF SessionInv, Control, FlagsTellTheWorker, DialogIsWaitedFor, HopsAreLeft,
         InHandIsReal, CancelIsMeant, InterruptIsOwn, vars, terminal, client
    <3>3. QED
      BY <3>1, <3>2 DEF SessionInv
  <2>2. SessionInv /\ Next => SessionInv'
    BY TuiAssumption, TypeKeys, TypeUi, TypeWorker, ControlKeys, ControlUi, ControlWorker
    DEF Next, SessionInv, Control
  <2>3. QED
    BY <2>1, <2>2
<1>3. QED
  BY <1>1, <1>2, PTL DEF Spec

(* The flags tell the truth about the worker, and a dialog is open exactly *)
(* while a tool waits for it, whatever is typed and whenever.              *)
THEOREM ThreadsAlwaysAgree == Spec => []ThreadsAgree
<1>1. SessionInv => ThreadsAgree
  BY DEF SessionInv, Control, ThreadsAgree
<1>2. QED
  BY <1>1, SessionInvariant, PTL

(* No turn is stopped by a cancel that was meant for an earlier one.       *)
THEOREM InterruptsAreOwn == Spec => []InterruptIsOwn
<1>1. SessionInv => InterruptIsOwn
  BY DEF SessionInv, Control
<1>2. QED
  BY <1>1, SessionInvariant, PTL
-----------------------------------------------------------------------------
(* No prompt is lost: its length and its elements say where each one is.   *)
LEMMA AppendGains ==
  ASSUME NEW S, NEW s \in Seq(S), NEW e \in S
  PROVE  /\ Append(s, e) \in Seq(S) /\ Len(Append(s, e)) = Len(s) + 1
         /\ ToSet(Append(s, e)) = ToSet(s) \cup {e}
<1>1. Append(s, e) \in Seq(S) /\ Len(Append(s, e)) = Len(s) + 1
  OBVIOUS
<1>2. \A i \in 1 .. Len(s) : Append(s, e)[i] = s[i]
  OBVIOUS
<1>3. Append(s, e)[Len(s) + 1] = e
  OBVIOUS
<1>4. 1 .. Len(s) + 1 = 1 .. Len(s) \cup {Len(s) + 1} /\ Len(s) \in Nat
  OBVIOUS
<1>5. DOMAIN s = 1 .. Len(s) /\ DOMAIN Append(s, e) = 1 .. Len(s) + 1
  BY <1>1
<1>6. QED
  BY <1>1, <1>2, <1>3, <1>4, <1>5 DEF ToSet

LEMMA TailLoses ==
  ASSUME NEW S, NEW s \in Seq(S), s # <<>>
  PROVE  /\ Head(s) \in S /\ Tail(s) \in Seq(S) /\ Len(s) = Len(Tail(s)) + 1
         /\ ToSet(s) = {Head(s)} \cup ToSet(Tail(s))
<1>1. Head(s) \in S /\ Tail(s) \in Seq(S) /\ Len(s) = Len(Tail(s)) + 1
  OBVIOUS
<1>2. \A i \in 1 .. Len(Tail(s)) : Tail(s)[i] = s[i + 1]
  OBVIOUS
<1>3. \A i \in 2 .. Len(s) : i - 1 \in 1 .. Len(Tail(s)) /\ s[i] = Tail(s)[i - 1]
  BY <1>1, <1>2
<1>4. DOMAIN s = 1 .. Len(s) /\ DOMAIN Tail(s) = 1 .. Len(Tail(s)) /\ Head(s) = s[1]
  BY <1>1
<1>5. 1 \in 1 .. Len(s) /\ \A i \in 1 .. Len(s) : i = 1 \/ i \in 2 .. Len(s)
  BY <1>1
<1>6. ToSet(s) \subseteq {Head(s)} \cup ToSet(Tail(s))
  BY <1>3, <1>4, <1>5 DEF ToSet
<1>7. \A i \in 1 .. Len(Tail(s)) : i + 1 \in 1 .. Len(s)
  BY <1>1
<1>8. {Head(s)} \cup ToSet(Tail(s)) \subseteq ToSet(s)
  BY <1>2, <1>4, <1>5, <1>7 DEF ToSet
<1>9. QED
  BY <1>1, <1>6, <1>8

LEMMA ConcatJoins ==
  ASSUME NEW S, NEW s \in Seq(S), NEW t \in Seq(S)
  PROVE  /\ s \o t \in Seq(S) /\ Len(s \o t) = Len(s) + Len(t)
         /\ ToSet(s \o t) = ToSet(s) \cup ToSet(t)
<1>1. s \o t \in Seq(S) /\ Len(s \o t) = Len(s) + Len(t)
  OBVIOUS
<1>2. /\ \A i \in 1 .. Len(s) : (s \o t)[i] = s[i]
      /\ \A i \in 1 .. Len(t) : (s \o t)[Len(s) + i] = t[i]
  OBVIOUS
<1>3. Len(s) \in Nat /\ Len(t) \in Nat
  OBVIOUS
<1>4. \A i \in 1 .. Len(s) + Len(t) :
        i \in 1 .. Len(s) \/ \E j \in 1 .. Len(t) : i = Len(s) + j
  <2> SUFFICES ASSUME NEW i \in 1 .. Len(s) + Len(t), ~(i \in 1 .. Len(s))
               PROVE  \E j \in 1 .. Len(t) : i = Len(s) + j
    OBVIOUS
  <2>1. i - Len(s) \in 1 .. Len(t) /\ i = Len(s) + (i - Len(s))
    BY <1>3
  <2>2. QED
    BY <2>1
<1>5. /\ \A i \in 1 .. Len(s) : i \in 1 .. Len(s) + Len(t)
      /\ \A j \in 1 .. Len(t) : Len(s) + j \in 1 .. Len(s) + Len(t)
  BY <1>3
<1>6. /\ DOMAIN s = 1 .. Len(s) /\ DOMAIN t = 1 .. Len(t)
      /\ DOMAIN (s \o t) = 1 .. Len(s) + Len(t)
  BY <1>1
<1>7. ToSet(s \o t) \subseteq ToSet(s) \cup ToSet(t)
  BY <1>2, <1>4, <1>6 DEF ToSet
<1>8. ToSet(s) \cup ToSet(t) \subseteq ToSet(s \o t)
  BY <1>2, <1>5, <1>6 DEF ToSet
<1>9. QED
  BY <1>1, <1>7, <1>8

(* The same as PromptsAreKept, place by place.                             *)
Places ==
  /\ Len(sent) + Len(queue) + Len(InHand) = typed
  /\ ToSet(sent) \cup ToSet(queue) \cup ToSet(InHand) = 1..typed

LEMMA InHandIsTyped ==
  ASSUME TypeOK
  PROVE  InHand \in Seq(Prompt)
<1>1. next # Compact => next \in Prompt
  BY DEF TypeOK, Compact, Prompt
<1>2. QED
  BY <1>1 DEF InHand

LEMMA PlacesAreKept == TypeOK => (Places <=> PromptsAreKept)
<1> SUFFICES ASSUME TypeOK PROVE Places <=> PromptsAreKept
  OBVIOUS
<1>1. sent \in Seq(Prompt) /\ queue \in Seq(Prompt) /\ InHand \in Seq(Prompt)
  BY InHandIsTyped DEF TypeOK
<1> DEFINE known == sent \o queue
<1>2. /\ known \in Seq(Prompt)
      /\ Len(known) = Len(sent) + Len(queue)
      /\ ToSet(known) = ToSet(sent) \cup ToSet(queue)
  BY <1>1, ConcatJoins
<1>3. Prompts = known \o InHand
  BY DEF Prompts
<1> DEFINE hand == InHand
<1>4. hand \in Seq(Prompt) /\ hand = InHand
  BY <1>1
<1> HIDE DEF known, hand
<1>5. /\ Len(known \o hand) = Len(known) + Len(hand)
      /\ ToSet(known \o hand) = ToSet(known) \cup ToSet(hand)
  BY <1>2, <1>4, ConcatJoins
<1>6. QED
  BY <1>2, <1>3, <1>4, <1>5, Zenon DEF Places, PromptsAreKept

LEMMA Singles ==
  ASSUME NEW e
  PROVE  /\ Len(<<e>>) = 1 /\ ToSet(<<e>>) = {e}
         /\ Len(<<>>) = 0 /\ ToSet(<<>>) = {}
<1>1. Len(<<e>>) = 1 /\ DOMAIN <<e>> = {1} /\ <<e>>[1] = e
  OBVIOUS
<1>2. Len(<<>>) = 0 /\ DOMAIN <<>> = {}
  OBVIOUS
<1>3. QED
  BY <1>1, <1>2 DEF ToSet

LEMMA PlacesKeys == TypeOK /\ TypeOK' /\ Places /\ KeyAction => Places'
<1> SUFFICES ASSUME TypeOK, TypeOK', Places, KeyAction PROVE Places'
  OBVIOUS
<1>1. InHand = <<>> /\ UNCHANGED <<sent, queue>>
  BY DEF KeyAction, KeyForDialog, Submit, Compress, Escape, CtrlC, Quit, OtherKey, Key,
     InHand
<1>2. CASE Submit
  <2>1. typed \in Nat /\ typed' = typed + 1 /\ InHand' = <<typed + 1>>
    BY <1>2 DEF Submit, Key, InHand, Compact, TypeOK
  <2>2. 1 .. typed + 1 = 1 .. typed \cup {typed + 1}
    BY <2>1
  <2>3. Len(InHand') = 1 /\ ToSet(InHand') = {typed + 1}
    BY <2>1, Singles
  <2>4. Len(InHand) = 0 /\ ToSet(InHand) = {}
    BY <1>1, Singles
  <2>5. Len(sent) \in Nat /\ Len(queue) \in Nat
    BY DEF TypeOK
  <2>6. QED
    BY <1>1, <2>1, <2>2, <2>3, <2>4, <2>5 DEF Places
<1>3. CASE Compress
  <2>1. typed' = typed /\ InHand' = <<>>
    BY <1>3 DEF Compress, Key, InHand, Compact
  <2>2. QED
    BY <1>1, <2>1 DEF Places
<1>4. CASE KeyForDialog \/ Escape \/ CtrlC \/ Quit \/ OtherKey
  <2>1. typed' = typed /\ InHand' = <<>>
    BY <1>4 DEF KeyForDialog, Escape, CtrlC, Quit, OtherKey, Key, InHand
  <2>2. QED
    BY <1>1, <2>1 DEF Places
<1>5. QED
  BY <1>2, <1>3, <1>4 DEF KeyAction

LEMMA PlacesUi == SessionInv /\ TypeOK' /\ Places /\ UiStep => Places'
<1> SUFFICES ASSUME SessionInv, TypeOK', Places, UiStep PROVE Places'
  OBVIOUS
<1>0. /\ sent \in Seq(Prompt) /\ queue \in Seq(Prompt) /\ next \in 0..MaxPrompts
      /\ next # Compact => next \in Prompt
  BY DEF SessionInv, TypeOK, Compact, Prompt
<1>1. /\ Len(<<next>>) = 1 /\ ToSet(<<next>>) = {next}
      /\ Len(<<>>) = 0 /\ ToSet(<<>>) = {}
  BY Singles
<1>2. Len(sent) \in Nat /\ Len(queue) \in Nat
  BY <1>0
<1>3. CASE Enqueue
  <2>1. next \in Prompt /\ InHand = <<next>> /\ InHand' = <<>>
    BY <1>0, <1>3 DEF Enqueue, InHand, SessionInv, Control, InHandIsReal
  <2>2. Len(queue') = Len(queue) + 1 /\ ToSet(queue') = ToSet(queue) \cup {next}
    BY <1>0, <1>3, <2>1, AppendGains DEF Enqueue
  <2>3. sent' = sent /\ typed' = typed
    BY <1>3 DEF Enqueue
  <2>4. QED
    BY <1>1, <1>2, <2>1, <2>2, <2>3 DEF Places
<1>4. CASE StartWorker
  <2>1. /\ ui \in {"starting", "draining"} /\ InHand' = <<>>
        /\ queue' = queue /\ typed' = typed
    BY <1>4 DEF StartWorker, InHand
  <2>2. CASE next = Compact
    <3>1. InHand = <<>> /\ sent' = sent
      BY <1>4, <2>2 DEF StartWorker, StartCompact, InHand
    <3>2. QED
      BY <2>1, <3>1 DEF Places
  <2>3. CASE next # Compact
    <3>1. InHand = <<next>> /\ sent' = Append(sent, next)
      BY <1>4, <2>1, <2>3 DEF StartWorker, StartTurn, InHand
    <3>2. Len(sent') = Len(sent) + 1 /\ ToSet(sent') = ToSet(sent) \cup {next}
      BY <1>0, <2>3, <3>1, AppendGains
    <3>3. QED
      BY <1>1, <1>2, <2>1, <3>1, <3>2 DEF Places
  <2>4. QED
    BY <2>2, <2>3
<1>5. CASE EndOfBatch
  <2>1. InHand = <<>> /\ sent' = sent /\ typed' = typed
    BY <1>5 DEF EndOfBatch, InHand
  <2>2. CASE Idle /\ queue # <<>>
    <3>1. /\ Head(queue) \in Prompt /\ Tail(queue) \in Seq(Prompt)
          /\ Len(queue) = Len(Tail(queue)) + 1
          /\ ToSet(queue) = {Head(queue)} \cup ToSet(Tail(queue))
      BY <1>0, <2>2, TailLoses
    <3>2. queue' = Tail(queue) /\ next' = Head(queue) /\ ui' = "draining"
      BY <1>5, <2>2 DEF EndOfBatch, Popped
    <3>3. InHand' = <<Head(queue)>>
      BY <3>1, <3>2 DEF InHand, Compact, Prompt
    <3>4. Len(InHand') = 1 /\ ToSet(InHand') = {Head(queue)}
      BY <3>3, Singles
    <3>5. Len(Tail(queue)) \in Nat
      BY <3>1
    <3>6. QED
      BY <1>1, <1>2, <2>1, <3>1, <3>2, <3>4, <3>5 DEF Places
  <2>3. CASE ~(Idle /\ queue # <<>>)
    <3>1. queue' = queue /\ ui' = "head"
      BY <1>5, <2>3 DEF EndOfBatch
    <3>2. InHand' = <<>>
      BY <3>1 DEF InHand
    <3>3. QED
      BY <2>1, <3>1, <3>2 DEF Places
  <2>4. QED
    BY <2>2, <2>3
<1>6. CASE LoopHead \/ RequestCancel \/ DialogKey \/ Shutdown \/ Leave
  <2>1. InHand = <<>> /\ InHand' = <<>> /\ UNCHANGED <<sent, queue, typed>>
    BY <1>6 DEF LoopHead, RequestCancel, DialogKey, Shutdown, Leave, InHand
  <2>2. QED
    BY <2>1 DEF Places
<1>7. QED
  BY <1>3, <1>4, <1>5, <1>6 DEF UiStep

(* Every prompt typed is sent, queued or in hand, once, however the turns, *)
(* the cancels, the compactions and the end of the program interleave.     *)
THEOREM NoPromptIsLost == Spec => []PromptsAreKept
<1>1. Init => Places
  <2> SUFFICES ASSUME Init PROVE Places
    OBVIOUS
  <2>1. sent = <<>> /\ queue = <<>> /\ typed = 0 /\ InHand = <<>> /\ 1..0 = {}
    BY DEF Init, InHand
  <2>2. Len(<<>>) = 0 /\ ToSet(<<>>) = {}
    BY Singles
  <2>3. /\ Len(sent) = 0 /\ Len(queue) = 0 /\ Len(InHand) = 0 /\ ToSet(sent) = {}
        /\ ToSet(queue) = {} /\ ToSet(InHand) = {}
    BY <2>1, <2>2, Zenon
  <2>4. QED
    BY <2>1, <2>3 DEF Places
<1>2. SessionInv /\ SessionInv' /\ Places /\ [Next]_vars => Places'
  <2>1. Places /\ UNCHANGED vars => Places'
    BY DEF Places, InHand, vars, terminal
  <2>2. Places /\ WorkerStep => Places'
    <3>1. WorkerStep => UNCHANGED <<terminal, queue, sent>>
      BY DEF WorkerStep, Hop, Stream, Dispatch, Ask, Told, Return, Saved, KeepUi
    <3>2. QED
      BY <3>1 DEF Places, InHand, terminal
  <2>3. QED
    BY <2>1, <2>2, PlacesKeys, PlacesUi DEF Next, SessionInv
<1>3. SessionInv /\ Places => PromptsAreKept
  BY PlacesAreKept DEF SessionInv
<1>4. QED
  BY <1>1, <1>2, <1>3, SessionInvariant, PTL DEF Spec
=============================================================================
