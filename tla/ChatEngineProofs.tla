-------------------------- MODULE ChatEngineProofs --------------------------
(***************************************************************************)
(* Proofs about ChatEngine, for every value of its constants.  The         *)
(* messages are typed first; the control state and its budgets need no     *)
(* more of them than that, the nudges and the outcomes look at the roles,  *)
(* the cache at everything the template renders.                           *)
(***************************************************************************)
EXTENDS ChatEngine, FiniteSetTheorems, SequenceTheorems, WellFoundedInduction, TLAPS

-----------------------------------------------------------------------------
(* Flattening a sequence of sequences, for the transcript.  FlattenSeq     *)
(* is a recursive function, so what it computes is shown by looking at the *)
(* least index where it could be wrong: the natural numbers are well       *)
(* founded, and that much of induction needs no operator parameter.        *)
LEMMA LeastNat ==
  ASSUME NEW T \in SUBSET Nat, T # {}
  PROVE  \E x \in T : \A y \in T : x <= y
<1> DEFINE R == OpToRel(<, Nat)
<1>1. IsWellFoundedOn(R, Nat)
  BY NatLessThanWellFounded
<1>2. \A x, y \in Nat : x < y => <<x, y>> \in R
  BY DEF OpToRel
<1> HIDE DEF R
<1>3. PICK x \in T : \A y \in T : ~ (<<y, x>> \in R)
  BY <1>1, WFMin
<1>4. \A y \in T : x <= y
  <2> SUFFICES ASSUME NEW y \in T PROVE x <= y
    OBVIOUS
  <2>1. x \in Nat /\ y \in Nat
    OBVIOUS
  <2>2. ~(y < x)
    BY <1>2, <1>3, <2>1
  <2>3. QED
    BY <2>1, <2>2
<1>5. QED
  BY <1>4

(* The greatest element of a bounded set is the least one seen from the    *)
(* bound.                                                                  *)
LEMMA GreatestNat ==
  ASSUME NEW n \in Nat, NEW S \in SUBSET (0..n), S # {}
  PROVE  \E x \in S : \A y \in S : y <= x
<1> DEFINE T == {k \in 0..n : n - k \in S}
<1>1. T \in SUBSET Nat /\ T # {}
  <2>1. PICK y \in S : TRUE
    OBVIOUS
  <2>2. n - y \in 0..n /\ n - (n - y) = y
    OBVIOUS
  <2>3. n - y \in T
    BY <2>2
  <2>4. T \in SUBSET Nat
    OBVIOUS
  <2> HIDE DEF T
  <2>5. QED
    BY <2>3, <2>4
<1>2. PICK t \in T : \A u \in T : t <= u
  <2> HIDE DEF T
  <2> QED BY <1>1, LeastNat
<1>3. n - t \in S
  BY <1>2
<1>4. \A y \in S : y <= n - t
  <2> SUFFICES ASSUME NEW y \in S PROVE y <= n - t
    OBVIOUS
  <2>1. y \in 0..n /\ t \in 0..n /\ n - y \in 0..n /\ n - (n - y) = y
    OBVIOUS
  <2>2. n - y \in T
    BY <2>1
  <2>3. t <= n - y
    BY <1>2, <2>2
  <2>4. QED
    BY <2>1, <2>3
<1>5. QED
  BY <1>3, <1>4

(* g holds the concatenations of the first 1, 2, ... k elements of s.       *)
Unrolled(s, k, g) ==
  g = [i \in 1..k |-> IF i = 1 THEN s[i] ELSE g[i-1] \o s[i]]

LEMMA UnrolledExists ==
  ASSUME NEW T, NEW s \in Seq(Seq(T)), NEW n \in 1..Len(s)
  PROVE  \E g \in [1..n -> Seq(T)] : Unrolled(s, n, g)
<1> DEFINE Bad == {k \in 1..Len(s) : ~ \E g \in [1..k -> Seq(T)] : Unrolled(s, k, g)}
<1>1. ASSUME Bad # {} PROVE FALSE
  <2>1. PICK k \in Bad : \A j \in Bad : k <= j
    <3>1. Bad \in SUBSET Nat
      OBVIOUS
    <3> HIDE DEF Bad
    <3>2. QED
      BY <1>1, <3>1, LeastNat
  <2>2. k \in 1..Len(s) /\ ~ \E g \in [1..k -> Seq(T)] : Unrolled(s, k, g)
    OBVIOUS
  <2>3. s[k] \in Seq(T)
    BY <2>2
  <2>4. CASE k = 1
    <3> DEFINE g == [i \in 1..k |-> s[k]]
    <3>1. g \in [1..k -> Seq(T)]
      BY <2>3
    <3>2. Unrolled(s, k, g)
      BY <2>4 DEF Unrolled
    <3>3. QED
      BY <2>2, <3>1, <3>2
  <2>5. CASE k > 1
    <3>0. Len(s) \in Nat /\ k \in Nat /\ k <= Len(s)
      BY <2>2
    <3>1. k - 1 \in 1..Len(s) /\ k - 1 \notin Bad
      <4>1. k - 1 \in 1..Len(s) /\ ~(k <= k - 1)
        BY <3>0, <2>5
      <4> HIDE DEF Bad
      <4>2. QED
        BY <2>1, <4>1
    <3>2. PICK h \in [1..(k-1) -> Seq(T)] : Unrolled(s, k - 1, h)
      BY <3>1
    <3>3. \A i \in 1..(k-1) : h[i] = IF i = 1 THEN s[i] ELSE h[i-1] \o s[i]
      BY <3>2 DEF Unrolled
    <3> DEFINE g == [i \in 1..k |-> IF i < k THEN h[i] ELSE h[k-1] \o s[k]]
    <3>4. g \in [1..k -> Seq(T)]
      <4> SUFFICES ASSUME NEW i \in 1..k
                   PROVE  (IF i < k THEN h[i] ELSE h[k-1] \o s[k]) \in Seq(T)
        OBVIOUS
      <4>1. CASE i < k
        BY <4>1, <2>2
      <4>2. CASE i = k
        <5>1. h[k-1] \in Seq(T)
          BY <2>2, <2>5
        <5>2. QED
          BY <4>2, <5>1, <2>3, ConcatProperties
      <4>3. QED
        BY <4>1, <4>2, <2>2
    <3>5. ASSUME NEW i \in 1..k PROVE g[i] = IF i = 1 THEN s[i] ELSE g[i-1] \o s[i]
      <4>1. CASE i < k
        <5>1. i \in 1..(k-1) /\ g[i] = h[i]
          BY <4>1, <2>2
        <5>2. i # 1 => g[i-1] = h[i-1]
          BY <4>1, <2>2
        <5>3. QED
          BY <5>1, <5>2, <3>3
      <4>2. CASE i = k
        <5>1. g[i] = h[k-1] \o s[k]
          <6>1. i \in 1..k /\ ~(i < k)
            BY <4>2, <3>0
          <6>2. QED
            BY <6>1
        <5>2. g[i-1] = h[k-1]
          BY <4>2, <2>2, <2>5
        <5>3. QED
          BY <4>2, <5>1, <5>2, <2>5
      <4>3. QED
        BY <4>1, <4>2, <2>2
    <3>6. Unrolled(s, k, g)
      <4>1. g = [i \in 1..k |-> g[i]]
        OBVIOUS
      <4> HIDE DEF g
      <4>2. QED
        BY <3>5, <4>1 DEF Unrolled
    <3> HIDE DEF g
    <3>7. QED
      BY <2>2, <3>4, <3>6
  <2>6. QED
    BY <2>2, <2>4, <2>5
<1>2. QED
  BY <1>1

LEMMA UnrolledUnique ==
  ASSUME NEW s, NEW n \in Nat, NEW g, NEW h, Unrolled(s, n, g), Unrolled(s, n, h)
  PROVE  \A i \in 1..n : g[i] = h[i]
<1>1. /\ \A i \in 1..n : g[i] = IF i = 1 THEN s[i] ELSE g[i-1] \o s[i]
      /\ \A i \in 1..n : h[i] = IF i = 1 THEN s[i] ELSE h[i-1] \o s[i]
  BY DEF Unrolled
<1> DEFINE Bad == {i \in 1..n : g[i] # h[i]}
<1>2. ASSUME Bad # {} PROVE FALSE
  <2>1. PICK i \in Bad : \A m \in Bad : i <= m
    <3>1. Bad \in SUBSET Nat
      OBVIOUS
    <3> HIDE DEF Bad
    <3>2. QED
      BY <1>2, <3>1, LeastNat
  <2>2. i \in 1..n /\ g[i] # h[i]
    OBVIOUS
  <2>3. i # 1
    BY <1>1, <2>2
  <2>4. i - 1 \in 1..n /\ ~(i <= i - 1)
    BY <2>2, <2>3
  <2>5. i - 1 \notin Bad
    <3> HIDE DEF Bad
    <3> QED BY <2>1, <2>4
  <2>6. g[i-1] = h[i-1]
    BY <2>4, <2>5
  <2>7. QED
    BY <1>1, <2>2, <2>3, <2>6
<1>3. QED
  BY <1>2

(* The function FlattenSeq chooses is one that unrolls the sequence.       *)
LEMMA FlattenUnrolls ==
  ASSUME NEW T, NEW s \in Seq(Seq(T)), s # <<>>
  PROVE  \E g \in [1..Len(s) -> Seq(T)] :
           Unrolled(s, Len(s), g) /\ FlattenSeq(s) = g[Len(s)]
<1> DEFINE f == CHOOSE g : g = [i \in 1..Len(s) |-> IF i = 1 THEN s[i] ELSE g[i-1] \o s[i]]
<1>1. Len(s) \in 1..Len(s) /\ Len(s) # 0
  BY EmptySeq
<1>2. PICK h \in [1..Len(s) -> Seq(T)] : Unrolled(s, Len(s), h)
  BY <1>1, UnrolledExists
<1>3. FlattenSeq(s) = f[Len(s)]
  BY <1>1 DEF FlattenSeq
<1>4. Unrolled(s, Len(s), f)
  BY <1>2 DEF Unrolled
<1> HIDE DEF f
<1>5. \A i \in 1..Len(s) : f[i] = h[i]
  BY <1>2, <1>4, UnrolledUnique
<1>6. FlattenSeq(s) = h[Len(s)]
  BY <1>1, <1>3, <1>5
<1>7. QED
  BY <1>2, <1>6

(* Flattening one element more concatenates it.                            *)
LEMMA FlattenAppend ==
  ASSUME NEW T, NEW s \in Seq(Seq(T)), NEW x \in Seq(T)
  PROVE  /\ FlattenSeq(s) \in Seq(T)
         /\ FlattenSeq(Append(s, x)) = FlattenSeq(s) \o x
<1> DEFINE t == Append(s, x)
<1>1. /\ Len(s) \in Nat /\ t \in Seq(Seq(T)) /\ t # <<>> /\ Len(t) = Len(s) + 1
      /\ t[Len(t)] = x /\ \A i \in 1..Len(s) : t[i] = s[i]
  BY AppendProperties, EmptySeq
<1> HIDE DEF t
<1>2. PICK h \in [1..Len(t) -> Seq(T)] : Unrolled(t, Len(t), h) /\ FlattenSeq(t) = h[Len(t)]
  BY <1>1, FlattenUnrolls
<1>3. \A i \in 1..Len(t) : h[i] = IF i = 1 THEN t[i] ELSE h[i-1] \o t[i]
  BY <1>2 DEF Unrolled
<1>4. CASE s = <<>>
  <2>1. FlattenSeq(s) = <<>> /\ Len(s) = 0
    BY <1>4 DEF FlattenSeq
  <2>2. FlattenSeq(t) = x
    BY <1>1, <1>2, <1>3, <2>1
  <2>3. QED
    BY <2>1, <2>2, ConcatEmptySeq DEF t
<1>5. CASE s # <<>>
  <2>1. PICK g \in [1..Len(s) -> Seq(T)] : Unrolled(s, Len(s), g) /\ FlattenSeq(s) = g[Len(s)]
    BY <1>5, FlattenUnrolls
  <2>2. Len(s) \in 1..Len(s)
    BY <1>1, <1>5, EmptySeq
  <2>3. g[Len(s)] = h[Len(s)]
    <3> DEFINE r == [i \in 1..Len(s) |-> h[i]]
    <3>1. \A i \in 1..Len(s) : r[i] = IF i = 1 THEN s[i] ELSE r[i-1] \o s[i]
      <4> SUFFICES ASSUME NEW i \in 1..Len(s)
                   PROVE  r[i] = IF i = 1 THEN s[i] ELSE r[i-1] \o s[i]
        OBVIOUS
      <4>1. i \in 1..Len(t) /\ t[i] = s[i] /\ r[i] = h[i]
        BY <1>1
      <4>2. i # 1 => r[i-1] = h[i-1]
        BY <1>1
      <4> HIDE DEF r
      <4>3. QED
        BY <1>3, <4>1, <4>2
    <3>2. r = [i \in 1..Len(s) |-> r[i]]
      OBVIOUS
    <3>3. r[Len(s)] = h[Len(s)]
      BY <2>2
    <3> HIDE DEF r
    <3>4. Unrolled(s, Len(s), r)
      BY <3>1, <3>2 DEF Unrolled
    <3>5. QED
      BY <2>1, <2>2, <3>3, <3>4, UnrolledUnique
  <2>4. h[Len(t)] = h[Len(s)] \o x
    <3>1. /\ Len(t) \in 1..Len(t) /\ Len(t) # 1 /\ Len(t) - 1 = Len(s)
      BY <1>1, <2>2
    <3>2. QED
      BY <1>1, <1>3, <3>1
  <2>5. QED
    BY <1>2, <2>1, <2>2, <2>3, <2>4 DEF t
<1>6. QED
  BY <1>4, <1>5

LEMMA FlattenTyped ==
  ASSUME NEW T, NEW s \in Seq(Seq(T))
  PROVE  FlattenSeq(s) \in Seq(T)
<1>1. <<>> \in Seq(T)
  OBVIOUS
<1>2. QED
  BY <1>1, FlattenAppend
-----------------------------------------------------------------------------
(* The number of tool calls the parser finds in a turn is a number.        *)
LEMMA NumCallsIsNat ==
  ASSUME NEW body \in Seq(Token)
  PROVE  NumCalls(body) \in Nat
<1> DEFINE S == {i \in DOMAIN body : body[i] = "call"}
<1>1. DOMAIN body = 1 .. Len(body) /\ Len(body) \in Nat
  OBVIOUS
<1>2. IsFiniteSet(1 .. Len(body))
  BY <1>1, FS_Interval
<1>3. IsFiniteSet(S)
  BY <1>1, <1>2, FS_Subset
<1>4. QED
  BY <1>3, FS_CardinalityType DEF NumCalls

(* A turn without its reasoning, and a turn written again by the template, *)
(* is still a sequence of tokens.                                          *)
LEMMA ThinkingDropped ==
  ASSUME NEW body \in Seq(Token)
  PROVE  WithoutThinking(body) \in Seq(Token)
<1> DEFINE s == [k \in DOMAIN body |-> IF body[k] = "think" THEN <<>> ELSE <<body[k]>>]
<1>1. \A k \in 1 .. Len(body) :
        (IF body[k] = "think" THEN <<>> ELSE <<body[k]>>) \in Seq(Token)
  OBVIOUS
<1>2. DOMAIN body = 1 .. Len(body) /\ Len(body) \in Nat
  OBVIOUS
<1>3. s \in Seq(Seq(Token))
  BY <1>1, <1>2, IsASeq
<1> HIDE DEF s
<1>4. FlattenSeq(s) \in Seq(Token)
  BY <1>3, FlattenTyped
<1>5. QED
  BY <1>4 DEF WithoutThinking, s

LEMMA RerenderedIsTyped ==
  ASSUME NEW body \in Seq(Token), NEW r \in Rerendered(body)
  PROVE  r \in Seq(Token)
<1>1. Respelt(body) \in Seq(Token)
  <2>1. \A i \in 1 .. Len(body) :
          (IF body[i] = "call" THEN "recall" ELSE body[i]) \in Token
    BY DEF Token
  <2>2. DOMAIN body = 1 .. Len(body) /\ Len(body) \in Nat
    OBVIOUS
  <2>3. QED
    BY <2>1, <2>2, IsASeq DEF Respelt
<1>2. <<"blank">> \o Respelt(body) \in Seq(Token)
  <2>1. <<"blank">> \in Seq(Token)
    BY DEF Token
  <2>2. QED
    BY <1>1, <2>1, ConcatProperties
<1>3. WithoutThinking(Respelt(body)) \in Seq(Token)
  BY <1>1, ThinkingDropped
<1>4. QED
  BY <1>1, <1>2, <1>3 DEF Rerendered

(* What a turn becomes is an assistant message.                            *)
LEMMA ParsedAreMessages ==
  ASSUME NEW body \in Seq(Token), NEW m \in Parsed(body)
  PROVE  /\ m \in Message /\ m.role = "assistant"
         /\ m.calls \in Nat /\ m.calls = NumCalls(body)
<1>1. PICK r \in Rerendered(body) :
        m = [role |-> "assistant", body |-> r, calls |-> NumCalls(body)]
  BY DEF Parsed
<1>2. r \in Seq(Token) /\ NumCalls(body) \in Nat
  BY <1>1, RerenderedIsTyped, NumCallsIsNat
<1>3. QED
  BY <1>1, <1>2 DEF Message, Role

LEMMA TurnsAreMessages ==
  ASSUME NEW body \in Seq(Generated), NEW m \in Turns(body)
  PROVE  m \in Message /\ m.role = "assistant" /\ m.calls \in Nat
<1>1. body \in Seq(Token)
  BY DEF Generated, Token
<1>2. ASSUME NEW sort \in {"announce", "text"}
      PROVE  Promoted(body, sort) \in Seq(Token)
  BY <1>1, <1>2, AppendProperties DEF Promoted, Token, Generated
<1>3. PICK b \in Seq(Token) : m \in Parsed(b)
  BY <1>1, <1>2 DEF Turns
<1>4. QED
  BY <1>3, ParsedAreMessages

(* A hop dispatches at least one call and never more than the cap.         *)
LEMMA DispatchedBounds ==
  ASSUME NEW n \in Nat, n > 0
  PROVE  Dispatched(n) \in 1 .. (IF ParallelToolCalls THEN MaxParallelCalls ELSE 1)
BY BudgetAssumption DEF Dispatched

(* The histories calls start from are sequences of messages.               *)
LEMMA HistoriesAreMessages ==
  /\ UserMessage \in Message /\ Nudge \in Message /\ ToolMessage \in Message
  /\ BaseHistory \in Seq(Message)
  /\ \A h \in ClientHistories : Replaced(h) \in Seq(Message)
<1>1. /\ SystemMessage \in Message /\ UserMessage \in Message
      /\ Nudge \in Message /\ ToolMessage \in Message
  BY DEF SystemMessage, UserMessage, Nudge, ToolMessage, Msg, Message, Role,
         Token, Generated
<1>2. BaseHistory \in Seq(Message)
  BY <1>1 DEF BaseHistory
<1>3. ASSUME NEW h \in ClientHistories PROVE Replaced(h) \in Seq(Message)
  BY <1>2, HistoryAssumption DEF Replaced
<1>4. QED
  BY <1>1, <1>2, <1>3
-----------------------------------------------------------------------------
(* The sequence operations the steps use, in the form the steps use them.  *)
LEMMA Appended ==
  ASSUME NEW S, NEW s \in Seq(S), NEW e \in S
  PROVE  Append(s, e) \in Seq(S)
OBVIOUS

LEMMA EmptyIsTyped ==
  ASSUME NEW S
  PROVE  <<>> \in Seq(S)
OBVIOUS
-----------------------------------------------------------------------------
(* The history and the turn stay sequences of messages and of tokens.      *)
LEMMA MessagesInit == Init => MessagesTypeOK
<1> SUFFICES ASSUME Init PROVE MessagesTypeOK
  OBVIOUS
<1>1. history = BaseHistory /\ raw = <<>>
  BY DEF Init
<1>2. history \in Seq(Message)
  BY <1>1, HistoriesAreMessages
<1>3. raw \in Seq(Generated)
  BY <1>1, EmptyIsTyped
<1>4. QED
  BY <1>2, <1>3 DEF MessagesTypeOK

LEMMA MessagesEngineStep == MessagesTypeOK /\ EngineStep => MessagesTypeOK'
<1> SUFFICES ASSUME MessagesTypeOK, EngineStep PROVE MessagesTypeOK'
  OBVIOUS
<1>1. history \in Seq(Message) /\ raw \in Seq(Generated)
  BY DEF MessagesTypeOK
<1>2. ASSUME NEW m \in Message, history' = Append(history, m), raw' = raw
      PROVE  MessagesTypeOK'
  <2>1. history' \in Seq(Message)
    BY <1>1, <1>2, Appended
  <2>2. QED
    BY <1>1, <1>2, <2>1 DEF MessagesTypeOK
<1>3. CASE UNCHANGED <<history, raw>>
  BY <1>3 DEF MessagesTypeOK
<1>4. LoopHead \/ EndOfTurn \/ LoopFails \/ ThoughtRetry \/ OneFails
        => UNCHANGED <<history, raw>>
  BY DEF OutOfHops, LoopHead, EndOfTurn, LoopFails, ThoughtRetry, OneFails
<1>5. CASE FeedPrompt
  <2>1. history' = history /\ raw' = <<>>
    BY <1>5 DEF FeedPrompt
  <2>2. raw' \in Seq(Generated)
    BY <2>1, EmptyIsTyped
  <2>3. QED
    BY <1>1, <2>1, <2>2 DEF MessagesTypeOK
<1>6. ASSUME NEW t \in Generated, Emit(t) PROVE MessagesTypeOK'
  <2>1. history' = history /\ raw' = Append(raw, t)
    BY <1>6 DEF Emit
  <2>2. raw' \in Seq(Generated)
    BY <1>1, <2>1, Appended
  <2>3. QED
    BY <1>1, <2>1, <2>2 DEF MessagesTypeOK
<1>7. ASSUME NEW m \in Turns(raw), AfterTurn(m) PROVE MessagesTypeOK'
  <2>1. m \in Message /\ Nudge \in Message
    BY <1>1, TurnsAreMessages, HistoriesAreMessages
  <2>2. /\ history' = Append(history, m) \/ history' = Append(history, Nudge)
        /\ raw' = raw
    BY <1>7 DEF AfterTurn, StopAtCeiling, AnnounceRetry, Answer, StartTools, Push
  <2>3. QED
    BY <1>2, <2>1, <2>2
<1>8. CASE DispatchTool
  <2>1. history' = Append(history, ToolMessage) /\ raw' = raw
    BY <1>8 DEF DispatchTool, Push
  <2>2. QED
    BY <1>2, <2>1, HistoriesAreMessages
<1>9. CASE ZeroWorkRetry
  <2>1. /\ history' = Append(history, Nudge) \/ history' = history
        /\ raw' = raw
    BY <1>9 DEF ZeroWorkRetryDue, ZeroWorkRetry, Push
  <2>2. QED
    BY <1>2, <1>3, <2>1, HistoriesAreMessages
<1>10. CASE OneAnswers
  <2>1. raw \in Seq(Token)
    BY <1>1 DEF Generated, Token
  <2>2. PICK m \in Parsed(raw) : Push(m) /\ Finish(IF m.calls = 0 THEN "answer" ELSE "tool_calls")
    BY <1>10 DEF OneAnswers
  <2>3. m \in Message /\ m.role = "assistant" /\ m.calls \in Nat
    BY <2>1, <2>2, ParsedAreMessages
  <2>4. history' = Append(history, m) /\ raw' = raw
    BY <1>10, <2>2 DEF OneAnswers, Push
  <2>5. QED
    BY <1>2, <2>3, <2>4
<1>11. QED
  BY <1>3, <1>4, <1>5, <1>6, <1>7, <1>8, <1>9, <1>10 DEF EngineStep

LEMMA MessagesCallerStep == MessagesTypeOK /\ CallerStep => MessagesTypeOK'
<1> SUFFICES ASSUME MessagesTypeOK, CallerStep PROVE MessagesTypeOK'
  OBVIOUS
<1>1. history \in Seq(Message) /\ raw \in Seq(Generated)
  BY DEF MessagesTypeOK
<1>2. ASSUME NEW h \in Seq(Message), history' = h, raw' = raw \/ raw' = <<>>
      PROVE  MessagesTypeOK'
  <2>1. raw' \in Seq(Generated)
    BY <1>1, <1>2, EmptyIsTyped
  <2>2. QED
    BY <1>2, <2>1 DEF MessagesTypeOK
<1>3. CASE Chat
  <2>1. history' = Append(history, UserMessage) /\ raw' = <<>>
    BY <1>3 DEF Chat, Enter
  <2>2. Append(history, UserMessage) \in Seq(Message)
    BY <1>1, Appended, HistoriesAreMessages
  <2>3. QED
    BY <1>2, <2>1, <2>2
<1>4. ASSUME NEW m \in {"loop", "one"}, NEW h \in ClientHistories,
             NEW streamed \in BOOLEAN, Request(m, h, streamed)
      PROVE  MessagesTypeOK'
  <2>1. /\ history' = Replaced(h) \/ history' = Append(Replaced(h), UserMessage)
        /\ raw' = <<>>
    BY <1>4 DEF Request, Enter
  <2>2. /\ Replaced(h) \in Seq(Message)
        /\ Append(Replaced(h), UserMessage) \in Seq(Message)
    BY HistoriesAreMessages, Appended
  <2>3. QED
    BY <1>2, <2>1, <2>2
<1>5. CASE ClearHistory
  <2>1. history' = <<>> /\ raw' = raw
    BY <1>5 DEF ClearHistory
  <2>2. QED
    BY <1>2, <2>1, EmptyIsTyped
<1>6. CASE Reset
  <2>1. history' = BaseHistory /\ raw' = raw
    BY <1>6 DEF Reset
  <2>2. QED
    BY <1>2, <2>1, HistoriesAreMessages
<1>7. ASSUME NEW n \in 1..2, PopLast(n) PROVE MessagesTypeOK'
  <2> DEFINE kept == IF n < Len(history) THEN Len(history) - n ELSE 0
  <2>1. Len(history) \in Nat /\ kept \in 0 .. Len(history)
    BY <1>1
  <2>2. \A i \in 1 .. kept : history[i] \in Message
    BY <1>1, <2>1
  <2>3. SubSeq(history, 1, kept) \in Seq(Message)
    BY <1>1, <2>1, <2>2, SubSeqProperties
  <2>4. history' = SubSeq(history, 1, kept) /\ raw' = raw
    BY <1>7 DEF PopLast
  <2>5. QED
    BY <1>2, <2>3, <2>4
<1>8. RequestCancel \/ ClearKv => UNCHANGED <<history, raw>>
  BY DEF RequestCancel, ClearKv
<1>9. QED
  BY <1>1, <1>2, <1>3, <1>4, <1>5, <1>6, <1>7, <1>8 DEF CallerStep

(* Whatever the model generates and the program does, the history holds    *)
(* messages and a turn holds tokens.                                       *)
THEOREM MessagesTyped == Spec => []MessagesTypeOK
<1>1. MessagesTypeOK /\ UNCHANGED vars => MessagesTypeOK'
  BY DEF MessagesTypeOK, vars
<1>2. MessagesTypeOK /\ [Next]_vars => MessagesTypeOK'
  BY <1>1, MessagesEngineStep, MessagesCallerStep DEF Next
<1>3. QED
  BY MessagesInit, <1>2, PTL DEF Spec
-----------------------------------------------------------------------------
(* The inductive invariant behind the budgets.  WithinBudgets alone is not *)
(* inductive: a tool of a single turn (mode "one") could pass the hop      *)
(* budget; that such a state is never reached has to be said.              *)
LoopInv ==
  /\ ControlTypeOK /\ WithinBudgets
  /\ at \in {"hop", "tool"} => mode = "loop"

LEMMA LoopInvInit == MessagesTypeOK /\ Init => LoopInv
<1> SUFFICES ASSUME MessagesTypeOK, Init PROVE LoopInv
  OBVIOUS
<1>1. turnStart \in Nat
  BY DEF Init, MessagesTypeOK
<1>2. ControlTypeOK
  BY <1>1 DEF Init, ControlTypeOK
<1>3. WithinBudgets
  BY BudgetAssumption DEF Init, WithinBudgets
<1>4. QED
  BY <1>2, <1>3 DEF Init, LoopInv

LEMMA LoopInvEngineStep == MessagesTypeOK /\ LoopInv /\ EngineStep => LoopInv'
<1> SUFFICES ASSUME MessagesTypeOK, LoopInv, EngineStep PROVE LoopInv'
  OBVIOUS
<1> USE DEF LoopInv, ControlTypeOK, WithinBudgets, counters
<1>1. CASE LoopHead
  BY <1>1, BudgetAssumption DEF OutOfHops, LoopHead, Finish
<1>2. CASE FeedPrompt
  BY <1>2 DEF FeedPrompt
<1>3. CASE EndOfTurn
  BY <1>3 DEF EndOfTurn
<1>4. ASSUME NEW t \in Generated, Emit(t) PROVE LoopInv'
  BY <1>4 DEF Emit
<1>5. CASE LoopFails
  BY <1>5 DEF LoopFails, InLoopTurn, Finish
<1>6. CASE ThoughtRetry
  BY <1>6, BudgetAssumption DEF ThoughtRetry, ThoughtRetryDue, InLoopTurn
<1>7. ASSUME NEW m \in Turns(raw), AfterTurn(m) PROVE LoopInv'
  <2>1. m.calls \in Nat
    BY TurnsAreMessages DEF MessagesTypeOK
  <2>0. at = "turn" /\ mode = "loop" /\ thoughtRetries' = 0
    BY <1>7 DEF AfterTurn, StopAtCeiling, AnnounceRetry, Answer, StartTools,
                TurnAccepted, InLoopTurn
  <2>2. CASE StopAtCeiling(m)
    BY <2>0, <2>2, BudgetAssumption DEF StopAtCeiling, Finish
  <2>3. CASE AnnounceRetry(m)
    BY <2>0, <2>3, BudgetAssumption DEF AnnounceRetry, AnnounceRetryDue
  <2>4. CASE Answer(m)
    BY <2>0, <2>4, BudgetAssumption DEF Answer, Finish
  <2>5. CASE StartTools(m)
    <3>1. Dispatched(m.calls) \in Nat \ {0}
      BY <2>1, <2>5, DispatchedBounds, BudgetAssumption DEF StartTools
    <3>2. QED
      BY <2>0, <2>5, <3>1, BudgetAssumption DEF StartTools
  <2>6. QED
    BY <1>7, <2>2, <2>3, <2>4, <2>5 DEF AfterTurn
<1>8. CASE DispatchTool
  BY <1>8, BudgetAssumption DEF DispatchTool
<1>9. CASE ZeroWorkRetry
  BY <1>9, BudgetAssumption DEF ZeroWorkRetryDue, ZeroWorkRetry, InOneTurn
<1>10. CASE OneFails
  BY <1>10 DEF OneFails, InOneTurn, Finish
<1>11. CASE OneAnswers
  BY <1>11 DEF OneAnswers, InOneTurn, Finish
<1>12. QED
  BY <1>1, <1>2, <1>3, <1>4, <1>5, <1>6, <1>7, <1>8, <1>9, <1>10, <1>11
  DEF EngineStep

LEMMA LoopInvCallerStep ==
  MessagesTypeOK /\ MessagesTypeOK' /\ LoopInv /\ CallerStep => LoopInv'
<1> SUFFICES ASSUME MessagesTypeOK, MessagesTypeOK', LoopInv, CallerStep
             PROVE  LoopInv'
  OBVIOUS
<1>1. Len(history) \in Nat /\ Len(history') \in Nat
  BY DEF MessagesTypeOK
<1>2. ASSUME NEW m \in {"loop", "one"}, NEW h, Enter(m, h),
             UNCHANGED cancel \/ cancel' = FALSE
      PROVE  LoopInv'
  <2>1. turnStart' \in Nat
    BY <1>1, <1>2 DEF Enter
  <2>2. ControlTypeOK'
    BY <1>2, <2>1 DEF LoopInv, ControlTypeOK, Enter
  <2>3. WithinBudgets' /\ at' # "tool" /\ (at' = "hop" => mode' = "loop")
    BY <1>2, BudgetAssumption DEF WithinBudgets, Enter
  <2>4. QED
    BY <2>2, <2>3 DEF LoopInv
<1> USE DEF LoopInv, ControlTypeOK, WithinBudgets, counters
<1>3. CASE Chat
  BY <1>2, <1>3 DEF Chat, Enter
<1>4. ASSUME NEW m \in {"loop", "one"}, NEW h \in ClientHistories,
             NEW streamed \in BOOLEAN, Request(m, h, streamed)
      PROVE  LoopInv'
  BY <1>2, <1>4 DEF Request, Enter
<1>5. CASE RequestCancel
  BY <1>5 DEF RequestCancel
<1>6. CASE ClearHistory
  BY <1>6 DEF ClearHistory
<1>7. CASE Reset
  BY <1>1, <1>7 DEF Reset
<1>8. CASE ClearKv
  BY <1>8 DEF ClearKv
<1>9. ASSUME NEW n \in 1..2, PopLast(n) PROVE LoopInv'
  BY <1>1, <1>9 DEF PopLast
<1>10. QED
  BY <1>3, <1>4, <1>5, <1>6, <1>7, <1>8, <1>9 DEF CallerStep

(* The turn loop stays within its budgets for every setting of them and    *)
(* every way the model, the tools and the client behave.                   *)
THEOREM BudgetsHold == Spec => []WithinBudgets
<1>1. LoopInv /\ UNCHANGED vars => LoopInv'
  BY DEF LoopInv, ControlTypeOK, WithinBudgets, vars, counters
<1>2. MessagesTypeOK /\ MessagesTypeOK' /\ LoopInv /\ [Next]_vars => LoopInv'
  BY <1>1, LoopInvEngineStep, LoopInvCallerStep DEF Next
<1>3. LoopInv => WithinBudgets
  BY DEF LoopInv
<1>4. QED
  BY MessagesInit, LoopInvInit, MessagesTyped, <1>2, <1>3, PTL DEF Spec
-----------------------------------------------------------------------------
(* Every tool message answers a call.  While a hop dispatches its tools    *)
(* the invariant has to promise more: the assistant message still covers   *)
(* the results given so far and those still pending.                       *)
CallsCoverPending ==
  \E j \in turnStart + 1 .. Len(history) :
    /\ history[j].role = "assistant"
    /\ history[j].calls >= Len(history) - j + pending
    /\ \A k \in j + 1 .. Len(history) : history[k].role = "tool"

ToolInv ==
  /\ ToolMessagesAnswerCalls
  /\ turnStart \in Nat /\ turnStart <= Len(history)
  /\ at = "tool" => CallsCoverPending

(* What the answered calls depend on.                                      *)
LEMMA TranscriptFrame ==
  ASSUME UNCHANGED <<history, turnStart>>
  PROVE  /\ ToolMessagesAnswerCalls' <=> ToolMessagesAnswerCalls
         /\ UNCHANGED pending => (CallsCoverPending' <=> CallsCoverPending)
<1>1. history' = history /\ turnStart' = turnStart
  OBVIOUS
<1>2. \A i : AnswersACall(i)' <=> AnswersACall(i)
  BY <1>1, Zenon DEF AnswersACall
<1>3. ToolMessagesAnswerCalls' <=> ToolMessagesAnswerCalls
  BY <1>1, <1>2, Zenon DEF ToolMessagesAnswerCalls
<1>4. ASSUME pending' = pending PROVE CallsCoverPending' <=> CallsCoverPending
  BY <1>1, <1>4, Zenon DEF CallsCoverPending
<1>5. QED
  BY <1>3, <1>4

(* Pushing a message keeps the earlier ones.                               *)
LEMMA PushKeeps ==
  ASSUME history \in Seq(Message), NEW m \in Message, Push(m)
  PROVE  /\ Len(history) \in Nat /\ Len(history') = Len(history) + 1
         /\ history'[Len(history')] = m
         /\ \A i \in 1 .. Len(history) : history'[i] = history[i]
BY DEF Push

(* A message that is no tool result can be pushed at any time, and a tool  *)
(* result when it answers a call.                                          *)
LEMMA PushAnswers ==
  ASSUME history \in Seq(Message), NEW m \in Message, Push(m),
         turnStart' = turnStart, ToolInv,
         m.role = "tool" => AnswersACall(Len(history))'
  PROVE  ToolMessagesAnswerCalls' /\ turnStart' <= Len(history')
<1>1. /\ Len(history) \in Nat /\ Len(history') = Len(history) + 1
      /\ history'[Len(history')] = m
      /\ \A i \in 1 .. Len(history) : history'[i] = history[i]
  BY PushKeeps
<1>2. turnStart \in Nat /\ turnStart <= Len(history)
  BY DEF ToolInv
<1>3. ASSUME NEW i \in turnStart' + 1 .. Len(history'), history'[i].role = "tool"
      PROVE  AnswersACall(i)'
  <2>1. CASE i = Len(history')
    BY <1>1, <1>3, <2>1
  <2>2. CASE i # Len(history')
    <3>1. i \in turnStart + 1 .. Len(history) /\ history[i].role = "tool"
      BY <1>1, <1>2, <1>3, <2>2
    <3>2. PICK j \in turnStart + 1 .. i - 1 :
            /\ history[j].role = "assistant" /\ history[j].calls >= i - j
            /\ \A k \in j + 1 .. i - 1 : history[k].role = "tool"
      BY <3>1 DEF ToolInv, ToolMessagesAnswerCalls, AnswersACall
    <3>3. \A k \in j .. i - 1 : history'[k] = history[k]
      <4>1. \A k \in j .. i - 1 : k \in 1 .. Len(history)
        BY <1>1, <1>2, <3>1, <3>2
      <4>2. QED
        BY <1>1, <4>1
    <3>4. /\ history'[j].role = "assistant" /\ history'[j].calls >= i - j
          /\ \A k \in j + 1 .. i - 1 : history'[k].role = "tool"
      <4>1. j \in j .. i - 1 /\ \A k \in j + 1 .. i - 1 : k \in j .. i - 1
        BY <1>2, <3>2
      <4>2. QED
        BY <3>2, <3>3, <4>1
    <3>5. j \in turnStart' + 1 .. i - 1
      BY <3>2
    <3>6. QED
      BY <3>4, <3>5 DEF AnswersACall
  <2>3. QED
    BY <2>1, <2>2
<1>4. QED
  BY <1>1, <1>2, <1>3 DEF ToolMessagesAnswerCalls

LEMMA ToolInvEngineStep ==
  MessagesTypeOK /\ LoopInv /\ ToolInv /\ EngineStep => ToolInv'
<1> SUFFICES ASSUME MessagesTypeOK, LoopInv, ToolInv, EngineStep PROVE ToolInv'
  OBVIOUS
<1>1. history \in Seq(Message) /\ raw \in Seq(Generated)
  BY DEF MessagesTypeOK
<1>2. ASSUME UNCHANGED <<history, turnStart>>, at' # "tool" PROVE ToolInv'
  BY <1>2, TranscriptFrame DEF ToolInv
<1>3. ASSUME NEW m \in Message, Push(m), turnStart' = turnStart,
             at' # "tool", m.role # "tool"
      PROVE  ToolInv'
  BY <1>1, <1>3, PushAnswers DEF ToolInv
<1>4. Nudge \in Message /\ Nudge.role = "user"
  BY HistoriesAreMessages DEF Nudge, Msg
<1>5. LoopHead \/ FeedPrompt \/ EndOfTurn \/ (\E t \in Generated : Emit(t))
      \/ LoopFails \/ ThoughtRetry \/ OneFails
        => UNCHANGED <<history, turnStart>> /\ at' # "tool"
  BY DEF OutOfHops, LoopHead, FeedPrompt, EndOfTurn, Emit, LoopFails, ThoughtRetry, OneFails,
         Finish
<1>6. ASSUME NEW m \in Turns(raw), AfterTurn(m) PROVE ToolInv'
  <2>1. m \in Message /\ m.role = "assistant" /\ m.calls \in Nat
    BY <1>1, TurnsAreMessages
  <2>2. CASE StopAtCeiling(m) \/ Answer(m)
    <3>1. Push(m) /\ turnStart' = turnStart /\ at' # "tool"
      BY <2>2 DEF StopAtCeiling, Answer, Finish
    <3>2. QED
      BY <1>3, <2>1, <3>1
  <2>3. CASE AnnounceRetry(m)
    <3>1. Push(Nudge) /\ turnStart' = turnStart /\ at' # "tool"
      BY <2>3 DEF AnnounceRetry
    <3>2. QED
      BY <1>3, <1>4, <3>1
  <2>4. CASE StartTools(m)
    <3>1. /\ Push(m) /\ turnStart' = turnStart
          /\ pending' = Dispatched(m.calls) /\ m.calls > 0
      BY <2>4 DEF StartTools
    <3>2. pending' \in Nat /\ pending' <= m.calls
      BY <2>1, <3>1, BudgetAssumption DEF Dispatched
    <3>3. ToolMessagesAnswerCalls' /\ turnStart' <= Len(history')
      BY <1>1, <2>1, <3>1, PushAnswers
    <3>4. /\ Len(history) \in Nat /\ Len(history') = Len(history) + 1
          /\ history'[Len(history')] = m
      BY <1>1, <2>1, <3>1, PushKeeps
    <3>5. CallsCoverPending'
      <4>1. /\ history'[Len(history')].role = "assistant"
            /\ history'[Len(history')].calls
                 >= Len(history') - Len(history') + pending'
            /\ \A k \in Len(history') + 1 .. Len(history') : history'[k].role = "tool"
        BY <2>1, <3>2, <3>4
      <4>2. Len(history') \in turnStart' + 1 .. Len(history')
        BY <3>1, <3>4 DEF ToolInv
      <4>3. QED
        BY <4>1, <4>2 DEF CallsCoverPending
    <3>6. QED
      BY <3>1, <3>3, <3>5 DEF ToolInv
  <2>5. QED
    BY <1>6, <2>2, <2>3, <2>4 DEF AfterTurn
<1>7. CASE DispatchTool
  <2>1. /\ Push(ToolMessage) /\ turnStart' = turnStart /\ pending' = pending - 1
        /\ at = "tool" /\ (at' = "tool" => pending > 1)
    BY <1>7 DEF DispatchTool
  <2>2. ToolMessage \in Message /\ ToolMessage.role = "tool"
    BY HistoriesAreMessages DEF ToolMessage, Msg
  <2>3. /\ Len(history) \in Nat /\ Len(history') = Len(history) + 1
        /\ history'[Len(history')] = ToolMessage
        /\ \A i \in 1 .. Len(history) : history'[i] = history[i]
    BY <1>1, <2>1, <2>2, PushKeeps
  <2>4. pending \in Nat /\ pending > 0 /\ turnStart \in Nat
    BY <2>1 DEF LoopInv, ControlTypeOK, WithinBudgets
  <2>5. PICK j \in turnStart + 1 .. Len(history) :
          /\ history[j].role = "assistant"
          /\ history[j].calls >= Len(history) - j + pending
          /\ \A k \in j + 1 .. Len(history) : history[k].role = "tool"
    BY <2>1 DEF ToolInv, CallsCoverPending
  <2>6. j \in 1 .. Len(history) /\ history[j].calls \in Nat
    <3>1. j \in 1 .. Len(history)
      BY <2>3, <2>4, <2>5
    <3>2. history[j] \in Message
      BY <1>1, <3>1
    <3>3. QED
      BY <3>1, <3>2 DEF Message
  <2>7. history'[j].role = "assistant" /\ history'[j].calls = history[j].calls
    BY <2>3, <2>5, <2>6
  <2>8. \A k \in j + 1 .. Len(history') : history'[k].role = "tool"
    BY <2>2, <2>3, <2>5, <2>6
  <2>9. history'[j].calls >= Len(history') - j + pending'
    BY <2>1, <2>3, <2>4, <2>5, <2>6, <2>7
  <2>10. AnswersACall(Len(history))'
    <3>1. j \in turnStart' + 1 .. Len(history') - 1
      BY <2>1, <2>3, <2>4, <2>5
    <3>2. history'[j].calls >= Len(history') - j
      BY <2>1, <2>3, <2>4, <2>6, <2>7, <2>9
    <3>3. \A k \in j + 1 .. Len(history') - 1 : history'[k].role = "tool"
      BY <2>3, <2>6, <2>8
    <3>4. QED
      BY <2>7, <3>1, <3>2, <3>3 DEF AnswersACall
  <2>11. ToolMessagesAnswerCalls' /\ turnStart' <= Len(history')
    BY <1>1, <2>1, <2>2, <2>10, PushAnswers
  <2>12. CallsCoverPending'
    <3>1. j \in turnStart' + 1 .. Len(history')
      BY <2>1, <2>3, <2>4, <2>5
    <3>2. QED
      BY <2>7, <2>8, <2>9, <3>1 DEF CallsCoverPending
  <2>13. QED
    BY <2>1, <2>11, <2>12 DEF ToolInv
<1>8. CASE ZeroWorkRetry
  <2>1. /\ Push(Nudge) \/ history' = history
        /\ turnStart' = turnStart /\ at' # "tool"
    BY <1>8 DEF ZeroWorkRetryDue, ZeroWorkRetry
  <2>2. QED
    BY <1>2, <1>3, <1>4, <2>1
<1>9. CASE OneAnswers
  <2>1. raw \in Seq(Token)
    BY <1>1 DEF Generated, Token
  <2>2. PICK m \in Parsed(raw) : Push(m) /\ Finish(IF m.calls = 0 THEN "answer" ELSE "tool_calls")
    BY <1>9 DEF OneAnswers
  <2>3. m \in Message /\ m.role = "assistant" /\ m.calls \in Nat
    BY <2>1, <2>2, ParsedAreMessages
  <2>4. turnStart' = turnStart /\ at' # "tool"
    BY <1>9, <2>2 DEF OneAnswers, Finish
  <2>5. QED
    BY <1>3, <2>2, <2>3, <2>4
<1>10. QED
  BY <1>2, <1>5, <1>6, <1>7, <1>8, <1>9 DEF EngineStep

LEMMA ToolInvCallerStep ==
  MessagesTypeOK /\ MessagesTypeOK' /\ LoopInv /\ ToolInv /\ CallerStep => ToolInv'
<1> SUFFICES ASSUME MessagesTypeOK, MessagesTypeOK', LoopInv, ToolInv, CallerStep
             PROVE  ToolInv'
  OBVIOUS
<1>1. Len(history) \in Nat /\ Len(history') \in Nat
  BY DEF MessagesTypeOK
<1>2. ASSUME turnStart' = Len(history'), at' # "tool" PROVE ToolInv'
  BY <1>1, <1>2 DEF ToolInv, ToolMessagesAnswerCalls
<1>3. ASSUME UNCHANGED <<history, turnStart, at, pending>> PROVE ToolInv'
  BY <1>3, TranscriptFrame DEF ToolInv
<1>4. CASE RequestCancel \/ ClearKv
  BY <1>3, <1>4 DEF RequestCancel, ClearKv
<1>5. CASE Chat
  BY <1>2, <1>5 DEF Chat, Enter
<1>6. ASSUME NEW m \in {"loop", "one"}, NEW h \in ClientHistories,
             NEW streamed \in BOOLEAN, Request(m, h, streamed)
      PROVE  ToolInv'
  BY <1>2, <1>6 DEF Request, Enter
<1>7. CASE ClearHistory
  BY <1>2, <1>7 DEF ClearHistory
<1>8. CASE Reset
  BY <1>2, <1>8 DEF Reset
<1>9. ASSUME NEW n \in 1..2, PopLast(n) PROVE ToolInv'
  BY <1>2, <1>9 DEF PopLast
<1>10. QED
  BY <1>4, <1>5, <1>6, <1>7, <1>8, <1>9 DEF CallerStep

(* However many calls a turn makes and however few of them are dispatched, *)
(* no tool message of a call stands in the transcript without the          *)
(* assistant message that asked for it.                                    *)
THEOREM ToolMessagesAreAnswers == Spec => []ToolMessagesAnswerCalls
<1>1. MessagesTypeOK /\ Init => ToolInv
  <2> SUFFICES ASSUME MessagesTypeOK, Init PROVE ToolInv
    OBVIOUS
  <2>1. turnStart = Len(history) /\ Len(history) \in Nat /\ at # "tool"
    BY DEF Init, MessagesTypeOK
  <2>2. QED
    BY <2>1 DEF ToolInv, ToolMessagesAnswerCalls
<1>2. ToolInv /\ UNCHANGED vars => ToolInv'
  BY TranscriptFrame DEF ToolInv, vars
<1>3. LoopInv /\ UNCHANGED vars => LoopInv'
  BY DEF LoopInv, ControlTypeOK, WithinBudgets, vars, counters
<1>4. MessagesTypeOK /\ MessagesTypeOK' /\ LoopInv /\ ToolInv /\ [Next]_vars
        => LoopInv' /\ ToolInv'
  BY <1>2, <1>3, LoopInvEngineStep, LoopInvCallerStep, ToolInvEngineStep,
     ToolInvCallerStep DEF Next
<1>5. ToolInv => ToolMessagesAnswerCalls
  BY DEF ToolInv
<1>6. QED
  BY MessagesInit, LoopInvInit, MessagesTyped, <1>1, <1>4, <1>5, PTL DEF Spec
-----------------------------------------------------------------------------
(* Where the transcript stands.  The outcome of a call depends on how its  *)
(* transcript ends while it runs: never on an assistant message before a   *)
(* turn, and on a tool result when the last hop is used up.                *)
TurnAhead == at \in {"hop", "gen", "decode", "turn"}
EndInv ==
  /\ TurnAhead => history # <<>> /\ Last(history).role # "assistant"
  /\ at = "hop" /\ OutOfHops => Last(history).role = "tool"
  /\ OutcomeMatchesTranscript

(* A pushed message ends the transcript.                                   *)
LEMMA PushEnds ==
  ASSUME history \in Seq(Message), NEW m \in Message, Push(m)
  PROVE  history' # <<>> /\ Last(history') = m
<1>1. /\ Len(history) \in Nat /\ Len(history') = Len(history) + 1
      /\ history'[Len(history')] = m /\ history' \in Seq(Message)
  BY PushKeeps DEF Push
<1>2. QED
  BY <1>1 DEF Last

LEMMA EndInvEngineStep ==
  MessagesTypeOK /\ LoopInv /\ EndInv /\ EngineStep => EndInv'
<1> SUFFICES ASSUME MessagesTypeOK, LoopInv, EndInv, EngineStep PROVE EndInv'
  OBVIOUS
<1>1. history \in Seq(Message) /\ raw \in Seq(Generated)
  BY DEF MessagesTypeOK
<1>2. hop \in Nat /\ (at # "idle" => TurnAhead \/ at = "tool")
  BY DEF LoopInv, ControlTypeOK, TurnAhead
<1>3. Nudge \in Message /\ Nudge.role = "user"
  BY HistoriesAreMessages DEF Nudge, Msg
<1>4. ASSUME TurnAhead, history' = history, at' \in {"gen", "decode", "turn"}
      PROVE  EndInv'
  BY <1>4 DEF EndInv, TurnAhead, OutcomeMatchesTranscript
<1>5. ASSUME TurnAhead, history' = history, at' = "hop", hop' + 1 <= MaxToolHops,
             hop' \in Nat
      PROVE  EndInv'
  BY <1>5, BudgetAssumption DEF EndInv, TurnAhead, OutOfHops, OutcomeMatchesTranscript
<1>6. ASSUME TurnAhead, history' = history, Finish("failed") PROVE EndInv'
  BY <1>6 DEF EndInv, TurnAhead, Finish, OutcomeMatchesTranscript
<1>7. ASSUME NEW m \in Message, Push(m),
             NEW how \in {"answer", "tool_calls", "ctx_full"}, Finish(how),
             m.role = "assistant", how = "answer" => m.calls = 0,
             how = "tool_calls" => m.calls > 0
      PROVE  EndInv'
  <2>1. Last(history') = m
    BY <1>1, <1>7, PushEnds
  <2>2. QED
    BY <1>7, <2>1 DEF EndInv, TurnAhead, Finish, OutcomeMatchesTranscript
<1>8. CASE LoopHead
  <2>1. CASE OutOfHops /\ Finish("exhausted")
    BY <1>8, <2>1 DEF LoopHead, Finish, EndInv, TurnAhead, OutcomeMatchesTranscript
  <2>2. TurnAhead /\ history' = history
    BY <1>8 DEF LoopHead, TurnAhead
  <2>3. CASE Finish("failed") \/ at' = "gen"
    BY <1>4, <1>6, <2>2, <2>3
  <2>4. QED
    BY <1>8, <2>1, <2>3 DEF LoopHead
<1>9. CASE FeedPrompt
  BY <1>4, <1>9 DEF FeedPrompt, TurnAhead
<1>10. CASE EndOfTurn \/ \E t \in Generated : Emit(t)
  BY <1>4, <1>10 DEF EndOfTurn, Emit, TurnAhead
<1>11. CASE LoopFails \/ OneFails
  <2>1. at = "turn" /\ history' = history /\ Finish("failed")
    BY <1>11 DEF LoopFails, OneFails, InLoopTurn, InOneTurn
  <2>2. TurnAhead
    BY <2>1 DEF TurnAhead
  <2>3. QED
    BY <1>6, <2>1, <2>2
<1>12. CASE ThoughtRetry
  <2>1. /\ at = "turn" /\ history' = history /\ at' = "hop"
        /\ hop' = hop + 1 /\ hop + 1 < MaxToolHops
    BY <1>12 DEF ThoughtRetry, ThoughtRetryDue, InLoopTurn
  <2>2. TurnAhead
    BY <2>1 DEF TurnAhead
  <2>3. QED
    BY <1>2, <1>5, <2>1, <2>2, BudgetAssumption
<1>13. ASSUME NEW m \in Turns(raw), AfterTurn(m) PROVE EndInv'
  <2>1. m \in Message /\ m.role = "assistant" /\ m.calls \in Nat
    BY <1>1, TurnsAreMessages
  <2>2. CASE StopAtCeiling(m) \/ Answer(m)
    BY <1>7, <2>1, <2>2 DEF StopAtCeiling, Answer
  <2>3. CASE AnnounceRetry(m)
    <3>1. /\ Push(Nudge) /\ at' = "hop" /\ hop' = hop + 1 /\ hop + 1 < MaxToolHops
          /\ hop \in Nat
      BY <2>3 DEF AnnounceRetry, AnnounceRetryDue, LoopInv, ControlTypeOK
    <3>2. history' # <<>> /\ Last(history') = Nudge
      BY <1>1, <1>3, <3>1, PushEnds
    <3>3. ~OutOfHops'
      BY <3>1, BudgetAssumption DEF OutOfHops
    <3>4. QED
      BY <1>3, <3>1, <3>2, <3>3 DEF EndInv, OutcomeMatchesTranscript
  <2>4. CASE StartTools(m)
    BY <2>4 DEF StartTools, EndInv, TurnAhead, OutcomeMatchesTranscript
  <2>5. QED
    BY <1>13, <2>2, <2>3, <2>4 DEF AfterTurn
<1>14. CASE DispatchTool
  <2>1. ToolMessage \in Message /\ ToolMessage.role = "tool"
    BY HistoriesAreMessages DEF ToolMessage, Msg
  <2>2. Push(ToolMessage) /\ at' # "idle"
    BY <1>14 DEF DispatchTool
  <2>3. history' # <<>> /\ Last(history') = ToolMessage
    BY <1>1, <2>1, <2>2, PushEnds
  <2>4. QED
    BY <2>1, <2>2, <2>3 DEF EndInv, OutcomeMatchesTranscript
<1>15. CASE ZeroWorkRetry
  <2>1. CASE history' = history
    BY <1>4, <1>15, <2>1 DEF ZeroWorkRetry, InOneTurn, TurnAhead
  <2>2. CASE Push(Nudge)
    <3>1. history' # <<>> /\ Last(history') = Nudge
      BY <1>1, <1>3, <2>2, PushEnds
    <3>2. at' = "gen"
      BY <1>15 DEF ZeroWorkRetry
    <3>3. QED
      BY <1>3, <3>1, <3>2 DEF EndInv, OutcomeMatchesTranscript
  <2>3. QED
    BY <1>15, <2>1, <2>2 DEF ZeroWorkRetry
<1>16. CASE OneAnswers
  <2>1. raw \in Seq(Token)
    BY <1>1 DEF Generated, Token
  <2>2. PICK m \in Parsed(raw) : Push(m) /\ Finish(IF m.calls = 0 THEN "answer" ELSE "tool_calls")
    BY <1>16 DEF OneAnswers
  <2>3. m \in Message /\ m.role = "assistant" /\ m.calls \in Nat
    BY <2>1, <2>2, ParsedAreMessages
  <2>4. QED
    BY <1>7, <2>2, <2>3
<1>17. QED
  BY <1>8, <1>9, <1>10, <1>11, <1>12, <1>13, <1>14, <1>15, <1>16 DEF EngineStep

(* A call starts behind a user message or a tool result.                   *)
LEMMA CallsStartBehindInput ==
  ASSUME NEW m \in {"loop", "one"}, NEW h \in ClientHistories,
         NEW streamed \in BOOLEAN, Request(m, h, streamed)
  PROVE  history' # <<>> /\ Last(history').role \in {"user", "tool"}
<1>1. /\ h \in Seq(Message) /\ Replaced(h) \in Seq(Message)
      /\ BaseHistory \in Seq(Message)
      /\ UserMessage \in Message /\ UserMessage.role = "user"
  BY HistoryAssumption, HistoriesAreMessages DEF UserMessage, Msg
<1>2. CASE history' = Append(Replaced(h), UserMessage)
  <2>1. /\ Len(history') = Len(Replaced(h)) + 1 /\ history' # <<>>
        /\ history'[Len(Replaced(h)) + 1] = UserMessage
    BY <1>1, <1>2, AppendProperties
  <2>2. QED
    BY <1>1, <2>1 DEF Last
<1>3. CASE LastIsTool(h) /\ history' = Replaced(h)
  <2>1. Len(h) \in Nat \ {0} /\ h[Len(h)].role = "tool" /\ h # <<>>
    BY <1>1, <1>3 DEF LastIsTool, Last
  <2>2. CASE Replaced(h) = h
    BY <1>3, <2>1, <2>2 DEF Last
  <2>3. CASE Replaced(h) = BaseHistory \o h
    <3>1. /\ Len(history') = Len(BaseHistory) + Len(h) /\ Len(BaseHistory) \in Nat
          /\ history'[Len(BaseHistory) + Len(h)] = h[Len(h)]
      BY <1>1, <1>3, <2>1, <2>3, ConcatProperties
    <3>2. history' # <<>>
      BY <1>1, <1>3, <2>1, <3>1, EmptySeq
    <3>3. QED
      BY <2>1, <3>1, <3>2 DEF Last
  <2>4. QED
    BY <2>2, <2>3 DEF Replaced
<1>4. QED
  BY <1>2, <1>3 DEF Request, Enter

LEMMA EndInvCallerStep == MessagesTypeOK /\ EndInv /\ CallerStep => EndInv'
<1> SUFFICES ASSUME MessagesTypeOK, EndInv, CallerStep PROVE EndInv'
  OBVIOUS
<1>1. ASSUME NEW m \in {"loop", "one"}, NEW h, Enter(m, h),
             history' # <<>>, Last(history').role \in {"user", "tool"}
      PROVE  EndInv'
  BY <1>1, BudgetAssumption DEF Enter, EndInv, OutOfHops, OutcomeMatchesTranscript
<1>2. ASSUME at' = "idle", outcome' = "none" PROVE EndInv'
  BY <1>2 DEF EndInv, TurnAhead, OutcomeMatchesTranscript
<1>3. CASE Chat
  <2>1. history' = Append(history, UserMessage) /\ Enter("loop", Append(history, UserMessage))
    BY <1>3 DEF Chat, Enter
  <2>2. UserMessage \in Message /\ UserMessage.role = "user"
    BY HistoriesAreMessages DEF UserMessage, Msg
  <2>3. history' # <<>> /\ Last(history') = UserMessage
    BY <2>1, <2>2, PushEnds DEF Push, MessagesTypeOK
  <2>4. QED
    BY <1>1, <2>1, <2>2, <2>3
<1>4. ASSUME NEW m \in {"loop", "one"}, NEW h \in ClientHistories,
             NEW streamed \in BOOLEAN, Request(m, h, streamed)
      PROVE  EndInv'
  BY <1>1, <1>4, CallsStartBehindInput DEF Request
<1>5. CASE RequestCancel \/ ClearKv
  BY <1>5 DEF RequestCancel, ClearKv, EndInv, TurnAhead, OutOfHops,
              OutcomeMatchesTranscript
<1>6. CASE ClearHistory \/ Reset
  BY <1>2, <1>6 DEF ClearHistory, Reset
<1>7. ASSUME NEW n \in 1..2, PopLast(n) PROVE EndInv'
  BY <1>2, <1>7 DEF PopLast
<1>8. QED
  BY <1>3, <1>4, <1>5, <1>6, <1>7 DEF CallerStep

LEMMA EndInvStep ==
  /\ MessagesTypeOK /\ Init => EndInv
  /\ MessagesTypeOK /\ LoopInv /\ EndInv /\ [Next]_vars => EndInv'
<1>1. Init => EndInv
  BY DEF Init, EndInv, TurnAhead, OutcomeMatchesTranscript
<1>2. EndInv /\ UNCHANGED vars => EndInv'
  BY DEF EndInv, TurnAhead, OutOfHops, OutcomeMatchesTranscript, vars
<1>3. QED
  BY <1>1, <1>2, EndInvEngineStep, EndInvCallerStep DEF Next

(* The way a call ended tells where its transcript stands, however often   *)
(* it was retried, cancelled or cut off.                                   *)
THEOREM OutcomesMatchTranscripts == Spec => []OutcomeMatchesTranscript
<1>1. LoopInv /\ UNCHANGED vars => LoopInv'
  BY DEF LoopInv, ControlTypeOK, WithinBudgets, vars, counters
<1>2. MessagesTypeOK /\ MessagesTypeOK' /\ LoopInv /\ EndInv /\ [Next]_vars
        => LoopInv' /\ EndInv'
  BY <1>1, LoopInvEngineStep, LoopInvCallerStep, EndInvStep DEF Next
<1>3. EndInv => OutcomeMatchesTranscript
  BY DEF EndInv
<1>4. QED
  BY MessagesInit, LoopInvInit, MessagesTyped, EndInvStep, <1>2, <1>3, PTL DEF Spec
-----------------------------------------------------------------------------
(* The nudges.  The sets NudgesAreCounted is about, by name, and the       *)
(* number of nudges a call owes its transcript since the last tool result. *)
NudgesIn  == {i \in turnStart + 1 .. Len(history) : history[i] = Nudge}
ToolsIn   == {i \in turnStart + 1 .. Len(history) : history[i].role = "tool"}
SinceTool == {i \in NudgesIn : \A j \in ToolsIn : j < i}
NudgesPaid == IF mode = "loop" THEN incompleteRetries
              ELSE IF zeroWorkRetries > 0 THEN 1 ELSE 0
NoneBehindAnnouncement ==
  \A i \in NudgesIn : i > turnStart + 1 =>
    ~(history[i - 1].role = "assistant" /\ history[i - 1].calls = 0)

(* While tools run the count is not compared, because the tool results     *)
(* arrive behind the nudges one by one: what holds then is that the count  *)
(* the next result resets the transcript to, none, is the one paid for.    *)
NudgeInv ==
  /\ turnStart <= Len(history)
  /\ at \notin {"idle", "tool"} => Cardinality(SinceTool) = NudgesPaid
  /\ at = "tool" => incompleteRetries = 0
  /\ NoneBehindAnnouncement

LEMMA NudgeInvSuffices == NudgeInv => NudgesAreCounted
BY DEF NudgeInv, NudgesAreCounted, NudgesIn, ToolsIn, SinceTool, NudgesPaid,
       NoneBehindAnnouncement

(* The counts depend on the transcript and on where the call began.        *)
LEMMA NudgeFrame ==
  ASSUME UNCHANGED <<history, turnStart>>
  PROVE  /\ SinceTool' = SinceTool
         /\ NoneBehindAnnouncement' = NoneBehindAnnouncement
BY DEF NudgesIn, ToolsIn, SinceTool, NoneBehindAnnouncement

(* A call that begins has written nothing yet.                             *)
LEMMA NudgeFresh ==
  ASSUME Len(history') \in Nat, turnStart' = Len(history')
  PROVE  Cardinality(SinceTool') = 0 /\ NoneBehindAnnouncement'
<1>1. NudgesIn' = {}
  BY DEF NudgesIn
<1>2. SinceTool' = {}
  BY <1>1 DEF SinceTool
<1>3. QED
  BY <1>1, <1>2, FS_EmptySet DEF NoneBehindAnnouncement

(* Pushing a message that is no nudge leaves the nudges where they are; a  *)
(* tool result closes the count.                                           *)
LEMMA PushOther ==
  ASSUME history \in Seq(Message), turnStart \in Nat, turnStart <= Len(history),
         NoneBehindAnnouncement, turnStart' = turnStart,
         NEW m \in Message, m.role # "user", Push(m)
  PROVE  /\ NoneBehindAnnouncement'
         /\ m.role = "tool" => Cardinality(SinceTool') = 0
<1>1. /\ Len(history) \in Nat /\ Len(history') = Len(history) + 1
      /\ history'[Len(history')] = m
      /\ \A i \in 1 .. Len(history) : history'[i] = history[i]
  BY PushKeeps
<1>2. Nudge.role = "user"
  BY DEF Nudge, Msg
<1>3. NudgesIn' = NudgesIn
  BY <1>1, <1>2 DEF NudgesIn
<1>4. NoneBehindAnnouncement'
  <2> SUFFICES ASSUME NEW i \in NudgesIn, i > turnStart + 1
               PROVE  ~(history'[i - 1].role = "assistant" /\ history'[i - 1].calls = 0)
    BY <1>3 DEF NoneBehindAnnouncement
  <2>1. i - 1 \in 1 .. Len(history)
    BY <1>1 DEF NudgesIn
  <2>2. QED
    BY <1>1, <2>1 DEF NoneBehindAnnouncement
<1>5. ASSUME m.role = "tool" PROVE Cardinality(SinceTool') = 0
  <2>1. Len(history') \in ToolsIn'
    BY <1>1, <1>5 DEF ToolsIn
  <2>2. \A i \in NudgesIn' : i \in Nat /\ ~(Len(history') < i)
    BY <1>1 DEF NudgesIn
  <2>3. SinceTool' = {}
    BY <2>1, <2>2 DEF SinceTool
  <2>4. QED
    BY <2>3, FS_EmptySet
<1>6. QED
  BY <1>4, <1>5

(* Pushing the nudge behind anything but an assistant message adds one.    *)
LEMMA PushNudge ==
  ASSUME history \in Seq(Message), turnStart \in Nat, turnStart <= Len(history),
         NoneBehindAnnouncement, turnStart' = turnStart, Push(Nudge),
         history # <<>>, Last(history).role # "assistant"
  PROVE  /\ NoneBehindAnnouncement'
         /\ Cardinality(SinceTool') = Cardinality(SinceTool) + 1
<1>1. Nudge \in Message /\ Nudge.role = "user"
  BY HistoriesAreMessages DEF Nudge, Msg
<1>2. /\ Len(history) \in Nat /\ Len(history') = Len(history) + 1
      /\ history'[Len(history) + 1] = Nudge
      /\ \A i \in 1 .. Len(history) : history'[i] = history[i]
  BY <1>1, PushKeeps
<1>3. NudgesIn' = NudgesIn \cup {Len(history) + 1}
  BY <1>2 DEF NudgesIn
<1>4. ToolsIn' = ToolsIn
  BY <1>1, <1>2 DEF ToolsIn
<1>5. SinceTool' = SinceTool \cup {Len(history) + 1}
  <2>1. \A j \in ToolsIn : j < Len(history) + 1
    BY <1>2 DEF ToolsIn
  <2>2. SinceTool' = {i \in NudgesIn \cup {Len(history) + 1} : \A j \in ToolsIn : j < i}
    BY <1>3, <1>4 DEF SinceTool
  <2>3. \A i : i \in SinceTool' <=> i \in SinceTool \/ i = Len(history) + 1
    BY <2>1, <2>2 DEF SinceTool
  <2>4. QED
    BY <2>3
<1>6. SinceTool \in SUBSET (1 .. Len(history)) /\ Len(history) + 1 \notin SinceTool
  BY <1>2 DEF SinceTool, NudgesIn
<1>7. IsFiniteSet(SinceTool)
  <2>1. IsFiniteSet(1 .. Len(history))
    BY <1>2, FS_Interval
  <2>2. QED
    BY <1>6, <2>1, FS_Subset
<1>8. Cardinality(SinceTool') = Cardinality(SinceTool) + 1
  BY <1>5, <1>6, <1>7, FS_AddElement
<1>9. NoneBehindAnnouncement'
  <2> SUFFICES ASSUME NEW i \in NudgesIn', i > turnStart + 1
               PROVE  ~(history'[i - 1].role = "assistant" /\ history'[i - 1].calls = 0)
    BY DEF NoneBehindAnnouncement
  <2>1. i - 1 \in 1 .. Len(history)
    BY <1>2 DEF NudgesIn
  <2>2. CASE i \in NudgesIn
    BY <1>2, <2>1, <2>2 DEF NoneBehindAnnouncement
  <2>3. CASE i = Len(history) + 1
    BY <1>2, <2>1, <2>3 DEF Last
  <2>4. QED
    BY <1>3, <2>2, <2>3
<1>10. QED
  BY <1>8, <1>9

LEMMA NudgeInvEngineStep ==
  MessagesTypeOK /\ LoopInv /\ EndInv /\ NudgeInv /\ EngineStep => NudgeInv'
<1> SUFFICES ASSUME MessagesTypeOK, LoopInv, EndInv, NudgeInv, EngineStep
             PROVE  NudgeInv'
  OBVIOUS
<1>1. /\ history \in Seq(Message) /\ raw \in Seq(Generated) /\ Len(history) \in Nat
      /\ turnStart \in Nat /\ turnStart <= Len(history)
      /\ NoneBehindAnnouncement
  BY DEF MessagesTypeOK, LoopInv, ControlTypeOK, NudgeInv
<1>2. /\ incompleteRetries \in Nat /\ zeroWorkRetries \in Nat /\ pending \in Nat
      /\ at \in {"hop", "tool"} => mode = "loop"
      /\ at = "tool" <=> pending > 0
  BY DEF LoopInv, ControlTypeOK, WithinBudgets
<1>3. ASSUME UNCHANGED <<history, turnStart, mode, incompleteRetries, zeroWorkRetries>>,
             at \notin {"idle", "tool"}, at' # "tool"
      PROVE  NudgeInv'
  BY <1>3, NudgeFrame DEF NudgeInv, NudgesPaid
<1>4. ASSUME UNCHANGED <<history, turnStart>>, at' = "idle" PROVE NudgeInv'
  BY <1>4, NudgeFrame DEF NudgeInv
<1>5. ASSUME NEW m \in Message, m.role = "assistant", Push(m), turnStart' = turnStart,
             at' = "idle" \/ (at' = "tool" /\ incompleteRetries' = 0)
      PROVE  NudgeInv'
  <2>1. NoneBehindAnnouncement' /\ Len(history') = Len(history) + 1
    BY <1>1, <1>5, PushOther, PushKeeps
  <2>2. QED
    BY <1>1, <1>5, <2>1 DEF NudgeInv
<1>6. ASSUME Push(Nudge), turnStart' = turnStart, at = "turn", at' \notin {"idle", "tool"},
             NudgesPaid' = NudgesPaid + 1
      PROVE  NudgeInv'
  <2>1. history # <<>> /\ Last(history).role # "assistant"
    BY <1>6 DEF EndInv, TurnAhead
  <2>2. NoneBehindAnnouncement' /\ Cardinality(SinceTool') = Cardinality(SinceTool) + 1
    BY <1>1, <1>6, <2>1, PushNudge
  <2>3. Cardinality(SinceTool) = NudgesPaid
    BY <1>6 DEF NudgeInv
  <2>4. turnStart' <= Len(history')
    BY <1>1, <1>6 DEF Push
  <2>5. QED
    BY <1>6, <2>2, <2>3, <2>4 DEF NudgeInv
<1>7. CASE LoopHead
  BY <1>3, <1>7 DEF LoopHead, Finish, counters
<1>8. CASE FeedPrompt \/ EndOfTurn \/ \E t \in Generated : Emit(t)
  BY <1>3, <1>8 DEF FeedPrompt, EndOfTurn, Emit, counters
<1>9. CASE LoopFails \/ OneFails
  BY <1>4, <1>9 DEF LoopFails, OneFails, Finish
<1>10. CASE ThoughtRetry
  BY <1>3, <1>10 DEF ThoughtRetry, InLoopTurn
<1>11. ASSUME NEW m \in Turns(raw), AfterTurn(m) PROVE NudgeInv'
  <2>1. m \in Message /\ m.role = "assistant"
    BY <1>1, TurnsAreMessages
  <2>2. CASE StopAtCeiling(m) \/ Answer(m)
    BY <1>5, <2>1, <2>2 DEF StopAtCeiling, Answer, Finish
  <2>3. CASE AnnounceRetry(m)
    <3>1. /\ Push(Nudge) /\ turnStart' = turnStart /\ at = "turn" /\ at' = "hop"
          /\ mode = "loop" /\ mode' = "loop"
          /\ incompleteRetries' = incompleteRetries + 1
      BY <2>3 DEF AnnounceRetry, TurnAccepted, InLoopTurn
    <3>2. QED
      BY <1>6, <3>1 DEF NudgesPaid
  <2>4. CASE StartTools(m)
    BY <1>5, <2>1, <2>4 DEF StartTools
  <2>5. QED
    BY <1>11, <2>2, <2>3, <2>4 DEF AfterTurn
<1>12. CASE DispatchTool
  <2>1. ToolMessage \in Message /\ ToolMessage.role = "tool"
    BY HistoriesAreMessages DEF ToolMessage, Msg
  <2>2. /\ Push(ToolMessage) /\ turnStart' = turnStart /\ at = "tool"
        /\ at' \in {"tool", "hop"} /\ mode' = mode
        /\ incompleteRetries' = incompleteRetries
    BY <1>12 DEF DispatchTool, counters
  <2>3. /\ NoneBehindAnnouncement' /\ Cardinality(SinceTool') = 0
        /\ Len(history') = Len(history) + 1
    BY <1>1, <2>1, <2>2, PushOther, PushKeeps
  <2>4. incompleteRetries' = 0 /\ mode' = "loop"
    BY <1>2, <2>2 DEF NudgeInv
  <2>5. QED
    BY <1>1, <2>2, <2>3, <2>4 DEF NudgeInv, NudgesPaid
<1>13. CASE ZeroWorkRetry
  <2>1. /\ at = "turn" /\ at' = "gen" /\ mode = "one" /\ mode' = mode
        /\ zeroWorkRetries' = zeroWorkRetries + 1 /\ turnStart' = turnStart
    BY <1>13 DEF ZeroWorkRetry, InOneTurn
  <2>2. CASE zeroWorkRetries = 0 /\ Push(Nudge)
    BY <1>6, <2>1, <2>2 DEF NudgesPaid
  <2>3. CASE zeroWorkRetries # 0 /\ history' = history
    <3>1. NudgesPaid' = NudgesPaid
      BY <1>2, <2>1, <2>3 DEF NudgesPaid
    <3>2. QED
      BY <2>1, <2>3, <3>1, NudgeFrame DEF NudgeInv
  <2>4. QED
    BY <1>13, <2>2, <2>3 DEF ZeroWorkRetry
<1>14. CASE OneAnswers
  <2>1. raw \in Seq(Token)
    BY <1>1 DEF Generated, Token
  <2>2. PICK m \in Parsed(raw) : Push(m) /\ Finish(IF m.calls = 0 THEN "answer" ELSE "tool_calls")
    BY <1>14 DEF OneAnswers
  <2>3. m \in Message /\ m.role = "assistant" /\ m.calls \in Nat
    BY <2>1, <2>2, ParsedAreMessages
  <2>4. turnStart' = turnStart /\ at' = "idle"
    BY <1>14, <2>2 DEF OneAnswers, Finish
  <2>5. QED
    BY <1>5, <2>2, <2>3, <2>4
<1>15. QED
  BY <1>7, <1>8, <1>9, <1>10, <1>11, <1>12, <1>13, <1>14 DEF EngineStep

LEMMA NudgeInvCallerStep ==
  MessagesTypeOK /\ MessagesTypeOK' /\ NudgeInv /\ CallerStep => NudgeInv'
<1> SUFFICES ASSUME MessagesTypeOK, MessagesTypeOK', NudgeInv, CallerStep
             PROVE  NudgeInv'
  OBVIOUS
<1>1. Len(history') \in Nat
  BY DEF MessagesTypeOK
<1>2. ASSUME NEW m \in {"loop", "one"}, NEW h, Enter(m, h) PROVE NudgeInv'
  <2>1. /\ turnStart' = Len(history') /\ at' \in {"hop", "gen"}
        /\ incompleteRetries' = 0 /\ zeroWorkRetries' = 0
    BY <1>2 DEF Enter
  <2>2. NudgesPaid' = 0
    BY <2>1 DEF NudgesPaid
  <2>3. QED
    BY <1>1, <2>1, <2>2, NudgeFresh DEF NudgeInv
<1>3. ASSUME turnStart' = Len(history'), at' = "idle" PROVE NudgeInv'
  BY <1>1, <1>3, NudgeFresh DEF NudgeInv
<1>4. CASE RequestCancel \/ ClearKv
  <2>1. UNCHANGED <<history, turnStart, at, mode, incompleteRetries, zeroWorkRetries>>
    BY <1>4 DEF RequestCancel, ClearKv, counters
  <2>2. QED
    BY <2>1, NudgeFrame DEF NudgeInv, NudgesPaid
<1>5. CASE Chat
  BY <1>2, <1>5 DEF Chat
<1>6. ASSUME NEW m \in {"loop", "one"}, NEW h \in ClientHistories,
             NEW streamed \in BOOLEAN, Request(m, h, streamed)
      PROVE  NudgeInv'
  BY <1>2, <1>6 DEF Request
<1>7. CASE ClearHistory \/ Reset
  <2>1. turnStart' = Len(history') /\ at' = "idle"
    BY <1>7 DEF ClearHistory, Reset
  <2>2. QED
    BY <1>3, <2>1
<1>8. ASSUME NEW n \in 1..2, PopLast(n) PROVE NudgeInv'
  BY <1>3, <1>8 DEF PopLast
<1>9. QED
  BY <1>4, <1>5, <1>6, <1>7, <1>8 DEF CallerStep

(* Every nudge in the transcript was paid for with a retry, and none       *)
(* stands behind the announcement it replaces.                             *)
THEOREM NudgesAreAlwaysCounted == Spec => []NudgesAreCounted
<1>1. MessagesTypeOK /\ Init => NudgeInv
  <2> SUFFICES ASSUME MessagesTypeOK, Init PROVE NudgeInv
    OBVIOUS
  <2>1. turnStart = Len(history) /\ Len(history) \in Nat /\ at = "idle"
    BY DEF Init, MessagesTypeOK
  <2>2. NudgesIn = {}
    BY <2>1 DEF NudgesIn
  <2>3. QED
    BY <2>1, <2>2 DEF NudgeInv, NoneBehindAnnouncement
<1>2. NudgeInv /\ UNCHANGED vars => NudgeInv'
  BY NudgeFrame DEF NudgeInv, NudgesPaid, vars, counters
<1>3. LoopInv /\ UNCHANGED vars => LoopInv'
  BY DEF LoopInv, ControlTypeOK, WithinBudgets, vars, counters
<1>4. MessagesTypeOK /\ MessagesTypeOK' /\ LoopInv /\ EndInv /\ NudgeInv /\ [Next]_vars
        => LoopInv' /\ EndInv' /\ NudgeInv'
  BY <1>2, <1>3, LoopInvEngineStep, LoopInvCallerStep, EndInvStep,
     NudgeInvEngineStep, NudgeInvCallerStep DEF Next
<1>5. QED
  BY MessagesInit, LoopInvInit, MessagesTyped, EndInvStep, NudgeInvSuffices,
     <1>1, <1>4, PTL DEF Spec
-----------------------------------------------------------------------------
(* The prompt.  Rendering keeps to the vocabulary, and a message that is   *)
(* not the user's only adds to what was rendered before it.                *)
LEMMA MessagesRender ==
  ASSUME NEW h \in Seq(Message), NEW i \in DOMAIN h
  PROVE  RenderMessage(h, i) \in Seq(Token)
<1>1. h[i] \in Message
  OBVIOUS
<1>2. /\ h[i].role \in Token /\ h[i].body \in Seq(Token)
  BY <1>1 DEF Message, Role, Token
<1>3. WithoutThinking(h[i].body) \in Seq(Token)
  BY <1>2, ThinkingDropped
<1>4. <<h[i].role>> \in Seq(Token)
  BY <1>2
<1>5. QED
  BY <1>2, <1>3, <1>4, ConcatProperties DEF RenderMessage

Rendered(h) == [i \in DOMAIN h |-> RenderMessage(h, i)]

LEMMA RenderedTyped ==
  ASSUME NEW h \in Seq(Message)
  PROVE  /\ Rendered(h) \in Seq(Seq(Token)) /\ Len(Rendered(h)) = Len(h)
         /\ Transcript(h) \in Seq(Token) /\ Render(h) \in Seq(Token)
         /\ Render(h) = Transcript(h) \o <<"assistant">>
<1>1. DOMAIN h = 1 .. Len(h) /\ Len(h) \in Nat
  OBVIOUS
<1>2. \A i \in 1 .. Len(h) : RenderMessage(h, i) \in Seq(Token)
  BY <1>1, MessagesRender
<1>3. Rendered(h) = [i \in 1 .. Len(h) |-> RenderMessage(h, i)]
  BY <1>1 DEF Rendered
<1>4. Rendered(h) \in Seq(Seq(Token)) /\ Len(Rendered(h)) = Len(h)
  BY <1>1, <1>2, <1>3, IsASeq
<1>5. Transcript(h) \in Seq(Token)
  BY <1>4, FlattenTyped DEF Transcript, Rendered
<1>6. <<"assistant">> \in Seq(Token)
  BY DEF Token
<1>7. Render(h) \in Seq(Token)
  BY <1>5, <1>6, ConcatProperties DEF Render
<1>8. QED
  BY <1>4, <1>5, <1>7 DEF Render

LEMMA LastUserIsInside ==
  ASSUME NEW h \in Seq(Message)
  PROVE  LastUser(h) \in Nat /\ LastUser(h) <= Len(h)
<1> DEFINE I == {i \in DOMAIN h : h[i].role = "user"}
<1>1. Len(h) \in Nat /\ I \in SUBSET (0 .. Len(h)) /\ I \in SUBSET (1 .. Len(h))
  OBVIOUS
<1>2. LastUser(h) = IF I = {} THEN 0 ELSE CHOOSE i \in I : \A j \in I : j <= i
  BY DEF LastUser
<1> HIDE DEF I
<1>3. CASE I = {}
  BY <1>1, <1>2, <1>3
<1>4. CASE I # {}
  <2>1. \E i \in I : \A j \in I : j <= i
    BY <1>1, <1>4, GreatestNat
  <2>2. LastUser(h) \in I
    BY <1>2, <1>4, <2>1
  <2>3. LastUser(h) \in 1 .. Len(h)
    BY <1>1, <2>2, Zenon
  <2>4. QED
    BY <1>1, <2>3
<1>5. QED
  BY <1>3, <1>4

(* A message that is not the user's leaves the last user turn where it is, *)
(* one that is becomes it.                                                 *)
LEMMA LastUserStays ==
  ASSUME NEW h \in Seq(Message), NEW m \in Message
  PROVE  /\ m.role # "user" => LastUser(Append(h, m)) = LastUser(h)
         /\ m.role = "user" => LastUser(Append(h, m)) = Len(h) + 1
<1> DEFINE g == Append(h, m)
           users(x) == {i \in DOMAIN x : x[i].role = "user"}
           Greatest(I) == IF I = {} THEN 0 ELSE CHOOSE i \in I : \A j \in I : j <= i
<1>1. /\ g \in Seq(Message) /\ Len(h) \in Nat /\ Len(g) = Len(h) + 1 /\ g[Len(h) + 1] = m
      /\ \A i \in 1 .. Len(h) : g[i] = h[i]
  BY AppendProperties
<1>2. DOMAIN g = 1 .. Len(h) + 1 /\ DOMAIN h = 1 .. Len(h)
  BY <1>1
<1>3. /\ LastUser(g) = Greatest(users(g)) /\ LastUser(h) = Greatest(users(h))
  BY Zenon DEF LastUser
<1>4. ASSUME m.role # "user" PROVE users(g) = users(h)
  <2> HIDE DEF g
  <2>1. QED
    BY <1>1, <1>2, <1>4
<1>5. ASSUME m.role = "user" PROVE LastUser(g) = Len(h) + 1
  <2>1. Len(h) + 1 \in users(g)
    BY <1>1, <1>2, <1>5
  <2>2. \A j \in users(g) : j <= Len(h) + 1 /\ j \in Nat
    BY <1>1, <1>2
  <2> HIDE DEF users
  <2>3. LastUser(g) \in users(g) /\ \A j \in users(g) : j <= LastUser(g)
    BY <1>3, <2>1, <2>2
  <2>4. QED
    BY <1>1, <2>1, <2>2, <2>3
<1> HIDE DEF Greatest
<1>6. QED
  BY <1>3, <1>4, <1>5

LEMMA TranscriptGrows ==
  ASSUME NEW h \in Seq(Message), NEW m \in Message, m.role # "user"
  PROVE  /\ <<m.role>> \in Seq(Token) /\ m.body \in Seq(Token)
         /\ Transcript(Append(h, m)) = Transcript(h) \o (<<m.role>> \o m.body)
<1> DEFINE g == Append(h, m)
<1>1. /\ g \in Seq(Message) /\ Len(h) \in Nat /\ Len(g) = Len(h) + 1 /\ g[Len(h) + 1] = m
      /\ \A i \in 1 .. Len(h) : g[i] = h[i]
  BY AppendProperties
<1>2. DOMAIN g = 1 .. Len(h) + 1 /\ DOMAIN h = 1 .. Len(h)
  BY <1>1
<1> HIDE DEF g
<1>3. LastUser(g) = LastUser(h)
  BY LastUserStays DEF g
<1>4. LastUser(h) \in Nat /\ LastUser(h) <= Len(h)
  BY LastUserIsInside
<1>5. \A i \in 1 .. Len(h) : RenderMessage(g, i) = RenderMessage(h, i)
  BY <1>1, <1>3 DEF RenderMessage
<1>6. RenderMessage(g, Len(h) + 1) = <<m.role>> \o m.body
  BY <1>1, <1>3, <1>4 DEF RenderMessage
<1>7. <<m.role>> \in Seq(Token) /\ m.body \in Seq(Token)
  BY DEF Message, Role, Token
<1>8. <<m.role>> \o m.body \in Seq(Token)
  BY <1>7, ConcatProperties
<1>9. Rendered(g) = Append(Rendered(h), <<m.role>> \o m.body)
  <2> DEFINE x == <<m.role>> \o m.body
             r == Append(Rendered(h), x)
  <2>1. /\ Rendered(h) \in Seq(Seq(Token)) /\ Len(Rendered(h)) = Len(h)
        /\ Rendered(g) \in Seq(Seq(Token)) /\ Len(Rendered(g)) = Len(g)
    BY <1>1, RenderedTyped
  <2>2. x \in Seq(Token)
    BY <1>8
  <2>3. Rendered(g)[Len(h) + 1] = x
    BY <1>1, <1>2, <1>6 DEF Rendered
  <2> HIDE DEF x
  <2>4. /\ r \in Seq(Seq(Token)) /\ Len(r) = Len(h) + 1 /\ r[Len(h) + 1] = x
        /\ \A i \in 1 .. Len(h) : r[i] = Rendered(h)[i]
    BY <2>1, <2>2, AppendProperties
  <2>5. \A i \in 1 .. Len(h) : Rendered(g)[i] = Rendered(h)[i]
    BY <1>1, <1>2, <1>5 DEF Rendered
  <2> HIDE DEF r
  <2>6. \A i \in 1 .. Len(r) : Rendered(g)[i] = r[i]
    <3>1. \A i \in 1 .. Len(r) : i = Len(h) + 1 \/ i \in 1 .. Len(h)
      BY <1>1, <2>4
    <3>2. QED
      BY <2>3, <2>4, <2>5, <3>1, Zenon
  <2>7. Rendered(g) = r
    BY <1>1, <2>1, <2>4, <2>6, SeqEqual
  <2>8. QED
    BY <2>7 DEF r, x
<1>10. FlattenSeq(Rendered(g)) = FlattenSeq(Rendered(h)) \o (<<m.role>> \o m.body)
  BY <1>8, <1>9, RenderedTyped, FlattenAppend
<1>11. QED
  BY <1>7, <1>10 DEF Transcript, Rendered, g
-----------------------------------------------------------------------------
(* The cache keeps to the vocabulary and to the context.                   *)
KvTyped == kv \in Seq(Token) /\ Len(kv) <= NCtx

(* Whole batches of a tail stay inside it.                                 *)
LEMMA BatchesFit ==
  ASSUME NEW n \in Nat \ {0}, NEW k \in Nat, NEW b \in 0 .. k \div n
  PROVE  b * n \in 0 .. k
<1>1. k \div n \in Nat /\ (k \div n) * n <= k
  OBVIOUS
<1>2. b \in Nat /\ b <= k \div n /\ n \in Nat
  BY <1>1
<1>3. b * n <= (k \div n) * n /\ b * n \in Nat
  BY <1>1, <1>2
<1>4. (k \div n) * n \in Nat
  BY <1>1, <1>2
<1>5. QED
  BY <1>1, <1>3, <1>4

(* What is left of a sequence behind a length it reaches, whole and cut.   *)
LEMMA CutTail ==
  ASSUME NEW all \in Seq(Token), NEW n \in 0 .. Len(all),
         NEW tail, tail = SubSeq(all, n + 1, Len(all))
  PROVE  /\ tail \in Seq(Token) /\ Len(tail) = Len(all) - n
         /\ \A i \in 1 .. Len(all) - n : tail[i] = all[n + i]
         /\ \A k \in 0 .. Len(tail) :
              SubSeq(tail, 1, k) \in Seq(Token) /\ Len(SubSeq(tail, 1, k)) = k
<1>1. Len(all) \in Nat /\ n \in Nat /\ n <= Len(all)
  OBVIOUS
<1>2. \A i \in n + 1 .. Len(all) : all[i] \in Token
  BY <1>1
<1>3. tail \in Seq(Token) /\ Len(tail) = Len(all) - n
      /\ \A i \in 1 .. Len(all) - n : tail[i] = all[n + i]
  BY <1>1, <1>2, SubSeqProperties
<1>4. ASSUME NEW k \in 0 .. Len(tail)
      PROVE  SubSeq(tail, 1, k) \in Seq(Token) /\ Len(SubSeq(tail, 1, k)) = k
  <2>1. \A i \in 1 .. k : tail[i] \in Token
    BY <1>1, <1>3
  <2>2. QED
    BY <1>1, <1>3, <2>1, SubSeqProperties
<1>5. QED
  BY <1>3, <1>4

LEMMA BosIsTyped == Bos \in Seq(Token)
<1>1. <<>> \in Seq(Token) /\ <<"bos">> \in Seq(Token)
  BY EmptySeq DEF Token
<1>2. QED
  BY <1>1, Zenon DEF Bos

LEMMA TokenizedTyped ==
  ASSUME history \in Seq(Message)
  PROVE  Bos \in Seq(Token) /\ Tokenized(history) \in Seq(Token)
<1>1. Bos \in Seq(Token)
  BY BosIsTyped
<1>2. Render(history) \in Seq(Token)
  BY RenderedTyped
<1>3. QED
  BY <1>1, <1>2, ConcatProperties DEF Tokenized

LEMMA KvTypedFeed == MessagesTypeOK /\ KvTyped /\ FeedPrompt => KvTyped'
<1> SUFFICES ASSUME MessagesTypeOK, KvTyped, FeedPrompt PROVE KvTyped'
  OBVIOUS
<1> DEFINE all  == Tokenized(history)
           kept == IF Len(all) < Len(kv) THEN <<>> ELSE kv
           tail == SubSeq(all, Len(kept) + 1, Len(all))
<1>1. /\ \/ Overflows(all, tail) /\ kv' = kept
         \/ ~Overflows(all, tail) /\ kv' = kept \o tail
         \/ /\ tail # <<>> /\ ~Overflows(all, tail)
            /\ \E b \in 0 .. (Len(tail) - 1) \div NBatch :
                 kv' = kept \o SubSeq(tail, 1, b * NBatch)
  BY DEF FeedPrompt
<1>2. all \in Seq(Token) /\ kv \in Seq(Token) /\ Len(kv) <= NCtx /\ NCtx \in Nat
  BY TokenizedTyped, BudgetAssumption DEF MessagesTypeOK, KvTyped
<1> HIDE DEF all
<1>3. Len(all) \in Nat /\ Len(kv) \in Nat
  BY <1>2
<1>4. kept \in Seq(Token) /\ Len(kept) \in 0 .. Len(all) /\ Len(kept) <= NCtx
  <2>1. CASE Len(all) < Len(kv)
    BY <1>2, <1>3, <2>1, EmptySeq
  <2>2. CASE ~(Len(all) < Len(kv))
    BY <1>2, <1>3, <2>2
  <2>3. QED
    BY <2>1, <2>2
<1> HIDE DEF kept
<1>5. tail \in Seq(Token) /\ Len(tail) = Len(all) - Len(kept)
      /\ \A k \in 0 .. Len(tail) :
           SubSeq(tail, 1, k) \in Seq(Token) /\ Len(SubSeq(tail, 1, k)) = k
  BY <1>2, <1>4, CutTail
<1> HIDE DEF tail
<1>6. ~Overflows(all, tail) => tail = <<>> \/ Len(all) <= NCtx
  BY <1>2, <1>3 DEF Overflows
<1>7. ASSUME NEW s \in Seq(Token), Len(s) <= Len(tail), kv' = kept \o s,
             ~Overflows(all, tail)
      PROVE  KvTyped'
  <2>1. kv' \in Seq(Token) /\ Len(kv') = Len(kept) + Len(s) /\ Len(s) \in Nat
    BY <1>4, <1>7, ConcatProperties
  <2>2. Len(kv') <= NCtx
    BY <1>2, <1>3, <1>4, <1>5, <1>6, <1>7, <2>1, EmptySeq
  <2>3. QED
    BY <2>1, <2>2 DEF KvTyped
<1>8. CASE Overflows(all, tail) /\ kv' = kept
  BY <1>4, <1>8 DEF KvTyped
<1>9. CASE ~Overflows(all, tail) /\ kv' = kept \o tail
  BY <1>3, <1>5, <1>7, <1>9
<1>10. CASE /\ tail # <<>> /\ ~Overflows(all, tail)
            /\ \E b \in 0 .. (Len(tail) - 1) \div NBatch :
                 kv' = kept \o SubSeq(tail, 1, b * NBatch)
  <2>1. PICK b \in 0 .. (Len(tail) - 1) \div NBatch :
          kv' = kept \o SubSeq(tail, 1, b * NBatch)
    BY <1>10
  <2>2. Len(tail) - 1 \in Nat /\ NBatch \in Nat \ {0}
    BY <1>5, <1>10, EmptySeq, BudgetAssumption
  <2>3. b * NBatch \in 0 .. Len(tail) - 1
    BY <2>2, BatchesFit
  <2>4. b * NBatch \in 0 .. Len(tail)
    BY <2>2, <2>3
  <2>5. SubSeq(tail, 1, b * NBatch) \in Seq(Token)
        /\ Len(SubSeq(tail, 1, b * NBatch)) <= Len(tail)
    BY <1>5, <2>2, <2>4
  <2>6. QED
    BY <1>7, <1>10, <2>1, <2>5
<1>11. QED
  BY <1>1, <1>8, <1>9, <1>10

LEMMA KvTypedStep == MessagesTypeOK /\ KvTyped /\ [Next]_vars => KvTyped'
<1> SUFFICES ASSUME MessagesTypeOK, KvTyped, [Next]_vars PROVE KvTyped'
  OBVIOUS
<1>1. kv \in Seq(Token) /\ Len(kv) <= NCtx /\ Len(kv) \in Nat /\ NCtx \in Nat
  BY BudgetAssumption DEF KvTyped
<1>2. CASE kv' = kv
  BY <1>1, <1>2 DEF KvTyped
<1>3. CASE kv' = <<>>
  BY <1>1, <1>3, EmptySeq DEF KvTyped
<1>4. ASSUME NEW t \in Generated, Emit(t) PROVE KvTyped'
  <2>1. t \in Token
    BY DEF Token
  <2>2. kv' = kv \/ (kv' = Append(kv, t) /\ Len(kv) + 1 < NCtx)
    BY <1>4 DEF Emit
  <2>3. Append(kv, t) \in Seq(Token) /\ Len(Append(kv, t)) = Len(kv) + 1
    BY <1>1, <2>1, AppendProperties
  <2>4. QED
    BY <1>1, <1>2, <2>2, <2>3 DEF KvTyped
<1>5. LoopHead \/ EndOfTurn \/ LoopFails \/ DispatchTool \/ ZeroWorkRetry \/ OneFails
      \/ OneAnswers => kv' = kv
  BY DEF LoopHead, EndOfTurn, LoopFails, DispatchTool, ZeroWorkRetry, OneFails, OneAnswers
<1>6. ThoughtRetry => kv' = <<>>
  BY DEF ThoughtRetry, ClearCache
<1>7. ASSUME NEW m \in Turns(raw), AfterTurn(m) PROVE kv' = kv \/ kv' = <<>>
  BY <1>7 DEF AfterTurn, StopAtCeiling, AnnounceRetry, Answer, StartTools, ClearCache
<1>8. CallerStep => kv' = kv \/ kv' = <<>>
  BY DEF CallerStep, Chat, Request, RequestCancel, ClearHistory, Reset, ClearKv, PopLast
<1>9. UNCHANGED vars => kv' = kv
  BY DEF vars
<1>10. EngineStep => KvTyped'
  BY <1>2, <1>3, <1>4, <1>5, <1>6, <1>7, KvTypedFeed DEF EngineStep
<1>11. QED
  BY <1>2, <1>3, <1>8, <1>9, <1>10 DEF Next

(* Every variable of the engine keeps its type, and the cache fits in the  *)
(* context: the length check before the prompt and the one before each     *)
(* token leave no other way to fill it.                                    *)
THEOREM EngineIsTyped == Spec => []TypeOK
<1>1. Init => KvTyped
  BY EmptySeq, BudgetAssumption DEF Init, KvTyped
<1>2. LoopInv /\ UNCHANGED vars => LoopInv'
  BY DEF LoopInv, ControlTypeOK, WithinBudgets, vars, counters
<1>3. MessagesTypeOK /\ MessagesTypeOK' /\ LoopInv /\ KvTyped /\ [Next]_vars
        => LoopInv' /\ KvTyped'
  BY <1>2, LoopInvEngineStep, LoopInvCallerStep, KvTypedStep DEF Next
<1>4. MessagesTypeOK /\ LoopInv /\ KvTyped => TypeOK
  BY DEF LoopInv, KvTyped, TypeOK
<1>5. QED
  BY MessagesInit, LoopInvInit, MessagesTyped, <1>1, <1>3, <1>4, PTL DEF Spec
-----------------------------------------------------------------------------
(* The cache begins with what the model was asked.  One use of the engine  *)
(* is outside the theorem because it breaks it: Engine::chat keeps the     *)
(* cache of the call before, whose history may have been edited since.     *)
Begins(s, t) == \E u \in Seq(Token) : t = s \o u

LEMMA BeginsBasics ==
  ASSUME NEW s \in Seq(Token)
  PROVE  Begins(<<>>, s) /\ Begins(s, s)
<1>1. s = <<>> \o s /\ s = s \o <<>> /\ <<>> \in Seq(Token)
  BY ConcatEmptySeq, EmptySeq
<1>2. QED
  BY <1>1 DEF Begins

LEMMA BeginsFurther ==
  ASSUME NEW s \in Seq(Token), NEW t \in Seq(Token), NEW x \in Seq(Token), Begins(s, t)
  PROVE  Begins(s, t \o x)
<1>1. PICK u \in Seq(Token) : t = s \o u
  BY DEF Begins
<1>2. t \o x = s \o (u \o x) /\ u \o x \in Seq(Token)
  BY <1>1, ConcatAssociative, ConcatProperties
<1>3. QED
  BY <1>2 DEF Begins

(* The front of a sequence.                                                *)
LEMMA CutFront ==
  ASSUME NEW S, NEW t \in Seq(S), NEW k \in 0 .. Len(t)
  PROVE  /\ SubSeq(t, 1, k) \in Seq(S) /\ Len(SubSeq(t, 1, k)) = k
         /\ \A i \in 1 .. k : SubSeq(t, 1, k)[i] = t[i]
<1>1. Len(t) \in Nat /\ k \in Nat /\ k <= Len(t)
  OBVIOUS
<1>2. \A i \in 1 .. k : t[i] \in S
  BY <1>1
<1>3. QED
  BY <1>1, <1>2, SubSeqProperties

(* A beginning in this sense is a prefix in that of SequencesExt.          *)
LEMMA BeginsIsPrefix ==
  ASSUME NEW s \in Seq(Token), NEW t \in Seq(Token), Begins(s, t)
  PROVE  IsPrefix(s, t)
<1>1. PICK u \in Seq(Token) : t = s \o u
  BY DEF Begins
<1>2. /\ Len(s) \in Nat /\ Len(u) \in Nat /\ Len(t) = Len(s) + Len(u)
      /\ \A i \in 1 .. Len(s) : t[i] = s[i]
  BY <1>1, ConcatProperties
<1>3. SubSeq(s, 1, Len(s)) = s
  BY SubSeqFull
<1>4. Len(s) \in 0 .. Len(t)
  BY <1>2
<1>5. /\ SubSeq(t, 1, Len(s)) \in Seq(Token) /\ Len(SubSeq(t, 1, Len(s))) = Len(s)
      /\ \A i \in 1 .. Len(s) : SubSeq(t, 1, Len(s))[i] = t[i]
  BY <1>4, CutFront
<1>6. SubSeq(t, 1, Len(s)) = s
  <2>1. \A i \in 1 .. Len(s) : SubSeq(t, 1, Len(s))[i] = s[i]
    BY <1>2, <1>5
  <2> DEFINE c == SubSeq(t, 1, Len(s))
  <2>2. c \in Seq(Token) /\ Len(c) = Len(s) /\ \A i \in 1 .. Len(c) : c[i] = s[i]
    BY <1>5, <2>1
  <2> HIDE DEF c
  <2>3. c = s
    BY <2>2, SeqEqual
  <2>4. QED
    BY <2>3 DEF c
<1>7. QED
  BY <1>2, <1>3, <1>6 DEF IsPrefix

LEMMA BeginsAgain ==
  ASSUME NEW s \in Seq(Token), NEW t \in Seq(Token), NEW x \in Seq(Token), Begins(s, t)
  PROVE  Begins(x \o s, x \o t)
<1>1. PICK u \in Seq(Token) : t = s \o u
  BY DEF Begins
<1>2. x \o t = (x \o s) \o u
  BY <1>1, ConcatAssociative
<1>3. QED
  BY <1>1, <1>2 DEF Begins

(* Only the first turn of generate_one is in step with the cache.          *)
InStep == mode = "one" => zeroWorkRetries = 0

(* Turns or tool results follow what the model was asked.                  *)
Behind == Len(history) > AskedAt
HoldsAsked == \E b \in {Bos, <<>>} : Begins(b \o Render(Asked), kv)

KvInv ==
  at # "idle" /\ InStep =>
    /\ turnStart <= Len(history)
    /\ Behind => Begins(Render(Asked), Transcript(history))
    /\ at \in {"hop", "gen"} => kv = <<>> \/ (Behind /\ HoldsAsked)
    /\ at = "decode" => HoldsAsked /\ (~Behind => kv = Bos \o Render(history) \o raw)
    /\ at = "turn" => Failed \/ HoldsAsked
    /\ at = "tool" => Behind /\ HoldsAsked

LEMMA AskedIsPrompt ==
  ASSUME history \in Seq(Message), turnStart \in Nat, turnStart <= Len(history)
  PROVE  /\ AskedAt \in 0 .. Len(history) /\ Asked \in Seq(Message)
         /\ Render(Asked) \in Seq(Token)
         /\ ~Behind => AskedAt = Len(history) /\ Asked = history
<1>1. LastUser(history) \in Nat /\ LastUser(history) <= Len(history) /\ Len(history) \in Nat
  BY LastUserIsInside
<1>2. AskedAt \in 0 .. Len(history)
  BY <1>1 DEF AskedAt
<1>3. Asked \in Seq(Message)
  BY <1>2, CutFront DEF Asked
<1>4. ~Behind => AskedAt = Len(history)
  BY <1>1, <1>2 DEF Behind
<1>5. SubSeq(history, 1, Len(history)) = history
  BY SubSeqFull
<1>6. QED
  BY <1>2, <1>3, <1>4, <1>5, RenderedTyped DEF Asked

(* A message that is not the user's goes behind what was asked.  It may be *)
(* the turn that answers it, whatever the template makes of that turn, or  *)
(* something behind that turn.                                             *)
LEMMA PushBehind ==
  ASSUME history \in Seq(Message), turnStart \in Nat, turnStart <= Len(history),
         NEW m \in Message, m.role # "user",
         Behind => Begins(Render(Asked), Transcript(history)),
         Behind \/ m.role = "assistant",
         history' = Append(history, m), turnStart' = turnStart
  PROVE  /\ turnStart' <= Len(history') /\ Behind' /\ Asked' = Asked
         /\ Begins(Render(Asked)', Transcript(history)')
<1>1. /\ AskedAt \in 0 .. Len(history) /\ Asked \in Seq(Message)
      /\ Render(Asked) \in Seq(Token)
      /\ ~Behind => AskedAt = Len(history) /\ Asked = history
  BY AskedIsPrompt
<1>2. /\ history' \in Seq(Message) /\ Len(history) \in Nat
      /\ Len(history') = Len(history) + 1
      /\ \A i \in 1 .. Len(history) : history'[i] = history[i]
  BY AppendProperties
<1>3. LastUser(history') = LastUser(history)
  BY LastUserStays
<1>4. AskedAt' = AskedAt
  BY <1>3 DEF AskedAt
<1>5. Behind' /\ turnStart' <= Len(history')
  BY <1>1, <1>2, <1>4 DEF Behind
<1>6. Asked' = Asked
  <2> DEFINE a == SubSeq(history, 1, AskedAt)
             c == SubSeq(history', 1, AskedAt)
  <2>1. /\ a \in Seq(Message) /\ Len(a) = AskedAt
        /\ \A i \in 1 .. AskedAt : a[i] = history[i]
    BY <1>1, CutFront
  <2>2. AskedAt \in 0 .. Len(history')
    BY <1>1, <1>2
  <2>3. /\ c \in Seq(Message) /\ Len(c) = AskedAt
        /\ \A i \in 1 .. AskedAt : c[i] = history'[i]
    BY <1>2, <2>2, CutFront
  <2>4. Asked' = c /\ Asked = a
    BY <1>4 DEF Asked
  <2> HIDE DEF a, c
  <2>5. Len(c) = Len(a) /\ \A i \in 1 .. Len(c) : c[i] = a[i]
    <3>1. \A i \in 1 .. AskedAt : i \in 1 .. Len(history)
      BY <1>1, <1>2
    <3>2. \A i \in 1 .. AskedAt : c[i] = a[i]
      BY <1>2, <2>1, <2>3, <3>1, Zenon
    <3>3. QED
      BY <2>1, <2>3, <3>2
  <2>6. c = a
    BY <2>1, <2>3, <2>5, SeqEqual
  <2>7. QED
    BY <2>4, <2>6
<1>7. /\ <<m.role>> \in Seq(Token) /\ m.body \in Seq(Token)
      /\ Transcript(history') = Transcript(history) \o (<<m.role>> \o m.body)
  BY TranscriptGrows
<1>8. /\ Transcript(history) \in Seq(Token)
      /\ Render(history) = Transcript(history) \o <<"assistant">>
  BY RenderedTyped
<1>9. Begins(Render(Asked), Transcript(history'))
  <2>1. CASE Behind
    <3>1. <<m.role>> \o m.body \in Seq(Token)
      BY <1>7, ConcatProperties
    <3>2. QED
      BY <1>1, <1>7, <1>8, <2>1, <3>1, BeginsFurther
  <2>2. CASE ~Behind
    <3>1. Transcript(history') = Render(history) \o m.body
      <4>1. \A x, y \in Seq(Token) : (Transcript(history) \o x) \o y
                                      = Transcript(history) \o (x \o y)
        BY <1>8, ConcatAssociative
      <4>2. m.role = "assistant"
        BY <2>2
      <4>3. QED
        <5>1. /\ <<"assistant">> \in Seq(Token)
              /\ Transcript(history') = Transcript(history) \o (<<"assistant">> \o m.body)
          BY <1>7, <4>2
        <5>2. (Transcript(history) \o <<"assistant">>) \o m.body
                = Transcript(history) \o (<<"assistant">> \o m.body)
          BY <1>7, <4>1, <5>1, Zenon
        <5>3. QED
          BY <1>8, <5>1, <5>2, Zenon
    <3>2. Asked = history
      BY <1>1, <2>2
    <3>3. QED
      BY <1>7, <3>1, <3>2 DEF Begins
  <2>3. QED
    BY <2>1, <2>2
<1>10. Render(Asked)' = Render(Asked)
  BY <1>6
<1>11. QED
  BY <1>5, <1>6, <1>9, <1>10

LEMMA KvInvFeed ==
  ASSUME MessagesTypeOK, ControlTypeOK, KvTyped, KvInv, FeedPrompt
  PROVE  KvInv'
<1> DEFINE all  == Tokenized(history)
           kept == IF Len(all) < Len(kv) THEN <<>> ELSE kv
           tail == SubSeq(all, Len(kept) + 1, Len(all))
<1>1. /\ at = "gen" /\ raw' = <<>> /\ history' = history /\ turnStart' = turnStart
      /\ InStep' <=> InStep
      /\ \/ at' = "turn" /\ lastError' # "none"
         \/ at' = "decode" /\ kv' = kept \o tail
  BY DEF FeedPrompt, InStep, counters
<1>2. CASE ~InStep
  BY <1>1, <1>2, Zenon DEF KvInv
<1>3. CASE InStep /\ at' = "turn" /\ lastError' # "none"
  <2>1. Failed'
    BY <1>1, <1>3 DEF Failed
  <2>2. turnStart <= Len(history) /\ (Behind => Begins(Render(Asked), Transcript(history)))
    BY <1>1, <1>3 DEF KvInv
  <2>3. /\ Behind' <=> Behind
        /\ Render(Asked)' = Render(Asked) /\ Transcript(history)' = Transcript(history)
    BY <1>1 DEF Behind, AskedAt, Asked
  <2>4. QED
    BY <1>1, <1>3, <2>1, <2>2, <2>3 DEF KvInv
<1>4. CASE InStep /\ at' = "decode" /\ kv' = kept \o tail
  <2>1. /\ turnStart <= Len(history) /\ (Behind => Begins(Render(Asked), Transcript(history)))
        /\ kv = <<>> \/ (Behind /\ HoldsAsked)
    BY <1>1, <1>4 DEF KvInv
  <2>2. /\ history \in Seq(Message) /\ kv \in Seq(Token) /\ turnStart \in Nat
        /\ Bos \in Seq(Token) /\ <<>> \in Seq(Token)
        /\ Transcript(history) \in Seq(Token) /\ Render(history) \in Seq(Token)
        /\ Render(history) = Transcript(history) \o <<"assistant">>
        /\ <<"assistant">> \in Seq(Token)
    BY BosIsTyped, RenderedTyped, EmptySeq
       DEF MessagesTypeOK, ControlTypeOK, KvTyped, Token
  <2>3. /\ Render(Asked) \in Seq(Token)
        /\ ~Behind => Asked = history
    BY <2>1, <2>2, AskedIsPrompt
  <2>4. Begins(Render(Asked), Render(history))
    <3>1. CASE Behind
      BY <2>1, <2>2, <2>3, <3>1, BeginsFurther
    <3>2. CASE ~Behind
      BY <2>2, <2>3, <3>2, BeginsBasics
    <3>3. QED
      BY <3>1, <3>2
  <2>5. all \in Seq(Token) /\ Len(all) \in Nat /\ Len(kv) \in Nat
    BY <2>2, TokenizedTyped
  <2>6. kept = <<>> => kv' = all
    <3>1. ASSUME kept = <<>> PROVE <<>> \o tail = all
      <4>1. tail = SubSeq(all, 1, Len(all))
        <5>1. Len(kept) + 1 = 1
          BY <3>1, EmptySeq
        <5>2. QED
          BY <5>1
      <4> HIDE DEF all, tail, kept
      <4>2. tail = all
        BY <2>5, <4>1, SubSeqFull
      <4>3. QED
        BY <2>5, <4>2, ConcatEmptySeq
    <3>2. QED
      BY <1>4, <3>1
  <2>7. tail \in Seq(Token)
    <3>1. Len(kept) \in 0 .. Len(all)
      BY <2>5
    <3> HIDE DEF all, kept
    <3>2. QED
      BY <2>5, <3>1, CutTail
  <2>8. /\ \E b \in {Bos, <<>>} : Begins(b \o Render(Asked), kv')
        /\ ~Behind => kv' = (Bos \o Render(history)) \o <<>>
    <3>1. CASE kv = <<>>
      <4>1. kept = <<>> /\ all = Bos \o Render(history)
        BY <3>1 DEF Tokenized
      <4>2. Bos \o Render(history) \in Seq(Token)
        BY <2>2, ConcatProperties
      <4>3. kv' = Bos \o Render(history)
        BY <2>6, <4>1
      <4>4. Begins(Bos \o Render(Asked), Bos \o Render(history))
        BY <2>2, <2>3, <2>4, BeginsAgain
      <4>5. (Bos \o Render(history)) \o <<>> = Bos \o Render(history)
        BY <4>2, ConcatEmptySeq
      <4>6. QED
        BY <4>3, <4>4, <4>5
    <3>2. CASE kv # <<>> /\ Len(all) < Len(kv)
      <4>1. kept = <<>> /\ all = Render(history) /\ Behind
        BY <2>1, <3>2 DEF Tokenized
      <4>2. kv' = Render(history)
        BY <2>6, <4>1
      <4>3. <<>> \o Render(Asked) = Render(Asked)
        BY <2>3, ConcatEmptySeq
      <4>4. Begins(<<>> \o Render(Asked), kv')
        BY <2>4, <4>2, <4>3
      <4>5. QED
        BY <4>1, <4>4
    <3>3. CASE kv # <<>> /\ ~(Len(all) < Len(kv))
      <4>1. kept = kv /\ Behind /\ HoldsAsked
        BY <2>1, <3>3
      <4>2. kv' = kv \o tail
        BY <1>4, <4>1
      <4>3. PICK b \in {Bos, <<>>} : Begins(b \o Render(Asked), kv)
        BY <4>1 DEF HoldsAsked
      <4>4. b \o Render(Asked) \in Seq(Token)
        BY <2>2, <2>3, <4>3, ConcatProperties
      <4> HIDE DEF tail
      <4>5. Begins(b \o Render(Asked), kv')
        BY <2>2, <2>7, <4>2, <4>3, <4>4, BeginsFurther
      <4>6. QED
        BY <4>1, <4>5
    <3>4. QED
      BY <3>1, <3>2, <3>3
  <2>9. /\ Behind' <=> Behind
        /\ Render(Asked)' = Render(Asked) /\ Transcript(history)' = Transcript(history)
        /\ Render(history)' = Render(history) /\ Bos' = Bos
    BY <1>1 DEF Behind, AskedAt, Asked, Bos
  <2>10. HoldsAsked'
    BY <2>8, <2>9 DEF HoldsAsked
  <2>11. (~Behind => kv = Bos \o Render(history) \o raw)'
    BY <1>1, <2>8, <2>9
  <2>12. QED
    BY <1>1, <1>4, <2>1, <2>9, <2>10, <2>11 DEF KvInv
<1>5. QED
  BY <1>1, <1>2, <1>3, <1>4

LEMMA KvInvEngineStep ==
  ASSUME MessagesTypeOK, LoopInv, KvTyped, KvInv, EngineStep
  PROVE  KvInv'
<1>1. /\ history \in Seq(Message) /\ raw \in Seq(Generated) /\ kv \in Seq(Token)
      /\ raw \in Seq(Token) /\ turnStart \in Nat /\ ControlTypeOK
  BY DEF MessagesTypeOK, KvTyped, Generated, Token, LoopInv, ControlTypeOK
<1>2. ASSUME at' = "idle" PROVE KvInv'
  BY <1>2 DEF KvInv
<1>3. ASSUME UNCHANGED <<history, turnStart>>
      PROVE  /\ Behind' <=> Behind
             /\ Asked' = Asked /\ Render(Asked)' = Render(Asked)
             /\ Transcript(history)' = Transcript(history)
             /\ Render(history)' = Render(history) /\ Bos' = Bos
  BY <1>3 DEF Behind, AskedAt, Asked, Bos
<1>4. CASE LoopHead
  <2>1. CASE at' = "idle"
    BY <1>2, <2>1
  <2>2. CASE at' # "idle"
    <3>1. /\ at = "hop" /\ at' = "gen"
          /\ UNCHANGED <<history, kv, mode, zeroWorkRetries, turnStart>>
      BY <1>4, <2>2 DEF LoopHead, Finish, counters
    <3>2. (InStep' <=> InStep) /\ (HoldsAsked' <=> HoldsAsked)
      BY <1>3, <3>1 DEF InStep, HoldsAsked
    <3>3. QED
      BY <1>3, <3>1, <3>2 DEF KvInv
  <2>3. QED
    BY <2>1, <2>2
<1>5. CASE FeedPrompt
  BY <1>1, <1>5, KvInvFeed
<1>6. ASSUME NEW t \in Generated, Emit(t) PROVE KvInv'
  <2>1. /\ at = "decode" /\ raw' = Append(raw, t)
        /\ UNCHANGED <<history, mode, zeroWorkRetries, turnStart>>
        /\ \/ at' = "turn" /\ kv' = kv
           \/ at' = "decode" /\ kv' = Append(kv, t)
    BY <1>6 DEF Emit, counters
  <2>2. InStep' <=> InStep
    BY <2>1 DEF InStep
  <2>3. /\ t \in Token /\ <<t>> \in Seq(Token)
        /\ Append(raw, t) = raw \o <<t>> /\ Append(kv, t) = kv \o <<t>>
    <3>1. t \in Token
      BY DEF Token
    <3>2. QED
      BY <1>1, <3>1, AppendIsConcat
  <2>4. CASE ~InStep
    BY <2>1, <2>2, <2>4 DEF KvInv
  <2>5. CASE InStep
    <3>1. /\ turnStart <= Len(history)
          /\ Behind => Begins(Render(Asked), Transcript(history))
          /\ HoldsAsked /\ (~Behind => kv = Bos \o Render(history) \o raw)
      BY <2>1, <2>5 DEF KvInv
    <3>2. HoldsAsked'
      <4>1. PICK b \in {Bos, <<>>} : Begins(b \o Render(Asked), kv)
        BY <3>1 DEF HoldsAsked
      <4>2. b \o Render(Asked) \in Seq(Token)
        BY <1>1, <3>1, <4>1, AskedIsPrompt, BosIsTyped, EmptySeq, ConcatProperties
      <4>3. Begins(b \o Render(Asked), kv \o <<t>>)
        BY <1>1, <2>3, <4>1, <4>2, BeginsFurther
      <4>4. Begins(b \o Render(Asked), kv')
        BY <2>1, <2>3, <4>1, <4>3
      <4>5. QED
        BY <1>3, <2>1, <4>4 DEF HoldsAsked
    <3>3. ASSUME at' = "decode", ~Behind
          PROVE  kv' = Bos \o Render(history) \o Append(raw, t)
      <4>1. Bos \o Render(history) \in Seq(Token)
        BY <1>1, BosIsTyped, RenderedTyped, ConcatProperties
      <4>2. ((Bos \o Render(history)) \o raw) \o <<t>> = (Bos \o Render(history)) \o (raw \o <<t>>)
        BY <1>1, <2>3, <4>1, ConcatAssociative
      <4>3. kv = (Bos \o Render(history)) \o raw /\ kv' = kv \o <<t>>
        BY <2>1, <2>3, <3>1, <3>3
      <4>4. QED
        BY <2>3, <4>2, <4>3, Zenon
    <3>4. (at = "decode" => (~Behind => kv = Bos \o Render(history) \o raw))'
      BY <1>3, <2>1, <3>3
    <3>5. QED
      BY <1>3, <2>1, <3>1, <3>2, <3>4 DEF KvInv
  <2>6. QED
    BY <2>4, <2>5
<1>7. CASE EndOfTurn
  <2>1. /\ at = "decode" /\ at' = "turn"
        /\ UNCHANGED <<history, raw, kv, mode, zeroWorkRetries, turnStart>>
    BY <1>7 DEF EndOfTurn, counters
  <2>2. (InStep' <=> InStep) /\ (HoldsAsked' <=> HoldsAsked)
    BY <1>3, <2>1 DEF InStep, HoldsAsked
  <2>3. QED
    BY <1>3, <2>1, <2>2 DEF KvInv
<1>8. CASE LoopFails \/ OneFails \/ OneAnswers
  BY <1>2, <1>8 DEF LoopFails, OneFails, OneAnswers, Finish
<1>9. CASE ThoughtRetry
  <2>1. /\ at = "turn" /\ at' = "hop" /\ kv' = <<>> /\ mode = "loop"
        /\ UNCHANGED <<history, mode, turnStart>>
    BY <1>9 DEF ThoughtRetry, ClearCache, InLoopTurn
  <2>2. InStep
    BY <2>1 DEF InStep
  <2>3. QED
    BY <1>3, <2>1, <2>2 DEF KvInv
<1>10. ASSUME NEW m \in Turns(raw), AfterTurn(m) PROVE KvInv'
  <2>1. m \in Message /\ m.role = "assistant" /\ m.role # "user"
    BY <1>1, TurnsAreMessages
  <2>2. CASE StopAtCeiling(m) \/ Answer(m)
    BY <1>2, <2>2 DEF StopAtCeiling, Answer, Finish
  <2>3. CASE AnnounceRetry(m)
    <3>1. /\ kv' = <<>> /\ at' = "hop" /\ history' = Append(history, Nudge)
          /\ turnStart' = turnStart /\ at = "turn" /\ InStep
      BY <2>3 DEF AnnounceRetry, TurnAccepted, InLoopTurn, InStep, ClearCache, Push
    <3>2. turnStart <= Len(history)
      BY <3>1 DEF KvInv
    <3>3. Nudge \in Message /\ Nudge.role = "user"
      BY HistoriesAreMessages DEF Nudge, Msg
    <3>4. LastUser(history') = Len(history) + 1 /\ Len(history') = Len(history) + 1
          /\ Len(history) \in Nat
      BY <1>1, <3>1, <3>3, LastUserStays, AppendProperties
    <3>5. AskedAt' = Len(history')
      BY <1>1, <3>1, <3>2, <3>4 DEF AskedAt
    <3>6. ~Behind' /\ turnStart' <= Len(history')
      BY <1>1, <3>1, <3>2, <3>4, <3>5 DEF Behind
    <3>7. QED
      BY <3>1, <3>6 DEF KvInv
  <2>4. CASE StartTools(m)
    <3>1. /\ at = "turn" /\ InStep /\ at' = "tool" /\ kv' = kv /\ ~Failed
          /\ history' = Append(history, m) /\ turnStart' = turnStart
      BY <2>4 DEF StartTools, TurnAccepted, InLoopTurn, InStep, Push
    <3>2. /\ turnStart <= Len(history) /\ HoldsAsked
          /\ Behind => Begins(Render(Asked), Transcript(history))
      BY <3>1 DEF KvInv
    <3>3. /\ turnStart' <= Len(history') /\ Behind' /\ Asked' = Asked
          /\ Begins(Render(Asked)', Transcript(history)')
      BY <1>1, <2>1, <3>1, <3>2, PushBehind
    <3>4. HoldsAsked'
      BY <3>1, <3>2, <3>3 DEF HoldsAsked, Bos
    <3>5. QED
      BY <3>1, <3>3, <3>4 DEF KvInv
  <2>5. QED
    BY <1>10, <2>2, <2>3, <2>4 DEF AfterTurn
<1>11. CASE DispatchTool
  <2>1. /\ at = "tool" /\ at' \in {"tool", "hop"} /\ kv' = kv /\ mode = "loop"
        /\ history' = Append(history, ToolMessage) /\ turnStart' = turnStart
    BY <1>11 DEF DispatchTool, Push, LoopInv
  <2>2. ToolMessage \in Message /\ ToolMessage.role # "user"
    BY HistoriesAreMessages DEF ToolMessage, Msg
  <2>3. /\ turnStart <= Len(history) /\ Behind /\ HoldsAsked
        /\ Begins(Render(Asked), Transcript(history))
    BY <2>1 DEF KvInv, InStep
  <2>4. /\ turnStart' <= Len(history') /\ Behind' /\ Asked' = Asked
        /\ Begins(Render(Asked)', Transcript(history)')
    BY <1>1, <2>1, <2>2, <2>3, PushBehind
  <2>5. HoldsAsked'
    BY <2>1, <2>3, <2>4 DEF HoldsAsked, Bos
  <2>6. QED
    BY <2>1, <2>4, <2>5 DEF KvInv
<1>12. CASE ZeroWorkRetry
  <2>1. /\ mode' = "one" /\ zeroWorkRetries \in Nat
        /\ zeroWorkRetries' = zeroWorkRetries + 1
    BY <1>12 DEF ZeroWorkRetry, InOneTurn, LoopInv, ControlTypeOK
  <2>2. ~InStep'
    BY <2>1 DEF InStep
  <2>3. QED
    BY <2>2 DEF KvInv
<1>13. QED
  BY <1>4, <1>5, <1>6, <1>7, <1>8, <1>9, <1>10, <1>11, <1>12 DEF EngineStep

LEMMA KvInvCallerStep ==
  ASSUME "chat" \notin Entries, MessagesTypeOK', KvInv, CallerStep
  PROVE  KvInv'
<1>1. ASSUME at' = "idle" PROVE KvInv'
  BY <1>1 DEF KvInv
<1>2. ASSUME NEW m \in {"loop", "one"}, NEW h \in ClientHistories,
             NEW streamed \in BOOLEAN, Request(m, h, streamed)
      PROVE  KvInv'
  <2>1. kv' = <<>> /\ at' \in {"hop", "gen"} /\ turnStart' = Len(history')
    BY <1>2 DEF Request, Enter
  <2>2. Len(history') \in Nat /\ LastUser(history') <= Len(history')
        /\ LastUser(history') \in Nat
    BY LastUserIsInside DEF MessagesTypeOK
  <2>3. ~Behind' /\ turnStart' <= Len(history')
    BY <2>1, <2>2 DEF Behind, AskedAt
  <2>4. QED
    BY <2>1, <2>3 DEF KvInv
<1>3. CASE ClearHistory \/ Reset \/ ClearKv \/ \E n \in 1..2 : PopLast(n)
  <2>1. at' = "idle"
    BY <1>3 DEF ClearHistory, Reset, ClearKv, PopLast
  <2>2. QED
    BY <1>1, <2>1
<1>4. CASE RequestCancel
  <2>1. UNCHANGED <<history, kv, raw, at, mode, zeroWorkRetries, lastError, turnStart>>
    BY <1>4 DEF RequestCancel, counters
  <2>2. QED
    BY <2>1 DEF KvInv, InStep, Behind, HoldsAsked, Asked, AskedAt, Bos, Failed
<1>5. ~Chat
  BY DEF Chat
<1>6. QED
  BY <1>2, <1>3, <1>4, <1>5 DEF CallerStep

(* The cache under a turn begins with what the model was asked, and with   *)
(* nothing in between it is the prompt and the turn: for every server,     *)
(* through tool hops, retries, cancellations and failed decodes, and for   *)
(* every way a parsed turn may be written into the next prompt.            *)
THEOREM CacheAlwaysMirrorsPrompt ==
  ASSUME "chat" \notin Entries
  PROVE  Spec => []KvMirrorsPrompt
<1>1. Init => KvTyped /\ KvInv
  BY EmptySeq, BudgetAssumption DEF Init, KvTyped, KvInv
<1>2. LoopInv /\ KvInv /\ UNCHANGED vars => LoopInv' /\ KvInv'
  <2> SUFFICES ASSUME LoopInv, KvInv, UNCHANGED vars PROVE LoopInv' /\ KvInv'
    OBVIOUS
  <2>1. UNCHANGED <<history, kv, raw, at, mode, zeroWorkRetries, lastError, turnStart>>
    BY DEF vars, counters
  <2>2. KvInv'
    BY <2>1 DEF KvInv, InStep, Behind, HoldsAsked, Asked, AskedAt, Bos, Failed
  <2>3. QED
    BY <2>2 DEF LoopInv, ControlTypeOK, WithinBudgets, vars, counters
<1>3. MessagesTypeOK /\ MessagesTypeOK' /\ LoopInv /\ KvTyped /\ KvInv /\ [Next]_vars
        => LoopInv' /\ KvTyped' /\ KvInv'
  BY <1>2, LoopInvEngineStep, LoopInvCallerStep, KvTypedStep, KvInvEngineStep,
     KvInvCallerStep DEF Next
<1>4. MessagesTypeOK /\ LoopInv /\ KvTyped /\ KvInv => KvMirrorsPrompt
  <2> SUFFICES ASSUME MessagesTypeOK, LoopInv, KvTyped, KvInv, at = "decode", InStep
               PROVE  /\ \E b \in {Bos, <<>>} : IsPrefix(b \o Render(Asked), kv)
                      /\ AskedAt = Len(history) => kv = Bos \o Render(history) \o raw
    BY DEF KvMirrorsPrompt, InStep
  <2>1. /\ history \in Seq(Message) /\ turnStart \in Nat /\ turnStart <= Len(history)
        /\ kv \in Seq(Token) /\ HoldsAsked
        /\ ~Behind => kv = Bos \o Render(history) \o raw
    BY DEF KvInv, KvTyped, MessagesTypeOK, LoopInv, ControlTypeOK
  <2>2. PICK b \in {Bos, <<>>} : Begins(b \o Render(Asked), kv)
    BY <2>1 DEF HoldsAsked
  <2>3. b \o Render(Asked) \in Seq(Token)
    BY <2>1, <2>2, AskedIsPrompt, BosIsTyped, EmptySeq, ConcatProperties
  <2>4. IsPrefix(b \o Render(Asked), kv)
    BY <2>1, <2>2, <2>3, BeginsIsPrefix
  <2>5. AskedAt = Len(history) => ~Behind
    BY <2>1 DEF Behind
  <2>6. QED
    BY <2>1, <2>4, <2>5
<1>5. QED
  BY MessagesInit, LoopInvInit, MessagesTyped, <1>1, <1>3, <1>4, PTL DEF Spec
-----------------------------------------------------------------------------
(* The engine's steps are those of AgentTurn.                              *)
LEMMA TurnEngineStep ==
  MessagesTypeOK /\ LoopInv /\ EngineStep => [Turn!Next]_(Turn!vars)
<1> SUFFICES ASSUME MessagesTypeOK, LoopInv, EngineStep
             PROVE  [Turn!Next]_(Turn!vars)
  OBVIOUS
<1> USE DEF Turn!vars
<1>1. /\ hop \in Nat /\ zeroWorkRetries \in Nat /\ pending \in Nat
      /\ at = "tool" <=> pending > 0
      /\ at \in {"hop", "tool"} => mode = "loop"
      /\ at \notin {"idle", "hop"} /\ mode = "loop" => hop < MaxToolHops
      /\ mode \in {"loop", "one"}
  BY DEF LoopInv, ControlTypeOK, WithinBudgets
<1>2. /\ MaxToolHops \in Nat /\ MaxIncompleteRetries \in Nat
  BY BudgetAssumption
<1>3. ASSUME at # "idle", at' # "idle", UNCHANGED <<mode, hop, zeroWorkRetries, pending>>
      PROVE  [Turn!Next]_(Turn!vars)
  BY <1>3
<1>4. ASSUME at \notin {"idle", "tool"}, at' = "idle",
             UNCHANGED <<mode, hop, zeroWorkRetries, pending>>
      PROVE  Turn!Next
  BY <1>1, <1>4 DEF Turn!Next, Turn!Work, Turn!Return
<1>5. ASSUME at \notin {"idle", "hop"}, at' # "idle", mode = "loop", mode' = mode,
             hop' = hop + 1, pending <= 1, pending' = 0
      PROVE  Turn!Next
  BY <1>1, <1>2, <1>5 DEF Turn!Next, Turn!Work, Turn!EndRound
<1>6. CASE LoopHead
  BY <1>3, <1>4, <1>6 DEF OutOfHops, LoopHead, Finish, counters
<1>7. CASE FeedPrompt
  BY <1>3, <1>7 DEF FeedPrompt, counters
<1>8. CASE EndOfTurn
  BY <1>3, <1>8 DEF EndOfTurn, counters
<1>9. ASSUME NEW t \in Generated, Emit(t) PROVE [Turn!Next]_(Turn!vars)
  BY <1>3, <1>9 DEF Emit, counters
<1>10. CASE LoopFails
  BY <1>4, <1>10 DEF LoopFails, InLoopTurn, Finish, counters
<1>11. CASE ThoughtRetry
  BY <1>1, <1>5, <1>11 DEF ThoughtRetry, InLoopTurn
<1>12. ASSUME NEW m \in Turns(raw), AfterTurn(m) PROVE [Turn!Next]_(Turn!vars)
  <2>1. at = "turn" /\ mode = "loop"
    BY <1>12 DEF AfterTurn, StopAtCeiling, AnnounceRetry, Answer, StartTools,
                 TurnAccepted, InLoopTurn
  <2>2. CASE StopAtCeiling(m) \/ Answer(m)
    BY <1>4, <2>1, <2>2 DEF StopAtCeiling, Answer, Finish
  <2>3. CASE AnnounceRetry(m)
    BY <1>1, <1>5, <2>1, <2>3 DEF AnnounceRetry
  <2>4. CASE StartTools(m)
    <3>1. m.calls \in Nat
      BY TurnsAreMessages DEF MessagesTypeOK
    <3>2. pending' \in 1 .. (IF ParallelToolCalls THEN MaxParallelCalls ELSE 1)
      BY <2>4, <3>1, DispatchedBounds DEF StartTools
    <3>3. UNCHANGED <<mode, hop, zeroWorkRetries>> /\ at' = "tool"
      BY <2>4 DEF StartTools
    <3>4. pending = 0 /\ hop < MaxToolHops
      BY <1>1, <2>1
    <3>5. QED
      BY <1>1, <1>2, <2>1, <3>2, <3>3, <3>4 DEF Turn!Next, Turn!Work, Turn!OweResults
  <2>5. QED
    BY <1>12, <2>2, <2>3, <2>4 DEF AfterTurn
<1>13. CASE DispatchTool
  <2>1. /\ at = "tool" /\ mode = "loop" /\ pending > 0 /\ pending' = pending - 1
        /\ UNCHANGED <<mode, zeroWorkRetries>> /\ hop < MaxToolHops
    BY <1>1, <1>13 DEF DispatchTool, counters
  <2>2. CASE pending > 1
    <3>1. UNCHANGED <<at, hop>>
      BY <1>13, <2>2 DEF DispatchTool
    <3>2. QED
      BY <1>1, <1>2, <2>1, <2>2, <3>1 DEF Turn!Next, Turn!Work, Turn!GiveResult
  <2>3. CASE ~(pending > 1)
    <3>1. at' = "hop" /\ hop' = hop + 1
      BY <1>13, <2>3 DEF DispatchTool
    <3>2. QED
      BY <1>1, <1>5, <2>1, <2>3, <3>1
  <2>4. QED
    BY <2>2, <2>3
<1>14. CASE ZeroWorkRetry
  <2>1. /\ at = "turn" /\ at' = "gen" /\ mode = "one" /\ pending = 0
        /\ UNCHANGED <<mode, pending, hop>>
        /\ zeroWorkRetries < MaxIncompleteRetries
        /\ zeroWorkRetries' = zeroWorkRetries + 1
    BY <1>1, <1>14 DEF ZeroWorkRetryDue, ZeroWorkRetry, InOneTurn
  <2>2. QED
    BY <1>1, <1>2, <2>1 DEF Turn!Next, Turn!Work, Turn!EndRound
<1>15. CASE OneFails \/ OneAnswers
  BY <1>4, <1>15 DEF OneFails, OneAnswers, InOneTurn, Finish, counters
<1>16. QED
  BY <1>6, <1>7, <1>8, <1>9, <1>10, <1>11, <1>12, <1>13, <1>14, <1>15
  DEF EngineStep

LEMMA TurnCallerStep == LoopInv /\ CallerStep => [Turn!Next]_(Turn!vars)
<1> SUFFICES ASSUME LoopInv, CallerStep PROVE [Turn!Next]_(Turn!vars)
  OBVIOUS
<1> USE DEF Turn!vars
<1>1. ASSUME UNCHANGED <<at, mode, hop, zeroWorkRetries, pending>>
      PROVE  [Turn!Next]_(Turn!vars)
  BY <1>1
<1>2. ASSUME NEW m \in {"loop", "one"}, NEW h, at = "idle", Enter(m, h)
      PROVE  [Turn!Next]_(Turn!vars)
  BY <1>2 DEF Enter, Turn!Next, Turn!Begin
<1>3. CASE RequestCancel \/ ClearHistory \/ Reset \/ ClearKv
  BY <1>1, <1>3 DEF RequestCancel, ClearHistory, Reset, ClearKv, counters
<1>4. ASSUME NEW n \in 1..2, PopLast(n) PROVE [Turn!Next]_(Turn!vars)
  BY <1>1, <1>4 DEF PopLast, counters
<1>5. CASE Chat
  BY <1>2, <1>5 DEF Chat
<1>6. ASSUME NEW m \in {"loop", "one"}, NEW h \in ClientHistories,
             NEW streamed \in BOOLEAN, Request(m, h, streamed)
      PROVE  [Turn!Next]_(Turn!vars)
  BY <1>2, <1>6 DEF Request
<1>7. QED
  BY <1>3, <1>4, <1>5, <1>6 DEF CallerStep

(* Retries, nudges, tool hops and failures stay inside the contract the    *)
(* caller relies on: a call never takes more rounds than its budget, and   *)
(* never starts a round while tool results are owed.                       *)
THEOREM EngineStepsLikeAgentTurn == Spec => StepsLikeAgentTurn
<1>1. Init => Turn!Init
  BY DEF Init, Turn!Init
<1>2. LoopInv /\ UNCHANGED vars => [Turn!Next]_(Turn!vars) /\ LoopInv'
  BY DEF vars, counters, Turn!vars, LoopInv, ControlTypeOK, WithinBudgets
<1>3. MessagesTypeOK /\ MessagesTypeOK' /\ LoopInv /\ [Next]_vars
        => [Turn!Next]_(Turn!vars) /\ LoopInv'
  BY <1>2, LoopInvEngineStep, LoopInvCallerStep, TurnEngineStep, TurnCallerStep
  DEF Next
<1>4. QED
  BY MessagesInit, LoopInvInit, MessagesTyped, <1>1, <1>3, PTL
  DEF Spec, StepsLikeAgentTurn, Turn!Safety
=============================================================================
