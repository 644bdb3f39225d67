---------------------- MODULE SpeculativeDecodeProofs -----------------------
(***************************************************************************)
(* Proofs about SpeculativeDecode, for every prompt, context, draft        *)
(* length, budget, text and guess: the caches stay in step, and drafting   *)
(* implements PlainDecode.                                                 *)
(***************************************************************************)
EXTENDS SpeculativeDecode, SequenceTheorems, WellFoundedInduction, TLAPS

-----------------------------------------------------------------------------
(* The type invariant, variable by variable.                               *)
TypeParts ==
  /\ promptLength \in PromptLengths /\ text \in Texts(promptLength)
  /\ kv \in Seq(Token) /\ dkv \in Seq(Token) /\ specPrompt \in Seq(Token) /\ out \in Seq(Token)
  /\ draft \in Seq(Token) /\ accepted \in Seq(Token)
  /\ budget \in Budgets /\ nPast \in 0..NCtx /\ last \in Vocab
  /\ at \in {"head", "draft", "decode", "verify", "emit", "done"}
  /\ why \in {"none", "eog", "budget", "full", "cancelled", "backend"}
  /\ cancel \in BOOLEAN

(* A cache holds the first n tokens of what the target would have written; *)
(* or it does so behind the prompt, as what this generation has added.     *)
Matches(cache, n) == n <= Len(cache) /\ \A i \in 1..n : cache[i] = Whole[i]
Follows(cache, n) ==
  n <= Len(cache) /\ \A i \in promptLength + 1 .. n : cache[i] = Whole[i]

(* How many tokens have been shown, wherever the loop is.                  *)
Shown ==
  IF at = "head" THEN nPast - promptLength
  ELSE IF at = "emit" THEN nPast + 1 - promptLength - Len(accepted)
  ELSE nPast + 1 - promptLength

(* The two caches, the pipeline's prompt and n_past, between two steps.    *)
Aligned ==
  /\ Matches(kv, nPast) /\ (DraftIsShort \/ Follows(dkv, nPast))
  /\ Follows(specPrompt, nPast) /\ Len(specPrompt) = nPast
  /\ at # "verify" => Len(kv) = nPast

(* From the guess to its verification; the batch is in both caches before  *)
(* it is verified.                                                         *)
Guessing ==
  /\ nPast + 1 < NCtx
  /\ at \in {"decode", "verify"} =>
       draft \in Seq(Vocab) /\ nPast + 1 + Len(draft) <= NCtx
  /\ at = "decode" => DraftIsShort \/ Len(dkv) = nPast
  /\ at = "verify" =>
       /\ SameBehindPrompt(dkv, kv) /\ Len(kv) = nPast + 1 + Len(draft) /\ kv[nPast + 1] = last
       /\ \A i \in 1..Len(draft) : kv[nPast + 1 + i] = draft[i]

(* The accepted tokens not shown yet end where the cache ends, one ahead.  *)
Accepting ==
  /\ Len(accepted) >= 1
  /\ \A i \in 1..Len(accepted) : accepted[i] = Whole[nPast + 1 - Len(accepted) + i]

(* The inductive invariant.  CachesAgree says nothing of the step in       *)
(* between, while a batch is being verified, and nothing of what the       *)
(* sampler will return there: what is in the caches has to be tied to the  *)
(* text position by position, the draft's behind the prompt only: what an  *)
(* earlier generation left in the draft context under it is never known.   *)
SpecInv ==
  /\ TypeParts
  /\ promptLength <= nPast /\ promptLength + Len(out) <= NCtx + 1
  /\ at = "done" <=> why # "none"
  /\ at # "done" =>
       /\ Aligned /\ ~BudgetSpent(Len(out)) /\ Len(out) = Shown
       /\ at # "emit" => last = Whole[nPast + 1]
       /\ at \in {"draft", "decode", "verify"} => Guessing
       /\ at = "emit" => Accepting
-----------------------------------------------------------------------------
(* The least element of a set of numbers, and the greatest of a bounded    *)
(* one: the form of induction the lemmas below use.                        *)
LEMMA LeastNat ==
  ASSUME NEW T \in SUBSET Nat, T # {}
  PROVE  \E x \in T : \A y \in T : x <= y
<1> DEFINE R == OpToRel(<, Nat)
<1>1. IsWellFoundedOn(R, Nat)
  BY NatLessThanWellFounded
<1>2. \A x, y \in Nat : x < y => <<x, y>> \in R
  BY DEF OpToRel
<1> HIDE DEF R
<1>3. PICK x \in T : \A y \in T : ~ (<<y, x>> \in R)
  BY <1>1, WFMin
<1>4. \A y \in T : x <= y
  <2> SUFFICES ASSUME NEW y \in T PROVE x <= y
    OBVIOUS
  <2>1. x \in Nat /\ y \in Nat
    OBVIOUS
  <2>2. ~(y < x)
    BY <1>2, <1>3, <2>1
  <2>3. QED
    BY <2>1, <2>2
<1>5. QED
  BY <1>4

LEMMA GreatestNat ==
  ASSUME NEW n \in Nat, NEW S \in SUBSET (0..n), S # {}
  PROVE  \E x \in S : \A y \in S : y <= x
<1> DEFINE T == {k \in 0..n : n - k \in S}
<1>1. T \in SUBSET Nat /\ T # {}
  <2>1. PICK y \in S : TRUE
    OBVIOUS
  <2>2. n - y \in 0..n /\ n - (n - y) = y
    OBVIOUS
  <2>3. n - y \in T
    BY <2>2
  <2>4. T \in SUBSET Nat
    OBVIOUS
  <2> HIDE DEF T
  <2>5. QED
    BY <2>3, <2>4
<1>2. PICK t \in T : \A u \in T : t <= u
  <2> HIDE DEF T
  <2> QED BY <1>1, LeastNat
<1>3. n - t \in S
  BY <1>2
<1>4. \A y \in S : y <= n - t
  <2> SUFFICES ASSUME NEW y \in S PROVE y <= n - t
    OBVIOUS
  <2>1. y \in 0..n /\ t \in 0..n /\ n - y \in 0..n /\ n - (n - y) = y
    OBVIOUS
  <2>2. n - y \in T
    BY <2>1
  <2>3. t <= n - y
    BY <1>2, <2>2
  <2>4. QED
    BY <2>1, <2>3
<1>5. QED
  BY <1>3, <1>4
-----------------------------------------------------------------------------
(* The sequences behind the caches: a prompt of n tokens, and the text.    *)
Ps(n) == [i \in 1..n |-> "p"]

LEMMA WholeOf ==
  ASSUME NEW n \in PromptLengths, NEW t \in Texts(n)
  PROVE  /\ Ps(n) \o t \in Seq(Token) /\ Len(Ps(n) \o t) = NCtx + 2
         /\ \A i \in 1 .. NCtx + 2 : (Ps(n) \o t)[i] \in Token
         /\ \A i \in n + 1 .. NCtx + 2 :
              (Ps(n) \o t)[i] = t[i - n] /\ (Ps(n) \o t)[i] \in Vocab
         /\ Ps(n) \in Seq(Token) /\ Len(Ps(n)) = n
         /\ \A i \in 1..n : (Ps(n) \o t)[i] = Ps(n)[i]
<1> DEFINE p == Ps(n)
           w == p \o t
<1>1. n \in Nat /\ NCtx \in Nat /\ n <= NCtx /\ n >= 1
  BY SpeculativeAssumption
<1>2. /\ p \in Seq(Token) /\ Len(p) = n
      /\ \A i \in 1 .. n : p[i] = "p"
  BY <1>1 DEF Token, Ps
<1> HIDE DEF p
<1>3. /\ t \in Seq(Token) /\ Len(t) = NCtx - n + 2
      /\ \A i \in 1 .. NCtx - n + 2 : t[i] \in Vocab
  <2>1. PICK m \in Nat : m = NCtx - n + 2
    BY <1>1
  <2>2. t \in [1..m -> Vocab]
    BY <2>1 DEF Texts
  <2>3. t \in Seq(Token) /\ Len(t) = m /\ \A i \in 1..m : t[i] \in Vocab
    BY <2>1, <2>2 DEF Token
  <2>4. QED
    BY <2>1, <2>3
<1>4. /\ w \in Seq(Token) /\ Len(w) = Len(p) + Len(t)
      /\ \A i \in 1 .. Len(p) + Len(t) :
           w[i] = IF i <= Len(p) THEN p[i] ELSE t[i - Len(p)]
  BY <1>2, <1>3, ConcatProperties
<1> HIDE DEF w
<1>5. Len(w) = NCtx + 2
  BY <1>1, <1>2, <1>3, <1>4
<1>6. \A i \in 1 .. NCtx + 2 : w[i] \in Token
  BY <1>4, <1>5, ElementOfSeq
<1>7. ASSUME NEW i \in n + 1 .. NCtx + 2
      PROVE  w[i] = t[i - n] /\ w[i] \in Vocab
  <2>1. /\ i \in 1 .. Len(p) + Len(t) /\ ~(i <= Len(p))
        /\ i - n \in 1 .. NCtx - n + 2
    BY <1>1, <1>2, <1>3
  <2>2. QED
    BY <1>2, <1>3, <1>4, <2>1
<1>8. \A i \in 1 .. n : w[i] = p[i]
  BY <1>1, <1>2, <1>3, <1>4
<1>9. QED
  BY <1>2, <1>4, <1>5, <1>6, <1>7, <1>8 DEF w, p

LEMMA WholeIs ==
  ASSUME promptLength \in PromptLengths, text \in Texts(promptLength)
  PROVE  /\ Whole \in Seq(Token) /\ Len(Whole) = NCtx + 2
         /\ \A i \in 1 .. NCtx + 2 : Whole[i] \in Token
         /\ \A i \in promptLength + 1 .. NCtx + 2 :
              Whole[i] = text[i - promptLength] /\ Whole[i] \in Vocab
         /\ Prompt \in Seq(Token) /\ Len(Prompt) = promptLength
         /\ \A i \in 1 .. promptLength : Whole[i] = Prompt[i]
<1>1. Prompt = Ps(promptLength) /\ Whole = Ps(promptLength) \o text
  BY DEF Prompt, Whole, Ps
<1>2. QED
  BY <1>1, WholeOf, Zenon

(* The two parts of a concatenation.                                       *)
LEMMA ConcatParts ==
  ASSUME NEW s \in Seq(Token), NEW t \in Seq(Token)
  PROVE  /\ s \o t \in Seq(Token) /\ Len(s \o t) = Len(s) + Len(t)
         /\ \A i \in 1..Len(s) : (s \o t)[i] = s[i]
         /\ \A i \in 1..Len(t) : (s \o t)[Len(s) + i] = t[i]
<1> DEFINE u == s \o t
<1>1. /\ u \in Seq(Token) /\ Len(u) = Len(s) + Len(t)
      /\ \A i \in 1 .. Len(s) + Len(t) : u[i] = IF i <= Len(s) THEN s[i] ELSE t[i - Len(s)]
  BY ConcatProperties
<1>2. Len(s) \in Nat /\ Len(t) \in Nat
  OBVIOUS
<1> HIDE DEF u
<1>3. \A i \in 1..Len(s) : u[i] = s[i]
  BY <1>1, <1>2
<1>4. ASSUME NEW i \in 1..Len(t) PROVE u[Len(s) + i] = t[i]
  <2>1. PICK j \in 1 .. Len(s) + Len(t) : j = Len(s) + i
    BY <1>2
  <2>2. ~(j <= Len(s)) /\ j - Len(s) = i
    BY <1>2, <2>1
  <2>3. u[j] = t[j - Len(s)]
    BY <1>1, <2>1, <2>2
  <2>4. QED
    BY <2>1, <2>2, <2>3
<1>5. QED
  BY <1>1, <1>3, <1>4 DEF u

(* A cache cut to n tokens.                                                *)
LEMMA CutTo ==
  ASSUME NEW c \in Seq(Token), NEW n \in 0 .. Len(c)
  PROVE  /\ SubSeq(c, 1, n) \in Seq(Token) /\ Len(SubSeq(c, 1, n)) = n
         /\ \A i \in 1..n : SubSeq(c, 1, n)[i] = c[i]
<1>1. Len(c) \in Nat /\ n \in Nat /\ n <= Len(c)
  OBVIOUS
<1>2. \A i \in 1..n : c[i] \in Token
  BY <1>1
<1>3. QED
  BY <1>1, <1>2, SubSeqProperties

LEMMA TrimmedFollows ==
  ASSUME promptLength \in PromptLengths, text \in Texts(promptLength),
         NEW c \in Seq(Token), NEW n \in Nat, Follows(c, n)
  PROVE  /\ Trimmed(c, n) \in Seq(Token) /\ Len(Trimmed(c, n)) = n
         /\ Follows(Trimmed(c, n), n)
<1>1. n \in 0 .. Len(c) /\ \A i \in promptLength + 1 .. n : c[i] = Whole[i]
  BY DEF Follows
<1>2. Trimmed(c, n) = SubSeq(c, 1, n)
  <2>1. Least(n, Len(c)) = n
    BY <1>1 DEF Least
  <2>2. QED
    BY <2>1 DEF Trimmed
<1>3. QED
  <2>1. promptLength \in Nat /\ \A i \in promptLength + 1 .. n : i \in 1..n
    BY SpeculativeAssumption
  <2>2. QED
    BY <1>1, <1>2, <2>1, CutTo DEF Follows

(* A cache that holds the first n tokens is a prefix of the text, and      *)
(* behind it the target samples the next one.                              *)
LEMMA MatchesArePrefixes ==
  ASSUME promptLength \in PromptLengths, text \in Texts(promptLength),
         NEW c \in Seq(Token), NEW n \in 0 .. NCtx + 1,
         Len(c) = n, Matches(c, n)
  PROVE  IsPrefix(c, Whole) /\ TokenBehind(c) = Whole[n + 1]
<1>1. /\ Whole \in Seq(Token) /\ Len(Whole) = NCtx + 2 /\ NCtx \in Nat
  BY WholeIs, SpeculativeAssumption
<1>2. n \in 0 .. Len(Whole) /\ n \in 0 .. Len(c) /\ n < Len(Whole)
  BY <1>1
<1>3. /\ SubSeq(c, 1, n) \in Seq(Token) /\ Len(SubSeq(c, 1, n)) = n
      /\ \A i \in 1..n : SubSeq(c, 1, n)[i] = c[i]
  BY <1>2, CutTo
<1>4. /\ SubSeq(Whole, 1, n) \in Seq(Token) /\ Len(SubSeq(Whole, 1, n)) = n
      /\ \A i \in 1..n : SubSeq(Whole, 1, n)[i] = Whole[i]
  BY <1>1, <1>2, CutTo
<1>5. \A i \in 1..n : SubSeq(c, 1, n)[i] = SubSeq(Whole, 1, n)[i]
  BY <1>3, <1>4 DEF Matches
<1>6. SubSeq(c, 1, n) = SubSeq(Whole, 1, n)
  BY <1>3, <1>4, <1>5, SeqEqual
<1>7. IsPrefix(c, Whole)
  BY <1>1, <1>2, <1>6 DEF IsPrefix
<1>8. IsStrictPrefix(c, Whole)
  <2>1. c # Whole
    BY <1>1, <1>2
  <2>2. QED
    BY <1>7, <2>1 DEF IsStrictPrefix
<1>9. TokenBehind(c) = Whole[n + 1]
  BY <1>8 DEF TokenBehind
<1>10. QED
  BY <1>7, <1>9
-----------------------------------------------------------------------------
(* What is accepted is what the target writes, however much of the guess   *)
(* was right: up to the first wrong guess the cache holds the text, so the *)
(* sampler continues it.                                                   *)
LEMMA AcceptedIsText ==
  ASSUME SpecInv, at = "verify"
  PROVE  /\ NumAccepted \in 0 .. Len(draft)
         /\ \A i \in 1 .. NumAccepted + 1 :
              /\ kv[nPast + i] = Whole[nPast + i]
              /\ Sampled(i) = Whole[nPast + i + 1]
<1>1. /\ promptLength \in PromptLengths /\ text \in Texts(promptLength)
      /\ kv \in Seq(Token) /\ nPast \in Nat
      /\ Matches(kv, nPast) /\ last = Whole[nPast + 1]
      /\ nPast + 1 + Len(draft) <= NCtx /\ Len(draft) \in Nat
      /\ Len(kv) = nPast + 1 + Len(draft) /\ kv[nPast + 1] = last
      /\ \A i \in 1..Len(draft) : kv[nPast + 1 + i] = draft[i]
  BY SpeculativeAssumption DEF SpecInv, TypeParts, Aligned, Guessing
<1>2. NCtx \in Nat
  BY SpeculativeAssumption
<1> DEFINE A == NumAccepted
<1>3. A \in 0 .. Len(draft) /\ \A i \in 1..A : draft[i] = Sampled(i)
  <2>1. Agreed \in SUBSET (0 .. Len(draft)) /\ 0 \in Agreed
    BY <1>1 DEF Agreed
  <2>2. \E n \in Agreed : \A m \in Agreed : m <= n
    BY <1>1, <2>1, GreatestNat
  <2>3. A \in Agreed
    BY <2>2 DEF NumAccepted
  <2> HIDE DEF A
  <2>4. QED
    BY <2>1, <2>3 DEF Agreed
<1> HIDE DEF A
<1>4. ASSUME NEW i \in 1 .. A + 1, \A j \in 1..i : kv[nPast + j] = Whole[nPast + j]
      PROVE  Sampled(i) = Whole[nPast + i + 1]
  <2> DEFINE c == SubSeq(kv, 1, nPast + i)
  <2>1. nPast + i \in 0 .. Len(kv) /\ nPast + i \in 0 .. NCtx + 1 /\ nPast + i \in Nat
    BY <1>1, <1>2, <1>3
  <2>2. c \in Seq(Token) /\ Len(c) = nPast + i /\ \A j \in 1 .. nPast + i : c[j] = kv[j]
    BY <1>1, <2>1, CutTo
  <2>3. \A j \in 1 .. nPast + i : kv[j] = Whole[j]
    <3>1. ASSUME NEW j \in 1 .. nPast + i PROVE kv[j] = Whole[j]
      <4>1. CASE j <= nPast
        BY <1>1, <4>1 DEF Matches
      <4>2. CASE ~(j <= nPast)
        <5>1. j - nPast \in 1..i /\ nPast + (j - nPast) = j
          BY <1>1, <1>3, <4>2
        <5>2. QED
          BY <1>4, <5>1
      <4>3. QED
        BY <4>1, <4>2
    <3>2. QED
      BY <3>1
  <2> HIDE DEF c
  <2>4. Matches(c, nPast + i)
    BY <2>1, <2>2, <2>3 DEF Matches
  <2>5. TokenBehind(c) = Whole[nPast + i + 1]
    BY <1>1, <2>1, <2>2, <2>4, MatchesArePrefixes
  <2>6. QED
    BY <2>5 DEF Sampled, c
<1>5. \A i \in 1 .. A + 1 : kv[nPast + i] = Whole[nPast + i]
  <2> DEFINE Bad == {i \in 1 .. A + 1 : kv[nPast + i] # Whole[nPast + i]}
  <2>1. ASSUME Bad # {} PROVE FALSE
    <3>1. PICK i \in Bad : \A j \in Bad : i <= j
      <4>1. Bad \in SUBSET Nat
        BY <1>3
      <4> HIDE DEF Bad
      <4>2. QED
        BY <2>1, <4>1, LeastNat
    <3>2. i \in 1 .. A + 1 /\ kv[nPast + i] # Whole[nPast + i]
      OBVIOUS
    <3>3. i # 1
      BY <1>1, <3>2
    <3>4. i - 1 \in 1..A /\ i - 1 \in 1 .. A + 1 /\ i - 1 \in 1 .. Len(draft)
      BY <1>1, <1>3, <3>2, <3>3
    <3>5. ASSUME NEW j \in 1 .. i - 1 PROVE kv[nPast + j] = Whole[nPast + j]
      <4>1. j \in 1 .. A + 1 /\ ~(i <= j)
        BY <1>3, <3>2
      <4>2. j \notin Bad
        <5> HIDE DEF Bad
        <5> QED BY <3>1, <4>1
      <4>3. QED
        BY <4>1, <4>2
    <3>6. Sampled(i - 1) = Whole[nPast + (i - 1) + 1]
      BY <1>4, <3>4, <3>5
    <3>7. /\ nPast + 1 + (i - 1) = nPast + i /\ nPast + (i - 1) + 1 = nPast + i
      BY <1>1, <3>2
    <3>8. kv[nPast + i] = draft[i - 1] /\ draft[i - 1] = Sampled(i - 1)
      BY <1>1, <1>3, <3>4, <3>7
    <3>9. QED
      BY <3>2, <3>6, <3>7, <3>8
  <2>2. QED
    BY <2>1
<1>6. ASSUME NEW i \in 1 .. A + 1 PROVE Sampled(i) = Whole[nPast + i + 1]
  <2>1. \A j \in 1..i : j \in 1 .. A + 1
    BY <1>3
  <2>2. QED
    BY <1>4, <1>5, <2>1
<1>7. QED
  BY <1>3, <1>5, <1>6 DEF A
-----------------------------------------------------------------------------
(* The invariant holds at first and is kept by every step.                 *)
LEMMA SpecInvInit == Init => SpecInv
<1> SUFFICES ASSUME Init PROVE SpecInv
  OBVIOUS
<1>1. /\ promptLength \in PromptLengths
      /\ text \in Texts(promptLength) /\ budget \in Budgets /\ kv = Prompt /\ dkv = Prompt
      /\ specPrompt = Prompt /\ nPast = promptLength /\ last = text[1] /\ out = <<>>
      /\ draft = <<>> /\ accepted = <<>> /\ at = "head" /\ why = "none"
      /\ cancel = FALSE
  BY DEF Init
<1>2. promptLength \in 1..NCtx /\ NCtx \in Nat /\ budget \in Nat
  BY <1>1, SpeculativeAssumption
<1>3. /\ Prompt \in Seq(Token) /\ Len(Prompt) = promptLength
      /\ \A i \in 1 .. promptLength : Whole[i] = Prompt[i]
  BY <1>1, WholeIs
<1>4. last = Whole[promptLength + 1] /\ last \in Vocab
  <2>1. /\ promptLength + 1 \in promptLength + 1 .. NCtx + 2
        /\ promptLength + 1 - promptLength = 1
    BY <1>2
  <2>2. QED
    BY <1>1, <2>1, WholeIs
<1>5. Aligned
  BY <1>1, <1>2, <1>3 DEF Aligned, Matches, Follows, DraftIsShort
<1>6. <<>> \in Seq(Token) /\ Len(<<>>) = 0
  BY EmptySeq
<1>7. TypeParts
  <2>1. /\ kv \in Seq(Token) /\ dkv \in Seq(Token) /\ specPrompt \in Seq(Token)
        /\ out \in Seq(Token) /\ draft \in Seq(Token) /\ accepted \in Seq(Token)
    BY <1>1, <1>3, <1>6, Zenon
  <2>2. nPast \in 0..NCtx
    BY <1>1, <1>2
  <2>3. at \in {"head"} /\ why \in {"none"} /\ cancel \in BOOLEAN
    BY <1>1
  <2>4. QED
    BY <1>1, <1>4, <2>1, <2>2, <2>3 DEF TypeParts
<1>8. /\ ~BudgetSpent(Len(out)) /\ Len(out) = Shown
      /\ promptLength <= nPast /\ promptLength + Len(out) <= NCtx + 1
  BY <1>1, <1>2, <1>6 DEF BudgetSpent, Shown
<1>9. QED
  BY <1>1, <1>4, <1>5, <1>7, <1>8 DEF SpecInv

(* The parts of the invariant every step starts from.                      *)
LEMMA Known ==
  ASSUME SpecInv
  PROVE  /\ promptLength \in PromptLengths /\ text \in Texts(promptLength)
         /\ kv \in Seq(Token) /\ dkv \in Seq(Token)
         /\ specPrompt \in Seq(Token) /\ out \in Seq(Token) /\ Len(out) \in Nat
         /\ draft \in Seq(Token) /\ accepted \in Seq(Token)
         /\ nPast \in Nat /\ nPast <= NCtx /\ promptLength <= nPast
         /\ promptLength \in Nat \ {0} /\ NCtx \in Nat /\ budget \in Nat
         /\ Whole[nPast + 1] \in Vocab /\ Whole[nPast + 1] = text[nPast + 1 - promptLength]
<1>1. /\ promptLength \in PromptLengths /\ text \in Texts(promptLength)
      /\ kv \in Seq(Token) /\ dkv \in Seq(Token)
      /\ specPrompt \in Seq(Token) /\ out \in Seq(Token)
      /\ draft \in Seq(Token) /\ accepted \in Seq(Token)
      /\ budget \in Budgets /\ nPast \in 0..NCtx /\ promptLength <= nPast
  BY DEF TypeParts, SpecInv
<1>2. promptLength \in Nat \ {0} /\ NCtx \in Nat /\ budget \in Nat
  BY <1>1, SpeculativeAssumption
<1>3. Len(out) \in Nat
  BY <1>1
<1>4. nPast + 1 \in promptLength + 1 .. NCtx + 2
  BY <1>1, <1>2
<1>5. QED
  BY <1>1, <1>2, <1>3, <1>4, WholeIs

(* Two sequences of one length that both follow the text agree.            *)
LEMMA FollowersAgree ==
  ASSUME SpecInv, NEW c \in Seq(Token), NEW d \in Seq(Token),
         Len(c) = nPast, Len(d) = nPast, Matches(c, nPast), Follows(d, nPast)
  PROVE  SameBehindPrompt(d, c)
<1>1. \A i \in promptLength + 1 .. nPast : i \in 1..nPast
  BY Known
<1>2. QED
  BY <1>1 DEF Matches, Follows, SameBehindPrompt

LEMMA InvShowFirst == SpecInv /\ ShowFirst => SpecInv'
<1> SUFFICES ASSUME SpecInv, ShowFirst PROVE SpecInv'
  OBVIOUS
<1>1. /\ at = "head" /\ last # "eog" /\ out' = Append(out, last)
      /\ UNCHANGED <<kv, dkv, specPrompt, nPast, last, draft, accepted,
                     budget, promptLength, text, cancel>>
      /\ \/ BudgetSpent(Len(out) + 1) /\ at' = "done" /\ why' = "budget"
         \/ nPast + 1 >= NCtx /\ at' = "done" /\ why' = "full"
         \/ /\ ~BudgetSpent(Len(out) + 1) /\ ~(nPast + 1 >= NCtx)
            /\ at' = "draft" /\ why' = why
  BY DEF ShowFirst, Ends, Unmoved, job, caches
<1>2. /\ Aligned /\ Len(out) = nPast - promptLength /\ last = Whole[nPast + 1]
      /\ last \in Vocab /\ why = "none"
  BY <1>1 DEF TypeParts, SpecInv, Shown
<1>3. out' \in Seq(Token) /\ Len(out') = Len(out) + 1
  <2>1. last \in Token
    BY <1>2 DEF Token
  <2>2. QED
    BY <1>1, <2>1, Known, AppendProperties
<1>4. TypeParts'
  <2>1. at' \in {"draft", "done"} /\ why' \in {"none", "budget", "full"}
    BY <1>1, <1>2
  <2>2. QED
    BY <1>1, <1>3, <2>1 DEF TypeParts, SpecInv
<1>5. Aligned' /\ Whole' = Whole
  BY <1>1, <1>2 DEF Aligned, Matches, Follows, DraftIsShort, Whole, Prompt
<1>6. /\ promptLength' <= nPast' /\ promptLength' + Len(out') <= NCtx + 1
      /\ at' = "done" <=> why' # "none"
  BY <1>1, <1>2, <1>3, Known
<1>7. CASE at' = "done"
  BY <1>4, <1>6, <1>7 DEF SpecInv
<1>8. CASE at' = "draft"
  <2>1. Guessing'
    BY <1>1, <1>8, Known DEF Guessing
  <2>2. ~BudgetSpent(Len(out))' /\ (Len(out) = Shown)'
    BY <1>1, <1>2, <1>3, <1>8, Known DEF BudgetSpent, Shown
  <2>3. last' = Whole'[nPast' + 1]
    BY <1>1, <1>2, <1>5
  <2>4. QED
    BY <1>4, <1>5, <1>6, <1>8, <2>1, <2>2, <2>3 DEF SpecInv
<1>9. QED
  BY <1>1, <1>7, <1>8

(* A generation that ends keeps its types and what it has shown.           *)
LEMMA InvEnds ==
  ASSUME SpecInv, at' = "done",
         why' \in {"eog", "budget", "full", "cancelled", "backend"},
         kv' \in Seq(Token), dkv' = dkv, specPrompt' = specPrompt, nPast' = nPast,
         draft' = draft, accepted' \in Seq(Token), last' = last,
         out' \in Seq(Token), promptLength' + Len(out') <= NCtx + 1, Unmoved
  PROVE  SpecInv'
<1>1. TypeParts'
  BY DEF SpecInv, TypeParts, Unmoved, job
<1>2. QED
  BY <1>1 DEF SpecInv, Unmoved, job

LEMMA InvStop == SpecInv /\ Stop => SpecInv'
<1> SUFFICES ASSUME SpecInv, Stop PROVE SpecInv'
  OBVIOUS
<1>1. /\ at' = "done" /\ why' \in {"cancelled", "eog"} /\ Unmoved
      /\ UNCHANGED <<kv, dkv, specPrompt, nPast, last, draft, accepted, out>>
  BY DEF Stop, Ends, caches
<1>2. promptLength' + Len(out') <= NCtx + 1
  BY <1>1 DEF SpecInv, Unmoved, job
<1>3. QED
  BY <1>1, <1>2, Known, InvEnds

LEMMA InvGuess == SpecInv /\ Guess => SpecInv'
<1> SUFFICES ASSUME SpecInv, Guess PROVE SpecInv'
  OBVIOUS
<1>1. /\ at = "draft" /\ at' = "decode"
      /\ UNCHANGED <<kv, specPrompt, nPast, last, accepted, out, why,
                     budget, promptLength, text, cancel>>
      /\ dkv' = Trimmed(dkv, nPast)
  BY DEF Guess, Unmoved, job
<1>2. PICK n \in 0..DraftLength : \E d \in [1..n -> Vocab] : draft' = d
  BY DEF Guess
<1>3. /\ Aligned /\ Guessing /\ ~BudgetSpent(Len(out)) /\ Len(out) = nPast + 1 - promptLength
      /\ last = Whole[nPast + 1] /\ why = "none"
  BY <1>1 DEF SpecInv, Shown
<1>4. n \in Nat /\ nPast + 1 + n <= NCtx
  <2>1. /\ DraftLength = NDraftMax \/ DraftLength = NCtx - nPast - 1
        /\ DraftLength <= NCtx - nPast - 1 /\ NCtx - nPast - 1 \in Nat /\ NDraftMax \in Nat
    BY <1>3, Known, SpeculativeAssumption DEF DraftLength, Least, Guessing
  <2>2. QED
    BY <1>2, <2>1, Known
<1>5. draft' \in Seq(Vocab) /\ draft' \in Seq(Token) /\ Len(draft') = n
  <2>1. draft' \in [1..n -> Vocab] /\ \A v \in Vocab : v \in Token
    BY <1>2 DEF Token
  <2>2. QED
    BY <1>4, <2>1
<1>6. /\ dkv' \in Seq(Token)
      /\ Len(dkv') < promptLength \/ (Len(dkv') = nPast /\ Follows(dkv', nPast))
  <2>1. CASE DraftIsShort
    <3>1. Len(dkv) \in 0 .. Len(dkv) /\ Least(nPast, Len(dkv)) = Len(dkv)
      BY <2>1, Known DEF DraftIsShort, Least
    <3>2. dkv' = SubSeq(dkv, 1, Len(dkv))
      BY <1>1, <3>1 DEF Trimmed
    <3>3. QED
      BY <2>1, <3>1, <3>2, Known, CutTo DEF DraftIsShort
  <2>2. CASE Follows(dkv, nPast)
    BY <1>1, <2>2, Known, TrimmedFollows
  <2>3. QED
    BY <1>3, <2>1, <2>2 DEF Aligned
<1>7. TypeParts'
  BY <1>1, <1>5, <1>6 DEF TypeParts, SpecInv
<1>8. Whole' = Whole
  BY <1>1 DEF Whole, Prompt
<1>9. Aligned'
  BY <1>1, <1>3, <1>6, <1>8 DEF Aligned, Matches, Follows, DraftIsShort
<1>10. Guessing'
  BY <1>1, <1>3, <1>4, <1>5, <1>6 DEF Guessing, DraftIsShort
<1>11. ~BudgetSpent(Len(out))' /\ (Len(out) = Shown)'
  BY <1>1, <1>3 DEF BudgetSpent, Shown
<1>12. promptLength' <= nPast' /\ promptLength' + Len(out') <= NCtx + 1
  BY <1>1 DEF SpecInv
<1>13. QED
  BY <1>1, <1>3, <1>7, <1>8, <1>9, <1>10, <1>11, <1>12 DEF SpecInv

(* The batch fits the target's context: an error there is the backend's.   *)
LEMMA BatchFits ==
  ASSUME SpecInv, at = "decode"
  PROVE  /\ Fits(kv) /\ Batch \in Seq(Token)
         /\ Len(Batch) = 1 + Len(draft) /\ Batch[1] = last
         /\ \A i \in 1..Len(draft) : Batch[1 + i] = draft[i]
<1>1. /\ Len(kv) = nPast /\ nPast + 1 + Len(draft) <= NCtx
      /\ last \in Vocab /\ draft \in Seq(Token) /\ Len(draft) \in Nat
  BY DEF TypeParts, SpecInv, Aligned, Guessing
<1>2. <<last>> \in Seq(Token) /\ Len(<<last>>) = 1 /\ <<last>>[1] = last
  BY <1>1 DEF Token
<1>3. /\ Batch \in Seq(Token) /\ Len(Batch) = 1 + Len(draft)
      /\ \A i \in 1 .. 1 + Len(draft) :
           Batch[i] = IF i <= 1 THEN <<last>>[i] ELSE draft[i - 1]
  BY <1>1, <1>2, ConcatProperties DEF Batch
<1>4. Batch[1] = last
  BY <1>1, <1>2, <1>3
<1>5. ASSUME NEW i \in 1..Len(draft) PROVE Batch[1 + i] = draft[i]
  <2>1. 1 + i \in 1 .. 1 + Len(draft) /\ ~(1 + i <= 1) /\ (1 + i) - 1 = i
    BY <1>1
  <2>2. QED
    BY <1>3, <2>1
<1>6. Fits(kv)
  BY <1>1, <1>3, Known DEF Fits
<1>7. QED
  BY <1>3, <1>4, <1>5, <1>6

LEMMA InvDecode == SpecInv /\ Decode => SpecInv'
<1> SUFFICES ASSUME SpecInv, Decode PROVE SpecInv'
  OBVIOUS
<1>1. /\ at = "decode" /\ at' = "verify" /\ kv' = kv \o Batch /\ dkv' = dkv \o Batch
      /\ UNCHANGED <<specPrompt, nPast, last, draft, accepted, out, why,
                     budget, promptLength, text, cancel>>
  BY DEF Decode, Unmoved, job
<1>2. /\ Aligned /\ Guessing /\ ~BudgetSpent(Len(out)) /\ Len(out) = nPast + 1 - promptLength
      /\ last = Whole[nPast + 1] /\ why = "none" /\ Len(kv) = nPast /\ Len(dkv) = nPast
      /\ Follows(dkv, nPast)
  <2>1. Fits(dkv)
    BY DEF Decode
  <2>2. QED
    BY <1>1, <2>1, Known DEF SpecInv, Shown, Aligned, Fits, DraftIsShort
<1>3. /\ Batch \in Seq(Token) /\ Len(Batch) = 1 + Len(draft) /\ Batch[1] = last
      /\ \A i \in 1..Len(draft) : Batch[1 + i] = draft[i]
  BY <1>1, BatchFits
<1>4. Len(draft) \in Nat /\ nPast \in Nat
  BY Known
<1>5. \A i \in promptLength + 1 .. nPast : dkv[i] = kv[i]
  <2>1. \A i \in promptLength + 1 .. nPast : i \in 1..nPast
    BY Known
  <2>2. QED
    BY <1>2, <2>1 DEF Aligned, Matches, Follows, DraftIsShort
<1>6. ASSUME NEW c \in Seq(Token), Len(c) = nPast, NEW d, d = c \o Batch
      PROVE  /\ d \in Seq(Token) /\ Len(d) = nPast + (1 + Len(draft))
             /\ \A i \in 1..nPast : d[i] = c[i]
             /\ \A i \in 1 .. 1 + Len(draft) : d[nPast + i] = Batch[i]
  <2>1. /\ c \o Batch \in Seq(Token) /\ Len(c \o Batch) = Len(c) + Len(Batch)
        /\ \A i \in 1..Len(c) : (c \o Batch)[i] = c[i]
        /\ \A i \in 1..Len(Batch) : (c \o Batch)[Len(c) + i] = Batch[i]
    BY <1>3, ConcatParts
  <2>2. d = c \o Batch /\ Len(c) = nPast /\ Len(Batch) = 1 + Len(draft)
    BY <1>3, <1>6
  <2>3. QED
    BY <2>1, <2>2, Zenon
<1>7. /\ kv' \in Seq(Token) /\ Len(kv') = nPast + (1 + Len(draft))
      /\ \A i \in 1..nPast : kv'[i] = kv[i]
      /\ \A i \in 1 .. 1 + Len(draft) : kv'[nPast + i] = Batch[i]
  <2>1. kv \in Seq(Token) /\ Len(kv) = nPast /\ kv' = kv \o Batch
    BY <1>1, <1>2, Known
  <2>2. QED
    BY <1>6, <2>1, Zenon
<1>8. /\ dkv' \in Seq(Token) /\ Len(dkv') = nPast + (1 + Len(draft))
      /\ \A i \in 1..nPast : dkv'[i] = dkv[i]
      /\ \A i \in 1 .. 1 + Len(draft) : dkv'[nPast + i] = Batch[i]
  <2>1. dkv \in Seq(Token) /\ Len(dkv) = nPast /\ dkv' = dkv \o Batch
    BY <1>1, <1>2, Known
  <2>2. QED
    BY <1>6, <2>1, Zenon
<1>9. /\ Len(kv') = nPast + 1 + Len(draft) /\ kv'[nPast + 1] = last
      /\ \A i \in 1..Len(draft) : kv'[nPast + 1 + i] = draft[i]
  <2>1. 1 \in 1 .. 1 + Len(draft) /\ nPast + (1 + Len(draft)) = nPast + 1 + Len(draft)
    BY <1>4
  <2>2. kv'[nPast + 1] = last
    BY <1>3, <1>7, <2>1
  <2>3. ASSUME NEW i \in 1..Len(draft) PROVE kv'[nPast + 1 + i] = draft[i]
    <3>1. 1 + i \in 1 .. 1 + Len(draft) /\ nPast + 1 + i = nPast + (1 + i)
      BY <1>4
    <3>2. kv'[nPast + (1 + i)] = Batch[1 + i]
      BY <1>7, <3>1
    <3>3. QED
      BY <1>3, <3>1, <3>2
  <2>4. QED
    BY <1>7, <2>1, <2>2, <2>3
<1>10. Whole' = Whole /\ SameBehindPrompt(dkv, kv)'
  <2>1. ASSUME NEW i \in promptLength + 1 .. Len(kv') PROVE dkv'[i] = kv'[i]
    <3>1. CASE i <= nPast
      <4>1. i \in promptLength + 1 .. nPast /\ i \in 1..nPast
        BY <3>1, Known
      <4>2. QED
        BY <1>5, <1>7, <1>8, <4>1
    <3>2. CASE ~(i <= nPast)
      <4>1. PICK j \in 1 .. 1 + Len(draft) : i = nPast + j
        <5>1. i - nPast \in 1 .. 1 + Len(draft) /\ i = nPast + (i - nPast)
          BY <1>4, <1>7, <3>2, Known
        <5>2. QED
          BY <5>1
      <4>2. QED
        BY <1>7, <1>8, <4>1
    <3>3. QED
      BY <3>1, <3>2
  <2>2. Whole' = Whole /\ promptLength' = promptLength
    BY <1>1 DEF Whole, Prompt
  <2>3. QED
    BY <1>7, <1>8, <2>1, <2>2 DEF SameBehindPrompt
<1>11. TypeParts'
  BY <1>1, <1>7, <1>8 DEF TypeParts, SpecInv
<1>12. Aligned'
  <2>1. Matches(kv, nPast)'
    BY <1>1, <1>2, <1>4, <1>7, <1>9, <1>10 DEF Aligned, Matches, Follows, DraftIsShort
  <2>2. Follows(specPrompt, nPast)' /\ Len(specPrompt') = nPast'
    BY <1>1, <1>2, <1>10 DEF Aligned, Matches, Follows, DraftIsShort
  <2>3. Follows(dkv, nPast)'
    <3>1. \A i \in promptLength + 1 .. nPast : i \in 1..nPast
      BY Known
    <3>2. QED
      BY <1>1, <1>2, <1>4, <1>10, <1>8, <3>1 DEF Aligned, Follows
  <2>4. QED
    BY <1>1, <2>1, <2>2, <2>3 DEF Aligned
<1>13. Guessing'
  BY <1>1, <1>2, <1>7, <1>9, <1>10 DEF Guessing
<1>14. ~BudgetSpent(Len(out))' /\ (Len(out) = Shown)'
  BY <1>1, <1>2 DEF BudgetSpent, Shown
<1>15. promptLength' <= nPast' /\ promptLength' + Len(out') <= NCtx + 1
  BY <1>1 DEF SpecInv
<1>16. QED
  BY <1>1, <1>2, <1>10, <1>11, <1>12, <1>13, <1>14, <1>15 DEF SpecInv

LEMMA InvFails == SpecInv /\ (DecodeFails \/ SpeculationFails) => SpecInv'
<1> SUFFICES ASSUME SpecInv, DecodeFails \/ SpeculationFails PROVE SpecInv'
  OBVIOUS
<1>1. /\ at = "decode" /\ at' = "done" /\ why' = "backend" /\ Unmoved
      /\ UNCHANGED <<dkv, specPrompt, nPast, last, draft, accepted, out>>
      /\ \/ kv' = kv \o Batch
         \/ \E n \in 0 .. Least(Len(Batch), NCtx - Len(kv)) : kv' = kv \o SubSeq(Batch, 1, n)
  BY DEF DecodeFails, SpeculationFails, Ends
<1>2. Batch \in Seq(Token) /\ Len(Batch) \in Nat /\ kv \in Seq(Token) /\ Len(kv) \in Nat
  BY <1>1, BatchFits, Known
<1>3. kv' \in Seq(Token)
  <2>1. CASE kv' = kv \o Batch
    BY <1>2, <2>1, ConcatProperties
  <2>2. ASSUME NEW n \in 0 .. Least(Len(Batch), NCtx - Len(kv)),
               kv' = kv \o SubSeq(Batch, 1, n)
        PROVE  kv' \in Seq(Token)
    <3>1. n \in 0 .. Len(Batch)
      BY <1>2, Known DEF Least
    <3>2. SubSeq(Batch, 1, n) \in Seq(Token)
      BY <1>2, <3>1, CutTo
    <3>3. QED
      BY <1>2, <2>2, <3>2, ConcatProperties
  <2>3. QED
    BY <1>1, <2>1, <2>2
<1>4. promptLength' + Len(out') <= NCtx + 1
  BY <1>1 DEF SpecInv, Unmoved, job
<1>5. QED
  BY <1>1, <1>3, <1>4, Known, InvEnds

LEMMA InvVerify == SpecInv /\ Verify => SpecInv'
<1> SUFFICES ASSUME SpecInv, Verify PROVE SpecInv'
  OBVIOUS
<1> DEFINE A   == NumAccepted
           acc == [i \in 1 .. A + 1 |-> Sampled(i)]
<1>1. /\ at = "verify" /\ at' = "emit" /\ accepted' = acc
      /\ kv' = TrimRejected(Len(acc)) /\ nPast' = nPast + Len(acc)
      /\ specPrompt' = Mirrored(acc)
      /\ UNCHANGED <<dkv, last, draft, out, why,
                     budget, promptLength, text, cancel>>
  BY DEF Verify, Unmoved, job
<1>2. /\ Aligned /\ Guessing /\ ~BudgetSpent(Len(out)) /\ Len(out) = nPast + 1 - promptLength
      /\ last = Whole[nPast + 1] /\ why = "none" /\ SameBehindPrompt(dkv, kv)
      /\ Len(kv) = nPast + 1 + Len(draft) /\ nPast + 1 + Len(draft) <= NCtx
      /\ Matches(kv, nPast) /\ Follows(specPrompt, nPast) /\ Len(specPrompt) = nPast
  BY <1>1 DEF SpecInv, Shown, Aligned, Guessing
<1>3. /\ A \in 0 .. Len(draft)
      /\ \A i \in 1 .. A + 1 : /\ kv[nPast + i] = Whole[nPast + i]
                                /\ Sampled(i) = Whole[nPast + i + 1]
  BY <1>1, AcceptedIsText
<1>4. Len(draft) \in Nat /\ nPast \in Nat /\ NCtx \in Nat /\ Whole' = Whole
  BY <1>1, Known DEF Whole, Prompt
<1> HIDE DEF A
<1>5. \A i \in 1 .. A + 1 : Sampled(i) \in Token
  <2>1. \A i \in 1 .. A + 1 : nPast + i + 1 \in 1 .. NCtx + 2
    BY <1>2, <1>3, <1>4
  <2>2. QED
    BY <1>3, <2>1, Known, WholeIs
<1>6. /\ acc \in Seq(Token) /\ Len(acc) = A + 1
      /\ \A i \in 1 .. A + 1 : acc[i] = Whole[nPast + i + 1]
  BY <1>3, <1>4, <1>5
<1> HIDE DEF acc
<1> DEFINE n == nPast + A + 1
<1>7. /\ n \in Nat /\ n <= Len(kv) /\ n <= NCtx /\ n \in 0 .. Len(kv)
      /\ nPast' = n /\ nPast + Len(acc) = n
  BY <1>1, <1>2, <1>3, <1>4, <1>6
<1>8. \A i \in 1..n : kv[i] = Whole[i]
  <2>1. ASSUME NEW i \in 1..n PROVE kv[i] = Whole[i]
    <3>1. CASE i <= nPast
      BY <1>2, <3>1 DEF Matches
    <3>2. CASE ~(i <= nPast)
      <4>1. i - nPast \in 1 .. A + 1 /\ nPast + (i - nPast) = i
        BY <1>3, <1>4, <3>2
      <4>2. QED
        BY <1>3, <4>1
    <3>3. QED
      BY <3>1, <3>2
  <2>2. QED
    BY <2>1
<1> HIDE DEF n
<1>9. kv' \in Seq(Token) /\ Len(kv') = n /\ \A i \in 1..n : kv'[i] = Whole[i]
  <2>1. kv' = SubSeq(kv, 1, n)
    BY <1>1, <1>7 DEF TrimRejected
  <2>2. QED
    BY <1>7, <1>8, <2>1, Known, CutTo
<1>10. /\ specPrompt' \in Seq(Token) /\ Len(specPrompt') = n
       /\ \A i \in promptLength + 1 .. n : specPrompt'[i] = Whole[i]
  <2> DEFINE f == Front(acc)
             s == specPrompt \o <<last>>
  <2>1. /\ f \in Seq(Token) /\ Len(f) = A
        /\ \A i \in 1..A : f[i] = Whole[nPast + i + 1]
    <3>1. f = SubSeq(acc, 1, A) /\ A \in 0 .. Len(acc)
      BY <1>3, <1>4, <1>6 DEF Front
    <3>2. QED
      BY <1>3, <1>4, <1>6, <3>1, CutTo
  <2>2. <<last>> \in Seq(Token) /\ Len(<<last>>) = 1 /\ <<last>>[1] = last
    BY Known, <1>2 DEF Token
  <2>3. /\ s \in Seq(Token) /\ Len(s) = nPast + 1
        /\ \A i \in 1..nPast : s[i] = specPrompt[i]
        /\ \A i \in 1..1 : s[nPast + i] = <<last>>[i]
    <3>1. /\ s \in Seq(Token) /\ Len(s) = Len(specPrompt) + Len(<<last>>)
          /\ \A i \in 1..Len(specPrompt) : s[i] = specPrompt[i]
          /\ \A i \in 1..Len(<<last>>) : s[Len(specPrompt) + i] = <<last>>[i]
      BY <2>2, Known, ConcatParts
    <3> HIDE DEF s
    <3>2. QED
      BY <1>2, <2>2, <3>1
  <2> HIDE DEF s, f
  <2>4. /\ s \o f \in Seq(Token) /\ Len(s \o f) = Len(s) + Len(f)
        /\ \A i \in 1..Len(s) : (s \o f)[i] = s[i]
        /\ \A i \in 1..Len(f) : (s \o f)[Len(s) + i] = f[i]
    BY <2>1, <2>3, ConcatParts
  <2>5. specPrompt' = s \o f
    BY <1>1 DEF Mirrored, s, f
  <2>6. Len(specPrompt') = n /\ specPrompt' \in Seq(Token)
    BY <1>3, <1>4, <2>1, <2>3, <2>4, <2>5 DEF n
  <2>7. ASSUME NEW i \in promptLength + 1 .. n PROVE specPrompt'[i] = Whole[i]
    <3>1. CASE i <= nPast
      <4>1. i \in promptLength + 1 .. nPast /\ i \in 1..nPast /\ i \in 1..Len(s)
        BY <1>4, <2>3, <3>1, Known
      <4>2. QED
        BY <1>2, <2>3, <2>4, <2>5, <4>1 DEF Follows
    <3>2. CASE i = nPast + 1
      <4>1. i \in 1..Len(s) /\ 1 \in 1..1
        BY <1>4, <2>3, <3>2
      <4>2. s[i] = last
        BY <2>2, <2>3, <3>2, <4>1
      <4>3. QED
        BY <1>2, <2>4, <2>5, <3>2, <4>1, <4>2
    <3>3. CASE i > nPast + 1
      <4>1. PICK j \in 1..A : i = (nPast + 1) + j
        <5>1. i - (nPast + 1) \in 1..A /\ i = (nPast + 1) + (i - (nPast + 1))
          BY <1>3, <1>4, <3>3 DEF n
        <5>2. QED
          BY <5>1
      <4>2. (s \o f)[(nPast + 1) + j] = f[j]
        BY <2>1, <2>3, <2>4
      <4>3. nPast + j + 1 = i
        BY <1>3, <1>4, <4>1
      <4>4. QED
        BY <2>1, <2>5, <4>1, <4>2, <4>3
    <3>4. QED
      BY <1>4, <3>1, <3>2, <3>3
  <2>8. QED
    BY <2>6, <2>7
<1>11. Aligned'
  <2>1. Len(dkv') >= n /\ \A i \in promptLength + 1 .. n : dkv'[i] = Whole[i]
    <3>1. \A i \in promptLength + 1 .. n : i \in 1..n /\ i \in promptLength + 1 .. Len(kv)
      BY <1>2, <1>4, <1>7, Known
    <3>2. QED
      BY <1>1, <1>2, <1>4, <1>7, <1>8, <3>1 DEF SameBehindPrompt
  <2>2. QED
    BY <1>1, <1>4, <1>7, <1>9, <1>10, <2>1 DEF Aligned, Matches, Follows, DraftIsShort
<1>12. TypeParts'
  <2>1. nPast' \in 0..NCtx
    BY <1>4, <1>7
  <2>2. QED
    BY <1>1, <1>6, <1>9, <1>10, <2>1 DEF SpecInv, TypeParts
<1>13. Accepting'
  <2>1. Len(accepted') = A + 1 /\ A + 1 >= 1
    BY <1>1, <1>3, <1>4, <1>6
  <2>2. ASSUME NEW i \in 1 .. A + 1 PROVE accepted'[i] = Whole[n + 1 - (A + 1) + i]
    <3>1. n + 1 - (A + 1) + i = nPast + i + 1
      BY <1>3, <1>4 DEF n
    <3>2. QED
      BY <1>1, <1>6, <3>1
  <2>3. QED
    BY <1>4, <1>7, <2>1, <2>2 DEF Accepting
<1>14. ~BudgetSpent(Len(out))' /\ (Len(out) = Shown)'
  <2>1. Len(accepted') = A + 1
    BY <1>1, <1>6
  <2>2. Shown' = n + 1 - promptLength - (A + 1)
    BY <1>1, <1>7, <2>1 DEF Shown
  <2>3. n + 1 - promptLength - (A + 1) = nPast + 1 - promptLength
    BY <1>3, <1>4, Known DEF n
  <2>4. QED
    BY <1>1, <1>2, <2>2, <2>3 DEF BudgetSpent
<1>15. promptLength' <= nPast' /\ promptLength' + Len(out') <= NCtx + 1
  <2>1. promptLength <= n
    BY <1>3, <1>4, Known DEF n
  <2>2. QED
    BY <1>1, <1>7, <2>1 DEF SpecInv
<1>16. QED
  BY <1>1, <1>2, <1>11, <1>12, <1>13, <1>14, <1>15 DEF SpecInv

(* What the emit loop looks at is the next token of the text.              *)
LEMMA NextAccepted ==
  ASSUME SpecInv, at = "emit"
  PROVE  /\ Len(accepted) \in Nat \ {0} /\ Head(accepted) = accepted[1]
         /\ Head(accepted) = Whole[promptLength + Len(out) + 1]
         /\ Len(out) = nPast + 1 - promptLength - Len(accepted)
<1>1. /\ Len(accepted) >= 1 /\ Len(out) = nPast + 1 - promptLength - Len(accepted)
      /\ \A i \in 1..Len(accepted) : accepted[i] = Whole[nPast + 1 - Len(accepted) + i]
  BY DEF SpecInv, Accepting, Shown
<1>2. Len(accepted) \in Nat /\ Head(accepted) = accepted[1]
  BY <1>1, Known
<1>3. 1 \in 1..Len(accepted) /\ nPast + 1 - Len(accepted) + 1 = promptLength + Len(out) + 1
  BY <1>1, <1>2, Known
<1>4. QED
  BY <1>1, <1>2, <1>3

LEMMA InvEmitAccepted == SpecInv /\ EmitAccepted => SpecInv'
<1> SUFFICES ASSUME SpecInv, EmitAccepted PROVE SpecInv'
  OBVIOUS
<1>1. /\ at = "emit"
      /\ UNCHANGED <<kv, dkv, specPrompt, nPast, draft,
                     budget, promptLength, text, cancel>>
  BY DEF EmitAccepted, Unmoved, job, caches
<1>2. \/ /\ Len(accepted) = 1 /\ last' = Head(accepted) /\ at' = "head"
         /\ UNCHANGED <<out, accepted, why>>
      \/ /\ at' = "done" /\ why' = "eog" /\ UNCHANGED <<last, out, accepted>>
      \/ /\ Len(accepted) # 1 /\ out' = Append(out, Head(accepted))
         /\ accepted' = Tail(accepted) /\ last' = last
         /\ \/ at' = "done" /\ why' = "budget"
            \/ ~BudgetSpent(Len(out) + 1) /\ at' = at /\ why' = why
  BY DEF EmitAccepted, Ends
<1>3. /\ Aligned /\ ~BudgetSpent(Len(out)) /\ why = "none" /\ Len(kv) = nPast
      /\ promptLength + Len(out) <= NCtx + 1 /\ Accepting
  BY <1>1 DEF SpecInv, Aligned
<1>4. /\ Len(accepted) \in Nat \ {0} /\ Head(accepted) = accepted[1]
      /\ Head(accepted) = Whole[promptLength + Len(out) + 1]
      /\ Len(out) = nPast + 1 - promptLength - Len(accepted)
  BY <1>1, NextAccepted
<1>5. Head(accepted) \in Vocab /\ Head(accepted) \in Token
  <2>1. promptLength + Len(out) + 1 \in promptLength + 1 .. NCtx + 2
    BY <1>3, Known
  <2>2. QED
    BY <1>4, <2>1, Known, WholeIs DEF Token
<1>6. Aligned' /\ Whole' = Whole
  <2>1. Whole' = Whole
    BY <1>1 DEF Whole, Prompt
  <2>2. at' # "verify"
    BY <1>1, <1>2
  <2>3. QED
    BY <1>1, <1>3, <2>1, <2>2 DEF Aligned, Matches, Follows, DraftIsShort
<1>7. CASE /\ Len(accepted) = 1 /\ last' = Head(accepted) /\ at' = "head"
           /\ UNCHANGED <<out, accepted, why>>
  <2>1. TypeParts'
    BY <1>1, <1>5, <1>7 DEF SpecInv, TypeParts
  <2>2. last' = Whole'[nPast' + 1]
    <3>1. promptLength + Len(out) + 1 = nPast + 1
      BY <1>4, <1>7, Known
    <3>2. QED
      BY <1>1, <1>4, <1>6, <1>7, <3>1
  <2>3. ~BudgetSpent(Len(out))' /\ (Len(out) = Shown)'
    <3>1. Len(out) = nPast - promptLength
      BY <1>4, <1>7, Known
    <3>2. QED
      BY <1>1, <1>3, <1>7, <3>1 DEF BudgetSpent, Shown
  <2>4. promptLength' <= nPast' /\ promptLength' + Len(out') <= NCtx + 1
    BY <1>1, <1>3, <1>7, Known
  <2>5. QED
    BY <1>3, <1>6, <1>7, <2>1, <2>2, <2>3, <2>4 DEF SpecInv
<1>8. CASE at' = "done" /\ why' = "eog" /\ UNCHANGED <<last, out, accepted>>
  BY <1>1, <1>3, <1>8, Known, InvEnds DEF Unmoved, job
<1>9. CASE /\ Len(accepted) # 1 /\ out' = Append(out, Head(accepted))
           /\ accepted' = Tail(accepted) /\ last' = last
           /\ \/ at' = "done" /\ why' = "budget"
              \/ ~BudgetSpent(Len(out) + 1) /\ at' = at /\ why' = why
  <2>1. out' \in Seq(Token) /\ Len(out') = Len(out) + 1
    BY <1>5, <1>9, Known, AppendProperties
  <2>2. /\ accepted' \in Seq(Token) /\ Len(accepted') = Len(accepted) - 1
        /\ \A i \in 1 .. Len(accepted) - 1 : accepted'[i] = accepted[i + 1]
    <3>1. accepted # <<>>
      BY <1>4, EmptySeq
    <3>2. QED
      BY <1>9, <3>1, Known, HeadTailProperties
  <2>3. promptLength' + Len(out') <= NCtx + 1 /\ promptLength' <= nPast'
    BY <1>1, <1>4, <2>1, Known
  <2>4. CASE at' = "done" /\ why' = "budget"
    BY <1>1, <1>9, <2>1, <2>2, <2>3, <2>4, Known, InvEnds DEF Unmoved, job
  <2>5. CASE ~BudgetSpent(Len(out) + 1) /\ at' = at /\ why' = why
    <3>1. TypeParts'
      BY <1>1, <1>9, <2>1, <2>2, <2>5 DEF SpecInv, TypeParts
    <3>2. Accepting'
      <4>1. Len(accepted) - 1 \in Nat /\ Len(accepted) - 1 >= 1
        <5>1. PICK n \in Nat \ {0} : n = Len(accepted)
          BY <1>4
        <5>2. n # 1
          BY <1>9, <5>1
        <5>3. n - 1 \in Nat /\ n - 1 >= 1
          BY <5>2
        <5>4. QED
          BY <5>1, <5>3
      <4>2. ASSUME NEW i \in 1 .. Len(accepted) - 1
            PROVE  accepted'[i] = Whole[nPast + 1 - (Len(accepted) - 1) + i]
        <5>1. /\ i + 1 \in 1..Len(accepted)
              /\ nPast + 1 - Len(accepted) + (i + 1) = nPast + 1 - (Len(accepted) - 1) + i
          BY <1>4, Known
        <5>2. accepted[i + 1] = Whole[nPast + 1 - Len(accepted) + (i + 1)]
          BY <1>3, <5>1 DEF Accepting
        <5>3. QED
          BY <2>2, <5>1, <5>2
      <4>3. QED
        BY <1>1, <1>6, <2>2, <4>1, <4>2 DEF Accepting
    <3>3. ~BudgetSpent(Len(out))' /\ (Len(out) = Shown)'
      <4>1. Len(out) + 1 = nPast + 1 - promptLength - (Len(accepted) - 1)
        BY <1>4, Known
      <4>2. QED
        BY <1>1, <2>1, <2>2, <2>5, <4>1 DEF BudgetSpent, Shown
    <3>4. QED
      BY <1>1, <1>3, <1>6, <2>3, <2>5, <3>1, <3>2, <3>3 DEF SpecInv
  <2>6. QED
    BY <1>9, <2>4, <2>5
<1>10. QED
  BY <1>2, <1>7, <1>8, <1>9

(* Whatever the prompt of the next generation finds in the draft context,  *)
(* it leaves a cache behind.                                               *)
LEMMA FedIs ==
  ASSUME dkv \in Seq(Token), NEW k \in Nat, NEW n \in Nat
  PROVE  Fed(k, n) \in Seq(Token) /\ Kept(k) \in Seq(Token)
<1>1. Len(dkv) \in Nat
  OBVIOUS
<1>2. Kept(k) \in Seq(Token)
  BY <1>1 DEF Kept, Token
<1> DEFINE rest == [i \in 1 .. n - Len(dkv) |-> "p"]
<1>3. rest \in Seq(Token)
  <2>1. CASE n - Len(dkv) \in Nat
    BY <2>1 DEF Token
  <2>2. CASE ~(n - Len(dkv) \in Nat)
    <3>1. 1 .. n - Len(dkv) = {} /\ Len(dkv) >= n
      BY <1>1, <2>2
    <3>2. rest = <<>>
      BY <3>1
    <3> HIDE DEF rest
    <3>3. rest \in Seq(Token)
      BY <3>2, EmptySeq
    <3>4. QED
      BY <3>3
  <2>3. QED
    BY <2>1, <2>2
<1> HIDE DEF rest
<1>4. Fed(k, n) \in Seq(Token)
  BY <1>2, <1>3, ConcatParts DEF Fed, rest
<1>5. QED
  BY <1>2, <1>4

LEMMA InvBegin ==
  ASSUME SpecInv, NEW k \in Nat, NEW n \in PromptLengths, Begin(k, n)
  PROVE  SpecInv'
<1>1. /\ budget' \in Budgets /\ promptLength' = n /\ text' \in Texts(n)
      /\ kv' = Prompt' /\ dkv' \in {Fed(k, n), Kept(k)} /\ nPast' = n
      /\ specPrompt' = [i \in 1..n |-> IF i <= k THEN "junk" ELSE "p"]
      /\ last' = text'[1] /\ out' = <<>> /\ draft' = <<>> /\ accepted' = <<>>
      /\ at' = "head" /\ why' = "none" /\ cancel' \in {FALSE, cancel}
  BY DEF Begin
<1>2. n \in 1..NCtx /\ NCtx \in Nat /\ budget' \in Nat
  BY <1>1, SpeculativeAssumption
<1> DEFINE prompt == Ps(n)
<1>3. kv' = prompt /\ Whole' = prompt \o text'
  BY <1>1 DEF Prompt, Whole, Ps
<1>4. /\ prompt \in Seq(Token) /\ Len(prompt) = n
      /\ \A i \in 1..n : (prompt \o text')[i] = prompt[i]
      /\ \A i \in n + 1 .. NCtx + 2 :
           (prompt \o text')[i] = text'[i - n] /\ (prompt \o text')[i] \in Vocab
  <2>1. PICK t \in Texts(n) : t = text'
    BY <1>1
  <2>2. QED
    BY <2>1, WholeOf, Zenon
<1> HIDE DEF prompt
<1>5. dkv' \in Seq(Token)
  <2>1. n \in Nat /\ dkv \in Seq(Token)
    BY <1>2, Known
  <2>2. Fed(k, n) \in Seq(Token) /\ Kept(k) \in Seq(Token)
    BY <2>1, FedIs
  <2>3. dkv' \in {Fed(k, n), Kept(k)}
    BY <1>1
  <2>4. QED
    BY <2>2, <2>3
<1>6. specPrompt' \in Seq(Token) /\ Len(specPrompt') = n
  <2>1. specPrompt' \in [1..n -> Token] /\ n \in Nat
    BY <1>1, <1>2 DEF Token
  <2>2. QED
    BY <2>1
<1>7. last' = Whole'[nPast' + 1] /\ last' \in Vocab
  <2>1. PICK m \in n + 1 .. NCtx + 2 : m = n + 1 /\ m - n = 1
    BY <1>2
  <2>2. Whole'[m] = text'[m - n] /\ Whole'[m] \in Vocab
    BY <1>3, <1>4
  <2>3. last' = text'[1] /\ nPast' + 1 = m
    BY <1>1, <2>1
  <2>4. QED
    BY <2>1, <2>2, <2>3
<1>8. <<>> \in Seq(Token) /\ Len(<<>>) = 0
  BY EmptySeq
<1>9. TypeParts'
  <2>1. /\ out' \in Seq(Token) /\ draft' \in Seq(Token) /\ accepted' \in Seq(Token)
        /\ kv' \in Seq(Token)
    BY <1>1, <1>3, <1>4, <1>8, Zenon
  <2>2. nPast' \in 0..NCtx /\ promptLength' \in PromptLengths /\ text' \in Texts(promptLength')
    BY <1>1, <1>2
  <2>3. at' \in {"head"} /\ why' \in {"none"} /\ cancel' \in BOOLEAN
    BY <1>1 DEF SpecInv, TypeParts
  <2>4. QED
    BY <1>1, <1>5, <1>6, <1>7, <2>1, <2>2, <2>3 DEF TypeParts
<1>10. Aligned'
  <2>1. Matches(kv, nPast)' /\ Len(kv') = nPast'
    BY <1>1, <1>2, <1>3, <1>4 DEF Matches
  <2>2. \A i \in promptLength' + 1 .. nPast' : FALSE
    BY <1>1, <1>2
  <2>3. Follows(specPrompt, nPast)' /\ Len(specPrompt') = nPast'
    BY <1>1, <1>2, <1>6, <2>2 DEF Follows
  <2>4. (DraftIsShort \/ Follows(dkv, nPast))'
    <3>1. Len(dkv') \in Nat /\ nPast' = promptLength' /\ promptLength' \in Nat
      BY <1>1, <1>2, <1>5
    <3>2. Len(dkv') < promptLength' \/ nPast' <= Len(dkv')
      BY <3>1
    <3>3. QED
      BY <2>2, <3>2, Zenon DEF DraftIsShort, Follows
  <2>5. QED
    BY <1>1, <2>1, <2>3, <2>4 DEF Aligned
<1>11. /\ ~BudgetSpent(Len(out))' /\ (Len(out) = Shown)'
       /\ promptLength' <= nPast' /\ promptLength' + Len(out') <= NCtx + 1
  BY <1>1, <1>2, <1>8 DEF BudgetSpent, Shown
<1>12. QED
  BY <1>1, <1>7, <1>9, <1>10, <1>11 DEF SpecInv

LEMMA InvNextGeneration == SpecInv /\ NextGeneration => SpecInv'
<1> SUFFICES ASSUME SpecInv, NextGeneration PROVE SpecInv'
  OBVIOUS
<1>1. PICK k \in Cached : \/ \E n \in PromptLengths : Begin(k, n)
                          \/ \E n \in k..NCtx : BeginFails(k, n)
  BY DEF NextGeneration
<1>2. k \in Nat
  BY Known DEF Cached
<1>3. CASE \E n \in PromptLengths : Begin(k, n)
  BY <1>2, <1>3, InvBegin
<1>4. ASSUME NEW n \in k..NCtx, BeginFails(k, n) PROVE SpecInv'
  <2>1. PICK m \in 0..n : dkv' = Fed(k, m)
    BY <1>4 DEF BeginFails
  <2>2. /\ at = "done" /\ at' = at /\ kv' = [i \in 1..n |-> "p"] /\ out' = <<>>
        /\ why' = "backend" /\ cancel' \in {FALSE, cancel}
        /\ UNCHANGED <<budget, promptLength, text, specPrompt, nPast, last, draft, accepted>>
    BY <1>4 DEF BeginFails, job
  <2>3. n \in Nat /\ m \in Nat
    BY <1>2, Known
  <2>4. kv' \in Seq(Token) /\ dkv' \in Seq(Token)
    <3>1. kv' \in [1..n -> Token]
      BY <2>2 DEF Token
    <3>2. kv' \in Seq(Token)
      BY <2>3, <3>1
    <3>3. dkv' \in Seq(Token)
      BY <1>2, <2>1, <2>3, Known, FedIs
    <3>4. QED
      BY <3>2, <3>3
  <2>5. out' \in Seq(Token) /\ Len(out') = 0
    BY <2>2, EmptySeq
  <2>6. TypeParts'
    BY <2>2, <2>4, <2>5 DEF SpecInv, TypeParts
  <2>7. promptLength' <= nPast' /\ promptLength' + Len(out') <= NCtx + 1
    BY <2>2, <2>5, Known
  <2>8. QED
    BY <2>2, <2>6, <2>7 DEF SpecInv
<1>5. QED
  BY <1>1, <1>3, <1>4

LEMMA SpecInvStep == SpecInv /\ [Next]_vars => SpecInv'
<1>1. ASSUME SpecInv,
             UNCHANGED <<kv, dkv, specPrompt, nPast, last, draft, accepted, out, at, why,
                         budget, promptLength, text>>,
             cancel' \in BOOLEAN
      PROVE  SpecInv'
  <2>1. TypeParts'
    BY <1>1 DEF SpecInv, TypeParts
  <2>2. Whole' = Whole /\ (BudgetSpent(Len(out))' <=> BudgetSpent(Len(out))) /\ Shown' = Shown
    BY <1>1 DEF Whole, Prompt, BudgetSpent, Shown
  <2>3. /\ Aligned' <=> Aligned
        /\ Guessing' <=> Guessing
        /\ Accepting' <=> Accepting
    BY <1>1, <2>2 DEF Aligned, Matches, Follows, DraftIsShort, Guessing, Accepting, SameBehindPrompt
  <2>4. QED
    BY <1>1, <2>1, <2>2, <2>3 DEF SpecInv
<1>2. SpecInv /\ (Cancel \/ UNCHANGED vars) => SpecInv'
  <2>1. SpecInv => cancel \in BOOLEAN
    BY DEF SpecInv, TypeParts
  <2>2. Cancel \/ UNCHANGED vars =>
          /\ UNCHANGED <<kv, dkv, specPrompt, nPast, last, draft, accepted, out, at, why,
                         budget, promptLength, text>>
          /\ cancel' = TRUE \/ cancel' = cancel
    BY DEF Cancel, vars, job, caches
  <2>3. QED
    BY <1>1, <2>1, <2>2
<1>3. QED
  BY <1>2, InvShowFirst, InvStop, InvGuess, InvDecode, InvFails, InvVerify, InvEmitAccepted,
     InvNextGeneration
  DEF Next, Step

LEMMA SpecInvHolds == Spec => []SpecInv
BY SpecInvInit, SpecInvStep, PTL DEF Spec

(* For every context, draft length, prompts, budgets and texts, in every   *)
(* generation after the first too, and whatever is guessed, rejected or    *)
(* cancelled: the target's cache holds tokens the target wrote and no      *)
(* rejected guess, what has been added behind the prompt is the same in    *)
(* the draft's cache and in spec_prompt, and no batch leaves the context.  *)
THEOREM CachesAlwaysAgree == Spec => []CachesAgree
<1>1. SpecInv => CachesAgree
  <2> SUFFICES ASSUME SpecInv PROVE CachesAgree
    OBVIOUS
  <2>1. TypeOK
    BY DEF SpecInv, TypeParts, TypeOK
  <2>2. CacheIsVerified
    <3>1. ASSUME at \in {"head", "draft", "emit"} PROVE IsPrefix(kv, Whole) /\ Len(kv) = nPast
      <4>1. Matches(kv, nPast) /\ Len(kv) = nPast
        BY <3>1 DEF SpecInv, Aligned
      <4>2. nPast \in 0 .. NCtx + 1
        BY Known
      <4>3. QED
        BY <4>1, <4>2, Known, MatchesArePrefixes
    <3>2. QED
      BY <3>1 DEF CacheIsVerified
  <2>3. PromptMirrorsCache
    <3>1. ASSUME at \in {"head", "draft", "decode", "emit"}
          PROVE  SameBehindPrompt(specPrompt, kv)
      <4>1. /\ Len(kv) = nPast /\ Len(specPrompt) = nPast
            /\ Matches(kv, nPast) /\ Follows(specPrompt, nPast)
        BY <3>1 DEF SpecInv, Aligned
      <4>2. QED
        BY <4>1, Known, FollowersAgree
    <3>2. QED
      BY <3>1 DEF PromptMirrorsCache
  <2>4. DraftIsAligned
    <3>1. ASSUME at = "decode", ~DraftIsShort PROVE SameBehindPrompt(dkv, kv)
      <4>1. /\ Len(kv) = nPast /\ Len(dkv) = nPast
            /\ Matches(kv, nPast) /\ Follows(dkv, nPast)
        BY <3>1 DEF SpecInv, Aligned, Guessing
      <4>2. QED
        BY <4>1, Known, FollowersAgree
    <3>2. QED
      BY <3>1 DEF DraftIsAligned
  <2>5. StaysInContext
    <3>1. ASSUME at = "decode" PROVE nPast + Len(Batch) <= NCtx
      BY <3>1, BatchFits DEF Fits
    <3>2. QED
      BY <3>1 DEF StaysInContext, SpecInv
  <2>6. QED
    BY <2>1, <2>2, <2>3, <2>4, <2>5 DEF CachesAgree
<1>2. QED
  BY <1>1, SpecInvHolds, PTL
-----------------------------------------------------------------------------
(* Drafting implements plain decoding, step by step: a token shown is the  *)
(* next one of the text, and every end has the reason it gives.            *)
LEMMA ShownIsPlain ==
  ASSUME SpecInv, at # "done",
         text[Len(out) + 1] # "eog", out' = Append(out, text[Len(out) + 1]),
         UNCHANGED <<budget, promptLength, text>>,
         \/ why' = why
         \/ why' = "budget" /\ BudgetSpent(Len(out) + 1)
         \/ why' = "full" /\ Len(out) + 1 >= NCtx - promptLength
  PROVE  Plain!Show
<1>1. why = "none" /\ ~BudgetSpent(Len(out))
  BY DEF SpecInv
<1>2. ~Plain!BudgetSpent
  BY <1>1 DEF Plain!BudgetSpent, BudgetSpent
<1>3. Len(out') = Len(out) + 1
  BY Known
<1>4. why' \in {"none"} \cup {reason \in Plain!Reason : Plain!Explains(reason, out')}
  <2>1. CASE why' = why
    BY <1>1, <2>1
  <2>2. CASE why' = "budget" /\ BudgetSpent(Len(out) + 1)
    <3>1. Plain!Explains("budget", out')
      BY <1>3, <2>2 DEF Plain!Explains, BudgetSpent
    <3>2. QED
      BY <2>2, <3>1 DEF Plain!Reason
  <2>3. CASE why' = "full" /\ Len(out) + 1 >= NCtx - promptLength
    <3>1. Plain!Explains("full", out')
      BY <1>3, <2>3 DEF Plain!Explains
    <3>2. QED
      BY <2>3, <3>1 DEF Plain!Reason
  <2>4. QED
    BY <2>1, <2>2, <2>3
<1>5. QED
  BY <1>1, <1>2, <1>4 DEF Plain!Show

LEMMA EndIsPlain ==
  ASSUME SpecInv, at # "done", UNCHANGED <<budget, promptLength, text, out>>,
         \/ why' \in {"cancelled", "backend"}
         \/ why' = "eog" /\ text[Len(out) + 1] = "eog"
  PROVE  Plain!End
<1>1. why = "none"
  BY DEF SpecInv
<1>2. Plain!Explains(why', out) /\ why' \in Plain!Reason
  BY DEF Plain!Explains, Plain!Reason
<1>3. QED
  BY <1>1, <1>2 DEF Plain!End

LEMMA PlainStep == SpecInv /\ [Next]_vars => [Plain!Next]_(Plain!vars)
<1> SUFFICES ASSUME SpecInv, [Next]_vars PROVE [Plain!Next]_(Plain!vars)
  OBVIOUS
<1>1. CASE ShowFirst
  <2>1. /\ at = "head" /\ last # "eog" /\ out' = Append(out, last)
        /\ UNCHANGED <<budget, promptLength, text>>
        /\ \/ BudgetSpent(Len(out) + 1) /\ why' = "budget"
           \/ nPast + 1 >= NCtx /\ why' = "full"
           \/ why' = why
    BY <1>1 DEF ShowFirst, Ends, Unmoved, job
  <2>2. Len(out) = nPast - promptLength /\ last = Whole[nPast + 1]
    BY <2>1 DEF SpecInv, Shown
  <2>3. last = text[Len(out) + 1]
    <3>1. nPast + 1 - promptLength = Len(out) + 1
      BY <2>2, Known
    <3>2. QED
      BY <2>2, <3>1, Known
  <2>4. nPast + 1 >= NCtx => Len(out) + 1 >= NCtx - promptLength
    BY <2>2, Known
  <2>5. QED
    BY <2>1, <2>3, <2>4, ShownIsPlain DEF Plain!Next
<1>2. CASE Stop
  <2>1. /\ at = "head" /\ UNCHANGED <<budget, promptLength, text, out>>
        /\ why' = "cancelled" \/ (why' = "eog" /\ last = "eog")
    BY <1>2 DEF Stop, Ends, Unmoved, job
  <2>2. Len(out) = nPast - promptLength /\ last = Whole[nPast + 1]
    BY <2>1 DEF SpecInv, Shown
  <2>3. last = text[Len(out) + 1]
    <3>1. nPast + 1 - promptLength = Len(out) + 1
      BY <2>2, Known
    <3>2. QED
      BY <2>2, <3>1, Known
  <2>4. QED
    BY <2>1, <2>3, EndIsPlain DEF Plain!Next
<1>3. CASE DecodeFails \/ SpeculationFails
  <2>1. at = "decode" /\ UNCHANGED <<budget, promptLength, text, out>> /\ why' = "backend"
    BY <1>3 DEF DecodeFails, SpeculationFails, Ends, Unmoved, job
  <2>2. QED
    BY <2>1, EndIsPlain DEF Plain!Next
<1>4. CASE EmitAccepted
  <2>1. /\ at = "emit" /\ UNCHANGED <<budget, promptLength, text>>
        /\ \/ UNCHANGED <<out, why>>
           \/ Head(accepted) = "eog" /\ why' = "eog" /\ out' = out
           \/ /\ Head(accepted) # "eog" /\ out' = Append(out, Head(accepted))
              /\ why' = why \/ (why' = "budget" /\ BudgetSpent(Len(out) + 1))
    BY <1>4 DEF EmitAccepted, NotYetEnd, Ends, Unmoved, job
  <2>2. Head(accepted) = Whole[promptLength + Len(out) + 1]
    BY <2>1, NextAccepted
  <2>3. Head(accepted) = text[Len(out) + 1]
    <3>1. promptLength + Len(out) + 1 \in promptLength + 1 .. NCtx + 2
      BY Known DEF SpecInv
    <3>2. PICK i \in promptLength + 1 .. NCtx + 2 : i = promptLength + Len(out) + 1
      BY <3>1
    <3>3. Whole[i] = text[i - promptLength]
      BY Known, WholeIs
    <3>4. i - promptLength = Len(out) + 1
      BY <3>2, Known
    <3>5. QED
      BY <2>2, <3>2, <3>3, <3>4
  <2>4. CASE UNCHANGED <<out, why>>
    BY <2>1, <2>4 DEF Plain!vars
  <2>5. CASE Head(accepted) = "eog" /\ why' = "eog" /\ out' = out
    BY <2>1, <2>3, <2>5, EndIsPlain DEF Plain!Next
  <2>6. CASE /\ Head(accepted) # "eog" /\ out' = Append(out, Head(accepted))
             /\ why' = why \/ (why' = "budget" /\ BudgetSpent(Len(out) + 1))
    BY <2>1, <2>3, <2>6, ShownIsPlain DEF Plain!Next
  <2>7. QED
    BY <2>1, <2>4, <2>5, <2>6
<1>5. CASE Guess \/ Decode \/ Verify \/ Cancel \/ UNCHANGED vars
  BY <1>5 DEF Guess, Decode, Verify, Cancel, Unmoved, job, vars, Plain!vars
<1>6. CASE NextGeneration
  <2>1. at = "done" /\ out' = <<>> /\ why' \in {"none", "backend"}
    BY <1>6 DEF NextGeneration, Begin, BeginFails
  <2>2. why # "none"
    BY <2>1 DEF SpecInv
  <2>3. QED
    BY <2>1, <2>2 DEF Plain!Next, Plain!Begin
<1>7. QED
  BY <1>1, <1>2, <1>3, <1>4, <1>5, <1>6 DEF Next, Step

(* What a generation with a draft model shows is what the target alone     *)
(* would have shown, token for token, and it ends for the same reasons.    *)
THEOREM DraftingShowsPlainDecoding == Spec => ShowsWhatPlainDecodingShows
<1>1. Init => Plain!Init
  BY DEF Init, Plain!Init
<1>2. QED
  BY <1>1, SpecInvHolds, PlainStep, PTL DEF Spec, ShowsWhatPlainDecodingShows, Plain!Spec
=============================================================================
