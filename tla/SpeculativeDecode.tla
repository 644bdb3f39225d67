------------------------- MODULE SpeculativeDecode --------------------------
(***************************************************************************)
(* Engine::Impl::generate_until_done_spec (src/engine.cpp): a draft model  *)
(* guesses a run of tokens, the target model decodes the last token and    *)
(* the guesses in one batch, and the guesses it agrees with are kept.      *)
(*                                                                         *)
(* The target's continuation of the prompt is the sequence text, chosen    *)
(* beforehand: sampled behind a cache that holds the prompt and a prefix   *)
(* of text, the sampler returns the next token of text; behind any other   *)
(* cache it returns "junk".  What the draft model guesses is arbitrary.    *)
(* A KV cache is the sequence of its tokens; decoding at a position that   *)
(* is not the next free one is an error (llama_process).                   *)
(*                                                                         *)
(* The engine is used for one generation after another.  Between two of    *)
(* them nothing clears the draft context: reset, clear_kv, clear_history   *)
(* and generate itself clear the target's alone.  A generation may         *)
(* therefore begin with a draft context that holds other tokens than the   *)
(* target's under the prompt, and only what it adds is kept in step.       *)
(***************************************************************************)
EXTENDS Naturals, Sequences, SequencesExt

CONSTANTS
  PromptLengths,  \* tokens of a prompt
  NCtx,           \* llama_n_ctx
  NDraftMax,      \* params.speculative.draft.n_max
  Budgets,        \* values of max_new_tokens (or n_predict), 0 means unlimited
  BackendMayFail  \* llama_process may return an error

ASSUME SpeculativeAssumption ==
  /\ {NCtx, NDraftMax} \subseteq Nat /\ Budgets \subseteq Nat
  /\ PromptLengths \subseteq 1..NCtx /\ BackendMayFail \in BOOLEAN

Vocab    == {"a", "eog"}
Texts(n) == [1 .. NCtx - n + 2 -> Vocab]
Least(m, n) == IF m < n THEN m ELSE n

VARIABLES
  budget,
  promptLength,    \* tokens of the prompt
  text,            \* what the target would write behind the prompt
  kv, dkv,         \* the caches of the target and of the draft context
  specPrompt,      \* spec_prompt
  nPast, last,     \* n_past, last_id
  draft, accepted, \* the guesses, and the accepted tokens not shown yet
  out,             \* the tokens given to on_token
  at, why,         \* where the loop is; how it ended
  cancel           \* cancel_requested

caches == <<kv, dkv, specPrompt, nPast>>
job    == <<budget, promptLength, text>>
vars   == <<job, caches, last, draft, accepted, out, at, why, cancel>>

Prompt == [i \in 1..promptLength |-> "p"]
Whole  == Prompt \o text
TokenBehind(cache) ==
  IF IsStrictPrefix(cache, Whole) THEN Whole[Len(cache) + 1] ELSE "junk"
Trimmed(cache, n) == SubSeq(cache, 1, Least(n, Len(cache)))
BudgetSpent(n)    == budget > 0 /\ n >= budget

(* The first generation: the prompt is in both caches and the first token  *)
(* is sampled.                                                             *)
Init ==
  /\ budget \in Budgets /\ promptLength \in PromptLengths /\ text \in Texts(promptLength)
  /\ kv = Prompt /\ dkv = Prompt /\ specPrompt = Prompt /\ nPast = promptLength
  /\ last = text[1] /\ out = <<>>
  /\ draft = <<>> /\ accepted = <<>> /\ at = "head" /\ why = "none"
  /\ cancel = FALSE
-----------------------------------------------------------------------------
Ends(reason) == at' = "done" /\ why' = reason
Unmoved      == UNCHANGED <<job, cancel>>

(* What the draft context holds when n tokens of a prompt have been fed    *)
(* behind the k the target has cached.  The tokens in the target's cache   *)
(* are the prompt, whatever is known of them; a position that holds other  *)
(* ones, or is decoded twice, is not the prompt's.                         *)
Kept(k) == [i \in 1..Len(dkv) |-> IF i <= k /\ dkv[i] = kv[i] THEN "p" ELSE "junk"]
Fed(k, n) == Kept(k) \o [i \in 1 .. n - Len(dkv) |-> "p"]

(* generate() again.  The target's cache is kept whole, or was cleared     *)
(* since; what lies behind it is fed to both.  The new prompt, which is    *)
(* what spec_prompt holds, is compared with the cache by its length only.  *)
(* A request_cancel may have been withdrawn in between.  A draft context   *)
(* that ends before the target's cache can be fed nothing.                 *)
Cached == {0, Len(kv)}
Begin(k, n) ==
  /\ at = "done" /\ k <= n /\ (k < n => k <= Len(dkv))
  /\ budget' \in Budgets /\ promptLength' = n /\ text' \in Texts(n)
  /\ kv' = Prompt' /\ nPast' = n
  /\ dkv' = IF k < n THEN Fed(k, n) ELSE Kept(k)
  /\ specPrompt' = [i \in 1..n |-> IF i <= k THEN "junk" ELSE "p"]
  /\ last' = text'[1] /\ out' = <<>> /\ draft' = <<>> /\ accepted' = <<>>
  /\ at' = "head" /\ why' = "none" /\ cancel' \in {FALSE, cancel}

(* The target or the draft context refuses a batch of the prompt: the      *)
(* draft's has to, or may, when it does not end where the target's does.   *)
BeginFails(k, n) ==
  /\ at = "done" /\ (BackendMayFail \/ Len(dkv) # k)
  /\ kv' = [i \in 1..n |-> "p"]
  /\ \E m \in 0..n : (k <= Len(dkv) \/ m <= Len(dkv)) /\ dkv' = Fed(k, m)
  /\ out' = <<>> /\ why' = "backend" /\ cancel' \in {FALSE, cancel}
  /\ UNCHANGED <<job, specPrompt, nPast, last, draft, accepted, at>>

NextGeneration ==
  \E k \in Cached : \/ \E n \in PromptLengths : Begin(k, n)
                    \/ \E n \in k..NCtx : BeginFails(k, n)

(* The top of the loop: the flag, the end of the generation, or last_id is *)
(* shown and the budget and the context are looked at.                     *)
ShowFirst ==
  /\ at = "head" /\ ~cancel /\ last # "eog"
  /\ out' = Append(out, last)
  /\ IF BudgetSpent(Len(out) + 1) THEN Ends("budget")
     ELSE IF nPast + 1 >= NCtx    THEN Ends("full")
     ELSE at' = "draft" /\ UNCHANGED why
  /\ UNCHANGED <<caches, last, draft, accepted>> /\ Unmoved
Stop ==
  /\ at = "head"
  /\ \/ cancel /\ Ends("cancelled")
     \/ ~cancel /\ last = "eog" /\ Ends("eog")
  /\ UNCHANGED <<caches, last, draft, accepted, out>> /\ Unmoved

(* The draft context is trimmed to n_past, drafts, and is trimmed again.   *)
DraftLength == Least(NDraftMax, NCtx - nPast - 1)
Guess ==
  /\ at = "draft" /\ at' = "decode"
  /\ \E n \in 0..DraftLength : draft' \in [1..n -> Vocab]
  /\ dkv' = Trimmed(dkv, nPast)
  /\ UNCHANGED <<kv, specPrompt, nPast, last, accepted, out, why>> /\ Unmoved

(* The batch is decoded on the target and fed to the draft context.        *)
Batch == <<last>> \o draft
Fits(cache) == Len(cache) = nPast /\ nPast + Len(Batch) <= NCtx
Decode ==
  /\ at = "decode" /\ Fits(kv) /\ Fits(dkv)
  /\ kv' = kv \o Batch /\ dkv' = dkv \o Batch /\ at' = "verify"
  /\ UNCHANGED <<specPrompt, nPast, last, draft, accepted, out, why>> /\ Unmoved
DecodeFails ==
  /\ at = "decode" /\ (BackendMayFail \/ ~Fits(kv))
  /\ \E n \in 0 .. Least(Len(Batch), NCtx - Len(kv)) : kv' = kv \o SubSeq(Batch, 1, n)
  /\ Ends("backend")
  /\ UNCHANGED <<dkv, specPrompt, nPast, last, draft, accepted, out>> /\ Unmoved
SpeculationFails ==
  /\ at = "decode" /\ Fits(kv) /\ (BackendMayFail \/ ~Fits(dkv))
  /\ kv' = kv \o Batch /\ Ends("backend")
  /\ UNCHANGED <<dkv, specPrompt, nPast, last, draft, accepted, out>> /\ Unmoved

(* sample_and_accept_n: the guesses the target agrees with, then the token *)
(* it writes behind them.                                                  *)
Sampled(i) == TokenBehind(SubSeq(kv, 1, nPast + i))
Agreed == {n \in 0..Len(draft) : \A i \in 1..n : draft[i] = Sampled(i)}
NumAccepted == CHOOSE n \in Agreed : \A m \in Agreed : m <= n
KeepRejected(n) == kv                                             \* mutant
TrimRejected(n) == SubSeq(kv, 1, nPast + n)
Mirrored(acc)   == specPrompt \o <<last>> \o Front(acc)
Verify ==
  /\ at = "verify" /\ at' = "emit"
  /\ LET acc == [i \in 1 .. NumAccepted + 1 |-> Sampled(i)]
     IN  /\ accepted' = acc
         /\ kv' = TrimRejected(Len(acc)) /\ nPast' = nPast + Len(acc)
         /\ specPrompt' = Mirrored(acc)
  /\ UNCHANGED <<dkv, last, draft, out, why>> /\ Unmoved

(* The accepted tokens but the last are shown, which becomes last_id.      *)
EmitAll(t)   == TRUE                                              \* mutant
NotYetEnd(t) == t # "eog"
EmitAccepted ==
  /\ at = "emit"
  /\ IF Len(accepted) = 1
     THEN /\ last' = Head(accepted) /\ at' = "head"
          /\ UNCHANGED <<out, accepted, why>>
     ELSE IF ~NotYetEnd(Head(accepted))
     THEN Ends("eog") /\ UNCHANGED <<last, out, accepted>>
     ELSE /\ out' = Append(out, Head(accepted))
          /\ accepted' = Tail(accepted) /\ UNCHANGED last
          /\ IF BudgetSpent(Len(out) + 1) THEN Ends("budget")
             ELSE UNCHANGED <<at, why>>
  /\ UNCHANGED <<caches, draft>> /\ Unmoved
-----------------------------------------------------------------------------
(* request_cancel, from another thread.                                    *)
Cancel ==
  /\ ~cancel /\ cancel' = TRUE
  /\ UNCHANGED <<job, caches, last, draft, accepted, out, at, why>>

Step == \/ ShowFirst \/ Stop \/ Guess \/ Decode \/ DecodeFails
        \/ SpeculationFails \/ Verify \/ EmitAccepted
Next == Step \/ Cancel \/ NextGeneration
Spec == Init /\ [][Next]_vars
-----------------------------------------------------------------------------
Token == Vocab \cup {"p", "junk"}
TypeOK ==
  /\ promptLength \in PromptLengths /\ text \in Texts(promptLength)
  /\ {kv, dkv, specPrompt, out, draft, accepted} \subseteq Seq(Token)
  /\ budget \in Budgets /\ nPast \in 0..NCtx
  /\ last \in Vocab
  /\ at \in {"head", "draft", "decode", "verify", "emit", "done"}
  /\ why \in {"none", "eog", "budget", "full", "cancelled", "backend"}
  /\ cancel \in BOOLEAN

(* Drafting changes how tokens are found, not which: what is shown is what *)
(* plain decoding shows, and the generation ends for the same reasons, one *)
(* generation after another.                                               *)
Plain == INSTANCE PlainDecode WITH Eog <- "eog", room <- NCtx - promptLength
ShowsWhatPlainDecodingShows == Plain!Spec

(* Between two batches the target's cache holds the prompt and tokens the  *)
(* target wrote: no rejected guess is left in it.                          *)
CacheIsVerified ==
  at \in {"head", "draft", "emit"} => IsPrefix(kv, Whole) /\ Len(kv) = nPast

(* Two caches agree on what this generation has added behind the prompt.   *)
SameBehindPrompt(c, d) ==
  Len(c) = Len(d) /\ \A i \in promptLength + 1 .. Len(d) : c[i] = d[i]

(* The pipeline's copy of the prompt follows the target's cache.           *)
PromptMirrorsCache ==
  at \in {"head", "draft", "decode", "emit"} => SameBehindPrompt(specPrompt, kv)

(* The draft context is decoded at the target's position, behind the       *)
(* tokens the target has added, whatever was guessed and rejected before   *)
(* and whatever an earlier generation left in it; unless it holds less     *)
(* than the prompt, and then the batch is refused.                         *)
DraftIsShort   == Len(dkv) < promptLength
DraftIsAligned == at = "decode" => DraftIsShort \/ SameBehindPrompt(dkv, kv)

(* The batch never runs over the end of the context, and a generation      *)
(* shows at most one token more than plain decoding has room for.          *)
StaysInContext ==
  /\ at = "decode" => nPast + Len(Batch) <= NCtx
  /\ promptLength + Len(out) <= NCtx + 1

(* Drafting leaves the two caches, the pipeline's prompt and the position  *)
(* in step, whatever is guessed, rejected or cancelled.                    *)
CachesAgree == /\ TypeOK /\ CacheIsVerified /\ PromptMirrorsCache /\ DraftIsAligned
               /\ StaysInContext
=============================================================================
