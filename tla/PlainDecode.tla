---------------------------- MODULE PlainDecode ----------------------------
(***************************************************************************)
(* What a generation promises, however its tokens are found: it shows the  *)
(* model's own continuation of the prompt, token after token, up to the    *)
(* end-of-generation token, the budget or the end of the context, unless   *)
(* it is cancelled or the backend fails.  This is Engine::Impl::           *)
(* generate_until_done (src/engine.cpp) seen from outside.                 *)
(***************************************************************************)
EXTENDS Naturals, Sequences

CONSTANT Eog   \* the end-of-generation token

VARIABLES
  room,    \* the tokens the context has left behind the prompt
  budget,  \* max_new_tokens, 0 means unlimited
  text,    \* the continuation the model would write
  out,     \* the tokens shown
  why      \* how the generation ended, "none" while it runs

BudgetSpent == budget > 0 /\ Len(out) >= budget

Init == out = <<>> /\ why = "none"

Reason == {"eog", "budget", "full", "cancelled", "backend"}
Explains(reason, shown) ==
  CASE reason = "eog"    -> text[Len(shown) + 1] = Eog
    [] reason = "budget" -> budget > 0 /\ Len(shown) >= budget
    [] reason = "full"   -> Len(shown) >= room
    [] OTHER             -> TRUE

(* The next token, if it is not the end, and perhaps the last one.         *)
Show ==
  /\ why = "none" /\ ~BudgetSpent
  /\ text[Len(out) + 1] # Eog
  /\ out' = Append(out, text[Len(out) + 1])
  /\ why' \in {"none"} \cup {reason \in Reason : Explains(reason, out')}
  /\ UNCHANGED <<room, budget, text>>

End ==
  /\ why = "none"
  /\ why' \in {reason \in Reason : Explains(reason, out)}
  /\ UNCHANGED <<room, budget, text, out>>

(* Another generation, of any prompt, or one whose prompt is not taken.    *)
Begin ==
  /\ why # "none" /\ out' = <<>> /\ why' \in {"none", "backend"}

Next == Show \/ End \/ Begin
vars == <<room, budget, text, out, why>>
Spec == Init /\ [][Next]_vars
=============================================================================
