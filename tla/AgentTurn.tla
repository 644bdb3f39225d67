------------------------------ MODULE AgentTurn ------------------------------
(***************************************************************************)
(* What a call into the engine promises its caller, without saying how a   *)
(* turn is generated, judged or retried: the call works in rounds, never   *)
(* more than MaxRounds of them; a round may end owing tool results, at     *)
(* most MaxCalls, and the next round does not begin before they are all    *)
(* given; and the call comes back.                                         *)
(***************************************************************************)
EXTENDS Naturals

CONSTANTS MaxRounds, MaxCalls

VARIABLES
  busy,    \* a call is running
  rounds,  \* rounds finished so far
  owed     \* tool results the round under way still has to give

vars == <<busy, rounds, owed>>

Init == busy = FALSE /\ rounds = 0 /\ owed = 0

Begin ==
  /\ ~busy
  /\ busy' = TRUE /\ rounds' = 0 /\ owed' = 0

(* The turn is discarded or its tools are served: the round is over.       *)
EndRound ==
  /\ busy /\ owed <= 1 /\ rounds < MaxRounds
  /\ rounds' = rounds + 1 /\ owed' = 0
  /\ UNCHANGED busy

OweResults ==
  /\ busy /\ owed = 0 /\ rounds < MaxRounds
  /\ owed' \in 1..MaxCalls
  /\ UNCHANGED <<busy, rounds>>

GiveResult ==
  /\ busy /\ owed > 1
  /\ owed' = owed - 1
  /\ UNCHANGED <<busy, rounds>>

Return ==
  /\ busy /\ owed = 0
  /\ busy' = FALSE
  /\ UNCHANGED <<rounds, owed>>

Work == EndRound \/ OweResults \/ GiveResult \/ Return
Next == Begin \/ Work

Safety == Init /\ [][Next]_vars

(* The promise that the call comes back is stated outright: no fairness of *)
(* the rounds alone would force Return.                                    *)
Returns == busy ~> ~busy
Spec == Safety /\ Returns
=============================================================================
