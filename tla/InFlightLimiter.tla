-------------------------- MODULE InFlightLimiter ---------------------------
(***************************************************************************)
(* POST /mcp of easyai-mcp-server (services/mcp_server.cpp): every request *)
(* has a thread of the HTTP pool, and a tools/call runs only with a slot   *)
(* of the limiter, an atomic counter that is raised first, compared after  *)
(* and lowered again if the slot was not there.                            *)
(***************************************************************************)
EXTENDS Naturals, FiniteSets

CONSTANTS
  Worker,  \* threads of the HTTP server
  Cap      \* max_, at least 1 (--max-concurrent-calls)

ASSUME LimiterAssumption == IsFiniteSet(Worker) /\ Cap \in Nat \ {0}

VARIABLES
  count,   \* InFlightLimiter::count_
  stage,   \* where each thread is in route_mcp
  call,    \* its request is a tools/call
  held,    \* InFlightGuard::held_, FALSE without a guard
  answer   \* the HTTP status it will send
limiterVars == <<count, stage, call, held, answer>>

LimiterInit ==
  /\ count = 0 /\ stage = [t \in Worker |-> "idle"]
  /\ call = [t \in Worker |-> FALSE] /\ held = [t \in Worker |-> FALSE]
  /\ answer = [t \in Worker |-> 200]

Moves(t, from, to) == stage[t] = from /\ stage' = [stage EXCEPT ![t] = to]

(* The method is looked at without parsing the rest; other methods than    *)
(* tools/call pass the limiter by.                                         *)
Arrive(t) ==
  /\ \/ Moves(t, "idle", "enter") /\ call' = [call EXCEPT ![t] = TRUE]
     \/ Moves(t, "idle", "dispatch") /\ call' = [call EXCEPT ![t] = FALSE]
  /\ UNCHANGED <<count, held, answer>>

(* InFlightLimiter::acquire: fetch_add, then the comparison with what it   *)
(* returned.                                                               *)
AtCap == count >= Cap
Acquire(t) ==
  /\ \/ AtCap /\ Moves(t, "enter", "rollback") /\ UNCHANGED held
     \/ ~AtCap /\ Moves(t, "enter", "dispatch") /\ held' = [held EXCEPT ![t] = TRUE]
  /\ count' = count + 1
  /\ UNCHANGED <<call, answer>>

RollBack(t) ==
  /\ Moves(t, "rollback", "answer") /\ count' = count - 1
  /\ answer' = [answer EXCEPT ![t] = 503]
  /\ UNCHANGED <<call, held>>

(* The dispatcher answers, throws, or returns nothing: to a call without   *)
(* an id, before any tool runs (mcp.cpp:404).                              *)
Dispatch(t) ==
  /\ Moves(t, "dispatch", "answer")
  /\ \E status \in {200, 204, 500} : answer' = [answer EXCEPT ![t] = status]
  /\ UNCHANGED <<count, call, held>>

(* The guard goes out of scope on every way out.                           *)
ReleasesAlways(t) == call[t]                                      \* mutant
Releases(t)       == held[t]
Return(t) ==
  /\ Moves(t, "answer", "idle")
  /\ count' = IF Releases(t) THEN count - 1 ELSE count
  /\ held' = [held EXCEPT ![t] = FALSE]
  /\ UNCHANGED <<call, answer>>

Step(t) == Arrive(t) \/ Acquire(t) \/ RollBack(t) \/ Dispatch(t) \/ Return(t)
LimiterNext == \E t \in Worker : Step(t)
LimiterSpec == LimiterInit /\ [][LimiterNext]_limiterVars
-----------------------------------------------------------------------------
LimiterTypeOK ==
  /\ count \in Nat
  /\ stage \in [Worker -> {"idle", "enter", "rollback", "dispatch", "answer"}]
  /\ call \in [Worker -> BOOLEAN] /\ held \in [Worker -> BOOLEAN]
  /\ answer \in [Worker -> {200, 204, 500, 503}]

Holders   == {t \in Worker : held[t]}
Refusing  == {t \in Worker : stage[t] = "rollback"}
ToolCalls == {t \in Worker : call[t] /\ stage[t] = "dispatch"}

(* However many calls come, are refused, throw or end at once, no more     *)
(* than Cap tools run, and no slot is lost or given back twice: the        *)
(* counter is the calls that hold one and those still taking back theirs.  *)
SlotsAreExact ==
  /\ LimiterTypeOK
  /\ Cardinality(ToolCalls) <= Cap
  /\ count = Cardinality(Holders) + Cardinality(Refusing)
=============================================================================
