---------------------------- MODULE MCServerGate ----------------------------
(***************************************************************************)
(* Instances of ServerGate for TLC.                                        *)
(***************************************************************************)
EXTENDS ServerGate

CONSTANTS r1, r2, r3, m1, m2

ThreeRequests == {r1, r2, r3}
TwoModels == {m1, m2}
TwoPresets == {"auto", "precise"}

(* A plain stream, a stream that sets everything and wants no ticks, and   *)
(* their unstreamed likes.                                                 *)
Asked(stream, own) ==
  [stream |-> stream, tools |-> own, sampling |-> own, effort |-> own, ticks |-> ~own]
FourAsks == {Asked(s, o) : s \in BOOLEAN, o \in BOOLEAN}
=============================================================================
