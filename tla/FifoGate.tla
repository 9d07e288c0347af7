------------------------------ MODULE FifoGate ------------------------------
(***************************************************************************)
(* What the worker's one-at-a-time gate promises: callers are numbered in  *)
(* the order they came, at most one is inside, and the one let in is       *)
(* always the one that has waited longest.                                 *)
(***************************************************************************)
EXTENDS Naturals

VARIABLES arrived, waiting, inside

gateVars == <<arrived, waiting, inside>>

GateInit == arrived = 0 /\ waiting = {} /\ inside = {}

Arrive ==
  /\ arrived' = arrived + 1 /\ waiting' = waiting \cup {arrived'}
  /\ UNCHANGED inside

Enter(n) ==
  /\ inside = {} /\ n \in waiting /\ \A m \in waiting : n <= m
  /\ inside' = {n} /\ waiting' = waiting \ {n}
  /\ UNCHANGED arrived

Leave(n) ==
  /\ n \in inside /\ inside' = inside \ {n}
  /\ UNCHANGED <<arrived, waiting>>

(* The process that holds the gate ends, and its callers with it.          *)
Vanish == waiting' = {} /\ inside' = {} /\ UNCHANGED arrived

GateNext == Arrive \/ Vanish \/ \E n \in waiting \cup inside : Enter(n) \/ Leave(n)

GateSpec == GateInit /\ [][GateNext]_gateVars
=============================================================================
