------------------------------- MODULE MCGpio -------------------------------
(* The TLC instance of Gpio. *)
EXTENDS Gpio

\* Two tasks that want different edges.
CONSTANTS a, b
TypeOfTask == [t \in Tasks |-> IF t = a THEN "EDGE_RISING" ELSE "EDGE_FALLING"]

\* One has the low pin to itself, both want the high one.
PinsOfTask == [t \in Tasks |-> IF t = a THEN {0, 1} ELSE {1}]

\* A second edge on the pin that is served first.
EdgesOnPin == [p \in Pins |-> IF p = 0 THEN 2 ELSE 1]

=============================================================================
