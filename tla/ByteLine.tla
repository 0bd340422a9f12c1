------------------------------ MODULE ByteLine ------------------------------
(***************************************************************************)
(* What a port promises to its receiver, whatever its owner does meanwhile *)
(* and however the interrupt handler comes in between: a byte that came is *)
(* received once, after all bytes that came before it, or it is dropped,   *)
(* and what was dropped is never received.                                 *)
(***************************************************************************)
EXTENDS Naturals

VARIABLES came,   \* how many bytes the line brought: they are 1 .. came
          onWay,  \* those neither received nor dropped yet
          got,    \* those received
          lost    \* those dropped

Init == came = 0 /\ onWay = {} /\ got = {} /\ lost = {}

Accept ==
  /\ came' = came + 1 /\ onWay' = onWay \cup {came + 1}
  /\ UNCHANGED <<got, lost>>

Overrun ==
  /\ came' = came + 1 /\ lost' = lost \cup {came + 1}
  /\ UNCHANGED <<onWay, got>>

Drop(bytes) ==
  /\ onWay' = onWay \ bytes /\ lost' = lost \cup bytes
  /\ UNCHANGED <<came, got>>

Deliver(byte) ==
  /\ \A other \in onWay \ {byte} : byte < other
  /\ onWay' = onWay \ {byte} /\ got' = got \cup {byte}
  /\ UNCHANGED <<came, lost>>

Next ==
  \/ Accept \/ Overrun
  \/ \E bytes \in SUBSET onWay : Drop(bytes)
  \/ \E byte \in onWay : Deliver(byte)

Spec == Init /\ [][Next]_<<came, onWay, got, lost>>

=============================================================================
