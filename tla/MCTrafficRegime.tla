--------------------------- MODULE MCTrafficRegime ---------------------------
(* Transfers on both sides of every limit of TrafficRegime.                *)
EXTENDS TrafficRegime

Shown(direction, lengths) ==
  {[direction |-> direction, length |-> n, plain |-> TRUE] : n \in lengths}

MCTransfers == Shown("out", {4, 6, 8, 12, 16, 20}) \cup Shown("in", {1, 2, 8, 9})
                 \cup {[direction |-> "out", length |-> 4, plain |-> FALSE]}
=============================================================================
