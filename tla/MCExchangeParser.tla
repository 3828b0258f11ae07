-------------------------- MODULE MCExchangeParser --------------------------
(* Frames for ExchangeParser: those of the burst, a valid one that is none *)
(* of its, one out of alignment, one too long, one on another endpoint.    *)
EXTENDS ExchangeParser

MCTransfers ==
  {phase_a_shape[r] : r \in 1 .. FrameCount}
    \cup {In(48), Out(40), In(1040),
          [direction |-> "in", length |-> 38, plain |-> FALSE]}
=============================================================================
