------------------------------- MODULE Totals -------------------------------
(***************************************************************************)
(* The sum of a sequence of numbers, as the properties of the parsers need *)
(* it: a recursive function, so that theorems can be proved about it.      *)
(***************************************************************************)
EXTENDS Naturals, Sequences

Total(numbers) ==
  LET upTo[n \in 0 .. Len(numbers)] ==
        IF n = 0 THEN 0 ELSE upTo[n - 1] + numbers[n]
  IN  upTo[Len(numbers)]
=============================================================================
