----------------------- MODULE MCPartialOrderMatcher -----------------------
(* Orders of up to four roles over two transfers, for PartialOrderMatcher. *)
EXTENDS PartialOrderMatcher

CONSTANTS a, b

MCTransfers == {a, b}

RolesOver(n) == [takes : {{a}, {a, b}}, before : SUBSET (1 .. n)]

\* Every one- and two-role table, with self-predecessors and cycles among them.
Tiny == [1 .. 1 -> RolesOver(1)] \cup [1 .. 2 -> RolesOver(2)]

\* Three-role shapes: antichain, chain, fork, join, pair and one, cycle.
Shapes == {<<{}, {}, {}>>, <<{}, {1}, {2}>>, <<{}, {1}, {1}>>,
           <<{2, 3}, {}, {}>>, <<{}, {3}, {}>>, <<{3}, {1}, {2}>>}

Three == {[r \in 1 .. 3 |-> [takes |-> takes[r], before |-> shape[r]]] :
            takes \in [1 .. 3 -> {{a}, {b}, {a, b}}], shape \in Shapes}

\* A diamond with alike middle roles, an antichain wider than the frontier,
\* a role that takes nothing, no roles, and more roles than the storage has.
Odd == {<<[takes |-> {a}, before |-> {}],
          [takes |-> {b}, before |-> {1}],
          [takes |-> {b}, before |-> {1}],
          [takes |-> {a}, before |-> {2, 3}]>>,
        [r \in 1 .. 4 |-> [takes |-> {a}, before |-> {}]],
        <<[takes |-> {}, before |-> {}]>>,
        <<>>,
        [r \in 1 .. 5 |-> [takes |-> {a}, before |-> {}]]}

MCOrders == Tiny \cup Three \cup Odd
=============================================================================
