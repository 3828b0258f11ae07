---------------------------- MODULE PartialOrder ----------------------------
(***************************************************************************)
(* The data and the operations of clean-room/partial_order_matcher.c, as   *)
(* operators on one record, for the matcher's own state machine            *)
(* (PartialOrderMatcher) and for the parsers that run several matchers.    *)
(*                                                                         *)
(* An order is a sequence of roles; a role takes some transfers and comes  *)
(* after its predecessors.  A transfer stands for a DBProtocolTransfer-    *)
(* Metadata that is valid; what role_accepts_transfer() compares field by  *)
(* field is membership in "takes".  A bit mask of roles is a set of roles, *)
(* and the sorted array of distinct masks is a set of those.               *)
(***************************************************************************)
EXTENDS Naturals, Sequences, FiniteSets

CONSTANTS Transfers,      \* valid transfer metadata
          NoTransfer,     \* a NULL transfer
          BadTransfer,    \* metadata db_protocol_transfer_metadata_is_valid() refuses
          MaxRoles,       \* DB_PARTIAL_ORDER_MAX_ROLES
          MaxCandidates   \* DB_PARTIAL_ORDER_MAX_CANDIDATES

ASSUME TransfersAssumption == /\ NoTransfer \notin Transfers
                              /\ BadTransfer \notin Transfers
ASSUME MaxRolesAssumption == MaxRoles \in Nat \ {0}
ASSUME MaxCandidatesAssumption == MaxCandidates \in Nat \ {0}

Inputs == Transfers \cup {NoTransfer, BadTransfer}

Roles(order) == DOMAIN order

RoleRecords == [takes : SUBSET Transfers, before : SUBSET (1 .. MaxRoles)]

\* What a DBPartialOrderMatcher can hold in roles[] and role_count.
OrderRecords == {order \in Seq(RoleRecords) : Len(order) <= MaxRoles}

Matchers == [state      : {"waiting", "in-progress", "complete", "failed"},
             order      : OrderRecords,
             consumed   : 0 .. MaxRoles,
             candidates : SUBSET SUBSET (1 .. MaxRoles)]
-----------------------------------------------------------------------------
(* The model given to db_partial_order_matcher_initialize().               *)

RoleIsValid(order, r) == /\ order[r].takes # {}
                         /\ order[r].before \subseteq Roles(order) \ {r}

\* Seeded fault for NeverStuck: cycles are not looked for.
AnyRolesWillDo(order) == TRUE

\* roles_form_dag(): pass after pass completes the roles whose predecessors
\* are complete; as many passes as there are roles are always enough.
RolesFormDag(order) ==
  LET completed[pass \in 0 .. Len(order)] ==
        IF pass = 0 THEN {}
        ELSE LET done == completed[pass - 1]
             IN  {r \in Roles(order) : order[r].before \subseteq done}
  IN  completed[Len(order)] = Roles(order)

ModelIsValid(order) == /\ Len(order) \in 1 .. MaxRoles
                       /\ \A r \in Roles(order) : RoleIsValid(order, r)
                       /\ RolesFormDag(order)

Loaded(order) ==
  [state      |-> IF ModelIsValid(order) THEN "waiting" ELSE "failed",
   order      |-> IF Len(order) \in 1 .. MaxRoles THEN order ELSE <<>>,
   consumed   |-> 0,
   candidates |-> IF ModelIsValid(order) THEN {{}} ELSE {}]
-----------------------------------------------------------------------------
\* candidate_is_closed()
IsClosed(order, mask) == \A r \in mask : order[r].before \subseteq mask

\* matcher_is_consistent(): what every call checks before it trusts the record.
IsConsistent(m) ==
  /\ m.state # "failed"
  /\ ModelIsValid(m.order)
  /\ m.consumed <= Len(m.order)
  /\ m.candidates # {}
  /\ Cardinality(m.candidates) <= MaxCandidates
  /\ \A mask \in m.candidates : /\ mask \subseteq Roles(m.order)
                                /\ Cardinality(mask) = m.consumed
                                /\ IsClosed(m.order, mask)
  /\ m.state = "waiting" => m.consumed = 0 /\ m.candidates = {{}}
  /\ m.state = "in-progress" => m.consumed \in 1 .. (Len(m.order) - 1)
  /\ m.state = "complete" => /\ m.consumed = Len(m.order)
                             /\ m.candidates = {Roles(m.order)}

\* Seeded fault for NeverCorrupt and NoHybrid: predecessors are ignored.
EligibleUnordered(order, mask, transfer) ==
  {r \in Roles(order) \ mask : transfer \in order[r].takes}

Eligible(order, mask, transfer) ==
  {r \in Roles(order) \ mask : /\ order[r].before \subseteq mask
                               /\ transfer \in order[r].takes}

\* Seeded fault for FrontierIsExact: the first eligible role is chosen.
GreedySuccessors(m, transfer) ==
  UNION {LET eligible == Eligible(m.order, mask, transfer)
         IN  IF eligible = {} THEN {}
             ELSE {mask \cup {CHOOSE r \in eligible : \A s \in eligible : r <= s}} :
            mask \in m.candidates}

\* next_candidates[]: every way to explain the transfer is kept.
Successors(m, transfer) ==
  UNION {{mask \cup {r} : r \in Eligible(m.order, mask, transfer)} :
            mask \in m.candidates}

\* Seeded fault for RejectsOnlyTheInexplicable: a full frontier is refused.
AcceptResultBelowLimit(m, transfer) ==
  IF m.state = "failed" THEN "failed"
  ELSE IF ~IsConsistent(m) THEN "corrupt-state"
  ELSE IF m.state = "complete" THEN "already-complete"
  ELSE IF transfer = NoTransfer THEN "invalid-argument"
  ELSE IF transfer = BadTransfer THEN "invalid-transfer"
  ELSE IF Cardinality(Successors(m, transfer)) >= MaxCandidates
       THEN "candidate-limit"
  ELSE IF Successors(m, transfer) = {} THEN "unexpected-transfer"
  ELSE IF m.consumed + 1 = Len(m.order) THEN "complete"
  ELSE "ok"

AcceptResult(m, transfer) ==
  IF m.state = "failed" THEN "failed"
  ELSE IF ~IsConsistent(m) THEN "corrupt-state"
  ELSE IF m.state = "complete" THEN "already-complete"
  ELSE IF transfer = NoTransfer THEN "invalid-argument"
  ELSE IF transfer = BadTransfer THEN "invalid-transfer"
  ELSE IF Cardinality(Successors(m, transfer)) > MaxCandidates
       THEN "candidate-limit"
  ELSE IF Successors(m, transfer) = {} THEN "unexpected-transfer"
  ELSE IF m.consumed + 1 = Len(m.order) THEN "complete"
  ELSE "ok"

Progressed(m, transfer) ==
  [state      |-> IF m.consumed + 1 = Len(m.order)
                  THEN "complete" ELSE "in-progress",
   order      |-> m.order,
   consumed   |-> m.consumed + 1,
   candidates |-> Successors(m, transfer)]

\* fail_matcher()
Failed(m) == [m EXCEPT !.state = "failed"]

Accepted(m, transfer) ==
  CASE AcceptResult(m, transfer) \in {"ok", "complete"} -> Progressed(m, transfer)
    [] AcceptResult(m, transfer) \in {"failed", "already-complete"} -> m
    [] OTHER -> Failed(m)

FinishResult(m) ==
  IF m.state = "failed" THEN "failed"
  ELSE IF ~IsConsistent(m) THEN "corrupt-state"
  ELSE IF m.state = "complete" THEN "complete"
  ELSE "incomplete"

Finished(m) == IF FinishResult(m) \in {"failed", "complete"} THEN m ELSE Failed(m)
-----------------------------------------------------------------------------
(* The reference: a run of an order is a sequence of distinct roles, each  *)
(* after its predecessors.  It explains a history if its roles take the    *)
(* transfers one by one.                                                   *)

SeqRange(run) == {run[i] : i \in DOMAIN run}

IsRun(order, run) ==
  \A i \in DOMAIN run :
     /\ run[i] \in Roles(order)
     /\ \A j \in 1 .. (i - 1) : run[j] # run[i]
     /\ order[run[i]].before \subseteq {run[j] : j \in 1 .. (i - 1)}

Explanations(order, transfers) ==
  {run \in [1 .. Len(transfers) -> Roles(order)] :
     /\ IsRun(order, run)
     /\ \A i \in 1 .. Len(transfers) : transfers[i] \in order[run[i]].takes}

Completions(order, transfers) ==
  {SeqRange(run) : run \in Explanations(order, transfers)}

\* An order in which every role comes right after the one above it.
IsChain(order) ==
  \A r \in Roles(order) : order[r].before = IF r = 1 THEN {} ELSE {r - 1}
=============================================================================
