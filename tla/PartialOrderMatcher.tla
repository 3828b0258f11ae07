------------------------ MODULE PartialOrderMatcher ------------------------
(***************************************************************************)
(* clean-room/partial_order_matcher.c: one matcher, initialised with any   *)
(* of the orders it may be offered, fed transfers and finished at any time *)
(* and in any order.                                                       *)
(***************************************************************************)
EXTENDS PartialOrder

CONSTANT Orders           \* the orders callers offer

ASSUME OrdersAssumption == Orders \subseteq Seq(RoleRecords)

VARIABLES matcher,        \* the DBPartialOrderMatcher
          result,         \* what the last call returned
          history         \* history: the transfers accepted since initialize

vars == <<matcher, result, history>>

MatcherResults == {"ok", "complete", "incomplete", "invalid-argument",
            "invalid-model", "invalid-transfer", "unexpected-transfer",
            "candidate-limit", "corrupt-state", "failed", "already-complete"}

TypeOK == /\ matcher \in Matchers
          /\ result \in MatcherResults
          /\ history \in Seq(Transfers)

LoadResult(order) == IF ModelIsValid(order) THEN "ok" ELSE "invalid-model"

Init == \E order \in Orders : /\ matcher = Loaded(order)
                              /\ result = LoadResult(order)
                              /\ history = <<>>

Initialize(order) == /\ matcher' = Loaded(order)
                     /\ result' = LoadResult(order)
                     /\ history' = <<>>

\* db_partial_order_matcher_initialize() with roles NULL.
InitializeNull == /\ matcher' = Loaded(<<>>)
                  /\ result' = "invalid-argument"
                  /\ history' = <<>>

Accept(transfer) ==
  /\ result' = AcceptResult(matcher, transfer)
  /\ matcher' = Accepted(matcher, transfer)
  /\ history' = IF result' \in {"ok", "complete"}
                THEN Append(history, transfer) ELSE history

Finish == /\ result' = FinishResult(matcher)
          /\ matcher' = Finished(matcher)
          /\ UNCHANGED history

Next == \/ \E order \in Orders : Initialize(order)
        \/ InitializeNull
        \/ \E transfer \in Inputs : Accept(transfer)
        \/ Finish

Spec == Init /\ [][Next]_vars
-----------------------------------------------------------------------------
(* Properties.                                                             *)

Live == matcher.state # "failed"

\* The frontier holds exactly the role sets that some explanation of the
\* whole history completes: nothing was chosen greedily, nothing was lost to
\* a duplicate, nothing survived that the order forbids.
FrontierIsExact ==
  Live => matcher.candidates = Completions(matcher.order, history)

\* The self-check in front of every call never fires on a record that only
\* the matcher's own calls have touched.
NeverCorrupt == Live => IsConsistent(matcher)

\* roles_form_dag() lets no order in that a matcher could get stuck on:
\* every candidate short of the end has a role that may come next.
NeverStuck ==
  Live => \A mask \in matcher.candidates :
             mask # Roles(matcher.order) =>
               \E transfer \in Transfers :
                  Eligible(matcher.order, mask, transfer) # {}

\* A matcher gives a transfer up only when it must: no run of the order
\* explains it, or the explanations outgrow the frontier's fixed storage.
RejectsOnlyTheInexplicable ==
  [][\A transfer \in Transfers :
       Live /\ Accept(transfer) /\ matcher'.state = "failed" =>
          Cardinality(Completions(matcher.order, Append(history, transfer)))
            \notin 1 .. MaxCandidates]_vars

\* A completed matcher has seen one transfer for every role, in an order the
\* roles allow; finishing it is idempotent.
CompleteIsALinearExtension ==
  matcher.state = "complete" =>
    /\ FinishResult(matcher) = "complete"
    /\ Len(history) = Len(matcher.order)
    /\ Explanations(matcher.order, history) # {}
=============================================================================
