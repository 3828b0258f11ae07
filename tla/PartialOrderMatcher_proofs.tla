--------------------- MODULE PartialOrderMatcher_proofs ---------------------
(***************************************************************************)
(* Proofs about PartialOrderMatcher: the frontier is exactly the set of    *)
(* completions of the accepted history, for every order, every set of      *)
(* transfers and every size of the storage.  The invariant says that a     *)
(* live record is faithful to the history; the lemmas of Operators_proofs  *)
(* say that every call keeps it so.                                        *)
(*                                                                         *)
(* And about ExchangeParser, the hand-written parser of one such order: it *)
(* is alive exactly while the frames begin an observed order, and does     *)
(* what the generic matcher does on the table of that order.               *)
(***************************************************************************)
EXTENDS PartialOrderMatcher, ExchangeParser, Operators_proofs

-----------------------------------------------------------------------------
(* The invariant of the calls.                                             *)

Inv == TypeOK /\ (Live => Faithful(matcher, history))

-----------------------------------------------------------------------------
(* Every call preserves the invariant.                                     *)

LEMMA LoadInv ==
  ASSUME NEW order \in Seq(RoleRecords),
         matcher' = Loaded(order), result' \in MatcherResults, history' = <<>>
  PROVE  Inv'
<1>1. TypeOK'
  BY LoadedFacts, EmptySeq DEF TypeOK
<1>2. Live' => Faithful(matcher', history')
  BY LoadedFacts DEF Live
<1> QED
  BY <1>1, <1>2 DEF Inv

LEMMA AcceptInv ==
  ASSUME Inv, NEW transfer \in Inputs, Accept(transfer)
  PROVE  Inv'
<1>1. result' \in MatcherResults
  BY DEF Accept, AcceptResult, MatcherResults
<1>2. CASE AcceptResult(matcher, transfer) \in {"ok", "complete"}
  <2>1. Live
    BY <1>2 DEF AcceptResult, Live
  <2>2. matcher' = Progressed(matcher, transfer)
    BY <1>2 DEF Accept, Accepted
  <2>3. history' = Append(history, transfer)
    BY <1>2 DEF Accept
  <2>4. /\ transfer \in Transfers /\ matcher' \in Matchers
        /\ Faithful(matcher', history')
    BY <1>2, <2>1, <2>2, <2>3, ProgressedFacts DEF Inv, TypeOK
  <2>5. history' \in Seq(Transfers)
    BY <2>3, <2>4, AppendProperties DEF Inv, TypeOK
  <2> QED
    BY <1>1, <2>4, <2>5 DEF Inv, TypeOK
<1>3. CASE AcceptResult(matcher, transfer) \in {"failed", "already-complete"}
  <2>1. matcher' = matcher /\ history' = history
    BY <1>3 DEF Accept, Accepted
  <2> QED
    BY <1>1, <2>1 DEF Inv, TypeOK, Live
<1>4. CASE AcceptResult(matcher, transfer) \notin
             {"ok", "complete", "failed", "already-complete"}
  <2>1. matcher' = Failed(matcher) /\ history' = history
    BY <1>4 DEF Accept, Accepted
  <2>2. matcher' \in Matchers /\ ~Live'
    BY <2>1, FailedFacts DEF Inv, TypeOK, Live
  <2> QED
    BY <1>1, <2>1, <2>2 DEF Inv, TypeOK
<1> QED
  BY <1>2, <1>3, <1>4

LEMMA FinishInv == Inv /\ Finish => Inv'
<1> SUFFICES ASSUME Inv, Finish PROVE Inv'
  OBVIOUS
<1>1. result' \in MatcherResults /\ history' = history
  BY DEF Finish, FinishResult, MatcherResults
<1>2. CASE matcher' = matcher
  BY <1>1, <1>2 DEF Inv, TypeOK, Live
<1>3. CASE matcher' = Failed(matcher)
  BY <1>1, <1>3, FailedFacts DEF Inv, TypeOK, Live
<1> QED
  BY <1>2, <1>3 DEF Finish, Finished

LEMMA InitInv == Init => Inv
<1> SUFFICES ASSUME NEW order \in Orders, matcher = Loaded(order),
                    result = LoadResult(order), history = <<>>
             PROVE  Inv
  BY DEF Init
<1>1. order \in Seq(RoleRecords) /\ result \in MatcherResults
  BY OrdersAssumption DEF LoadResult, MatcherResults
<1>2. TypeOK
  BY <1>1, LoadedFacts, EmptySeq DEF TypeOK
<1>3. Live => Faithful(matcher, history)
  BY <1>1, LoadedFacts DEF Live
<1> QED
  BY <1>2, <1>3 DEF Inv

LEMMA NextInv == Inv /\ [Next]_vars => Inv'
<1> SUFFICES ASSUME Inv, [Next]_vars PROVE Inv'
  OBVIOUS
<1>1. ASSUME NEW order \in Orders, Initialize(order) PROVE Inv'
  <2>1. order \in Seq(RoleRecords) /\ LoadResult(order) \in MatcherResults
    BY OrdersAssumption DEF LoadResult, MatcherResults
  <2> QED
    BY <1>1, <2>1, LoadInv DEF Initialize
<1>2. CASE InitializeNull
  <2>1. <<>> \in Seq(RoleRecords) /\ "invalid-argument" \in MatcherResults
    BY EmptySeq DEF MatcherResults
  <2> QED
    BY <1>2, <2>1, LoadInv DEF InitializeNull
<1>3. ASSUME NEW transfer \in Inputs, Accept(transfer) PROVE Inv'
  BY <1>3, AcceptInv
<1>4. CASE Finish
  BY <1>4, FinishInv
<1>5. CASE UNCHANGED vars
  BY <1>5 DEF vars, Inv, TypeOK, Live
<1> QED
  BY <1>1, <1>2, <1>3, <1>4, <1>5 DEF Next

THEOREM Inductive == Spec => []Inv
BY InitInv, NextInv, PTL DEF Spec
-----------------------------------------------------------------------------
(* The theorems.                                                           *)

\* The record, the results and the history keep to their types.
THEOREM TypeCorrect == Spec => []TypeOK
<1>1. Inv => TypeOK
  BY DEF Inv
<1> QED
  BY <1>1, Inductive, PTL

\* The frontier of db_partial_order_matcher_accept() is complete and sound
\* with respect to the runs of the order, for every order.
THEOREM FrontierAlwaysExact == Spec => []FrontierIsExact
<1>1. Inv => FrontierIsExact
  BY DEF Inv, Faithful, FrontierIsExact
<1> QED
  BY <1>1, Inductive, PTL

\* matcher_is_consistent() never refuses a record the matcher itself made:
\* CORRUPT_STATE can only mean that someone else wrote to it.
THEOREM CorruptNever == Spec => []NeverCorrupt
<1>1. Inv => NeverCorrupt
  BY FaithfulIsConsistent DEF Inv, TypeOK, NeverCorrupt
<1> QED
  BY <1>1, Inductive, PTL

LEMMA CompleteFacts == Inv => CompleteIsALinearExtension
<1> SUFFICES ASSUME Inv, matcher.state = "complete"
             PROVE  /\ FinishResult(matcher) = "complete"
                    /\ Len(history) = Len(matcher.order)
                    /\ Explanations(matcher.order, history) # {}
  BY DEF CompleteIsALinearExtension
<1>1. Faithful(matcher, history)
  BY DEF Inv, Live
<1>2. IsConsistent(matcher)
  BY <1>1, FaithfulIsConsistent DEF Inv, TypeOK
<1>3. matcher.consumed = Len(matcher.order)
  BY <1>2 DEF IsConsistent
<1>4. Completions(matcher.order, history) # {}
  BY <1>1 DEF Faithful
<1> QED
  BY <1>1, <1>2, <1>3, <1>4 DEF FinishResult, Faithful, Completions

\* A matcher that reports COMPLETE has seen a whole linear extension.
THEOREM CompleteAlwaysLinear == Spec => []CompleteIsALinearExtension
BY CompleteFacts, Inductive, PTL

\* A transfer is turned down only when no run explains it or the frontier's
\* storage cannot hold the explanations.
THEOREM RejectionsAreForced == Spec => RejectsOnlyTheInexplicable
<1>1. ASSUME Inv, NEW transfer \in Transfers, Live, Accept(transfer),
             matcher'.state = "failed"
      PROVE  Cardinality(Completions(matcher.order, Append(history, transfer)))
               \notin 1 .. MaxCandidates
  <2>1. Faithful(matcher, history) /\ matcher \in Matchers
        /\ history \in Seq(Transfers)
    BY <1>1 DEF Inv, TypeOK
  <2>2. IsConsistent(matcher) /\ transfer # NoTransfer /\ transfer # BadTransfer
    BY <2>1, FaithfulIsConsistent, TransfersAssumption
  <2>3. Successors(matcher, transfer)
          = Completions(matcher.order, Append(history, transfer))
    BY <2>1, CompletionsExtend DEF Faithful
  <2>4. AcceptResult(matcher, transfer) \in {"candidate-limit", "unexpected-transfer"}
    <3>1. AcceptResult(matcher, transfer) \notin {"ok", "complete"}
      <4> SUFFICES ASSUME AcceptResult(matcher, transfer) \in {"ok", "complete"}
                   PROVE  FALSE
        OBVIOUS
      <4>1. matcher' = Progressed(matcher, transfer)
        BY <1>1 DEF Accept, Accepted
      <4> QED
        BY <1>1, <4>1 DEF Progressed
    <3>2. AcceptResult(matcher, transfer) # "already-complete"
      BY <1>1 DEF Accept, Accepted, Live
    <3> QED
      BY <1>1, <2>2, <3>1, <3>2 DEF AcceptResult, Live
  <2>5. Successors(matcher, transfer) = {}
          \/ Cardinality(Successors(matcher, transfer)) > MaxCandidates
    BY <2>4 DEF AcceptResult
  <2>6. Cardinality({}) = 0
    BY FS_EmptySet
  <2>7. Cardinality(Successors(matcher, transfer)) \in Nat
    BY <2>1, SuccessorsType
  <2>8. Cardinality(Successors(matcher, transfer)) \notin 1 .. MaxCandidates
    <3>1. CASE Successors(matcher, transfer) = {}
      <4>1. Cardinality(Successors(matcher, transfer)) = 0
        BY <2>6, <3>1
      <4> QED
        BY <4>1
    <3>2. CASE Cardinality(Successors(matcher, transfer)) > MaxCandidates
      BY <2>7, <3>2, MaxCandidatesAssumption
    <3> QED
      BY <2>5, <3>1, <3>2
  <2> QED
    BY <2>3, <2>8
<1>2. Inv /\ [Next]_vars =>
        [\A transfer \in Transfers :
           Live /\ Accept(transfer) /\ matcher'.state = "failed" =>
             Cardinality(Completions(matcher.order, Append(history, transfer)))
               \notin 1 .. MaxCandidates]_vars
  BY <1>1
<1> QED
  BY <1>2, Inductive, PTL DEF Spec, RejectsOnlyTheInexplicable

\* No candidate short of the end is a dead end: since roles_form_dag() lets
\* no cycle in, some role may always come next.
THEOREM NeverStuckAlways == Spec => []NeverStuck
<1>1. Inv => NeverStuck
  <2> SUFFICES ASSUME Inv, Live, NEW mask \in matcher.candidates,
                      mask # Roles(matcher.order)
               PROVE  \E transfer \in Transfers :
                         Eligible(matcher.order, mask, transfer) # {}
    BY DEF NeverStuck
  <2>1. matcher \in Matchers /\ history \in Seq(Transfers)
        /\ Faithful(matcher, history)
    BY DEF Inv, TypeOK
  <2>2. mask \subseteq Roles(matcher.order)
    BY <2>1, MaskFacts
  <2>3. matcher.order \in Seq(RoleRecords) /\ ModelIsValid(matcher.order)
    BY <2>1 DEF Matchers, OrderRecords, Faithful
  <2> QED
    BY <2>2, <2>3, NeverStuckOn
<1> QED
  BY <1>1, Inductive, PTL
-----------------------------------------------------------------------------
(* The hand-written parser.  While it is alive its record is a function of *)
(* the frames it has taken, and they begin one of the two observed orders. *)

Begins(order, frames) ==
  Len(frames) <= FrameCount /\ \A i \in DOMAIN frames : frames[i] = order[i]

Observed(frames) == \E order \in ObservedOrders : Begins(order, frames)

\* The live record x is what the observed frames make of it.
Follows(x, frames) ==
  /\ Observed(frames)
  /\ x.next = Len(frames) + 1
  /\ x.state = IF x.next = 1 THEN "waiting"
               ELSE IF x.next = FrameCount + 1 THEN "complete" ELSE "in-progress"
  /\ x.next > SwapFirst => (x.variant = "swapped" <=> frames[SwapFirst] = In(549))

ExchangeInv ==
  /\ exchange \in Exchanges /\ answer \in ExchangeResults /\ offered \in Seq(Inputs)
  /\ ProgressIsConsistent(exchange)
  /\ IF exchange.state = "failed" THEN ~Observed(offered)
     ELSE Follows(exchange, offered)

USE DEF FrameCount, SwapFirst, SwapSecond

LEMMA ShapeFacts ==
  /\ \A r \in 1 .. 15 : FrameResult(phase_a_shape[r]) = "ok"
  /\ phase_a_shape[SwapFirst] = In(38) /\ phase_a_shape[SwapSecond] = In(549)
  /\ In(38) # In(549)
<1>1. \A r \in 1 .. 15 : /\ phase_a_shape[r] # NoTransfer
                         /\ phase_a_shape[r] # BadTransfer
  BY BurstAssumption, TransfersAssumption
<1>2. ASSUME NEW r \in 1 .. 15
      PROVE  /\ phase_a_shape[r].length <= 1024 /\ phase_a_shape[r].plain
             /\ phase_a_shape[r].direction = "out" => phase_a_shape[r].length % 16 = 0
  BY DEF phase_a_shape, In, Out, Transfer
<1> QED
  BY <1>1, <1>2 DEF FrameResult, MaxFrameSize, phase_a_shape, In, Out, Transfer

\* The two orders differ in the tenth and the eleventh frame.
LEMMA OrderFacts ==
  ASSUME NEW order \in ObservedOrders
  PROVE  /\ \A i \in 1 .. 15 : i \notin {10, 11} => order[i] = phase_a_shape[i]
         /\ \/ order[10] = In(38) /\ order[11] = In(549)
            \/ order[10] = In(549) /\ order[11] = In(38)
<1>1. CASE order = phase_a_shape
  BY <1>1, ShapeFacts
<1>2. CASE order = [i \in 1 .. 15 |-> phase_a_shape[CASE i = 10 -> 11
                                                      [] i = 11 -> 10
                                                      [] OTHER -> i]]
  BY <1>2, ShapeFacts
<1> QED
  BY <1>1, <1>2 DEF ObservedOrders

LEMMA BothOrders ==
  /\ \E order \in ObservedOrders : order[10] = In(38) /\ order[11] = In(549)
  /\ \E order \in ObservedOrders : order[10] = In(549) /\ order[11] = In(38)
<1> DEFINE swapped == [i \in 1 .. 15 |-> phase_a_shape[CASE i = 10 -> 11
                                                         [] i = 11 -> 10
                                                         [] OTHER -> i]]
<1>1. phase_a_shape \in ObservedOrders /\ swapped \in ObservedOrders
  BY DEF ObservedOrders
<1>2. swapped[10] = phase_a_shape[11] /\ swapped[11] = phase_a_shape[10]
  OBVIOUS
<1> QED
  BY <1>1, <1>2, ShapeFacts

\* The roles that are expected are those that an observed order may go on with.
LEMMA ExpectedIsObserved ==
  ASSUME NEW x \in Exchanges, NEW frames \in Seq(Inputs), NEW frame \in Inputs,
         ProgressIsConsistent(x), Follows(x, frames), x.state # "complete"
  PROVE  /\ x.next \in 1 .. FrameCount
         /\ ExpectedRoles(x) \subseteq 1 .. FrameCount
         /\ Observed(Append(frames, frame))
              <=> \E r \in ExpectedRoles(x) : MatchesRole(r, frame)
<1> DEFINE n == x.next
           longer == Append(frames, frame)
<1>1. x.next = n /\ n \in 1 .. 15 /\ n \in Nat /\ Len(frames) = n - 1
  BY LenProperties DEF Exchanges, Follows, Observed, Begins
<1>2. ExpectedRoles(x) \subseteq 1 .. 15
  BY <1>1 DEF ExpectedRoles
<1>3. /\ Len(longer) = n /\ DOMAIN longer = 1 .. n /\ longer[n] = frame
      /\ \A i \in 1 .. (n - 1) : longer[i] = frames[i]
      /\ DOMAIN frames = 1 .. (n - 1)
  BY <1>1, AppendProperties, LenProperties
<1> HIDE DEF n, longer
<1>4. ASSUME NEW order
      PROVE  Begins(order, longer) <=> Begins(order, frames) /\ frame = order[n]
  <2>1. (\A i \in 1 .. n : longer[i] = order[i])
          <=> (\A i \in 1 .. (n - 1) : frames[i] = order[i]) /\ frame = order[n]
    BY <1>1, <1>3
  <2> QED
    BY <1>1, <1>3, <2>1 DEF Begins
<1>5. Observed(longer)
        <=> \E order \in ObservedOrders : Begins(order, frames) /\ frame = order[n]
  BY <1>4 DEF Observed
<1>6. PICK first \in ObservedOrders : Begins(first, frames)
  BY DEF Follows, Observed
<1>7. CASE n \notin {10, 11}
  <2>1. ExpectedRoles(x) = {n}
    BY <1>1, <1>7 DEF ExpectedRoles
  <2>2. ASSUME NEW order \in ObservedOrders PROVE order[n] = phase_a_shape[n]
    <3>1. \A i \in 1 .. 15 : i \notin {10, 11} => order[i] = phase_a_shape[i]
      BY OrderFacts
    <3> QED
      BY <1>1, <1>7, <3>1
  <2> QED
    <3>1. Observed(longer) <=> frame = phase_a_shape[n]
      BY <1>5, <1>6, <2>2
    <3>2. (\E r \in ExpectedRoles(x) : MatchesRole(r, frame)) <=> frame = phase_a_shape[n]
      BY <2>1 DEF MatchesRole
    <3> QED
      BY <1>1, <1>2, <3>1, <3>2 DEF longer
<1>8. CASE n = 10
  <2>1. ExpectedRoles(x) = {10, 11}
    BY <1>1, <1>8 DEF ExpectedRoles
  <2>2. ASSUME NEW order \in ObservedOrders PROVE Begins(order, frames)
    <3>1. \A i \in 1 .. 9 : first[i] = phase_a_shape[i]
      BY OrderFacts
    <3>2. \A i \in 1 .. 9 : order[i] = phase_a_shape[i]
      BY OrderFacts
    <3> QED
      BY <1>1, <1>3, <1>6, <1>8, <3>1, <3>2 DEF Begins
  <2>3. Observed(longer) <=> frame \in {In(38), In(549)}
    BY <1>5, <1>8, <2>2, BothOrders, OrderFacts
  <2> QED
    <3>1. (\E r \in ExpectedRoles(x) : MatchesRole(r, frame))
            <=> frame \in {In(38), In(549)}
      BY <2>1, ShapeFacts DEF MatchesRole
    <3> QED
      BY <1>1, <1>2, <2>3, <3>1 DEF longer
<1>9. CASE n = 11
  <2>1. frames[10] = first[10]
    BY <1>3, <1>6, <1>9 DEF Begins
  <2>2. x.variant \in {"canonical", "swapped"}
        /\ (x.variant = "swapped" <=> frames[10] = In(549))
    BY <1>1, <1>9 DEF ProgressIsConsistent, Follows
  <2>3. ASSUME NEW order \in ObservedOrders
        PROVE  Begins(order, frames) <=> order[10] = first[10]
    <3>1. \A i \in 1 .. 9 : first[i] = phase_a_shape[i] /\ order[i] = phase_a_shape[i]
      BY OrderFacts
    <3>2. \A i \in 1 .. 10 : frames[i] = first[i]
      BY <1>3, <1>6, <1>9 DEF Begins
    <3>3. Begins(order, frames) <=> \A i \in 1 .. 10 : frames[i] = order[i]
      BY <1>1, <1>3, <1>9 DEF Begins
    <3> QED
      BY <3>1, <3>2, <3>3
  <2>4. CASE first[10] = In(38)
    <3>1. x.variant # "swapped"
      BY <2>1, <2>2, <2>4, ShapeFacts
    <3>2. ExpectedRoles(x) = {11}
      BY <1>1, <1>9, <3>1 DEF ExpectedRoles
    <3>3. \A order \in ObservedOrders : order[10] = In(38) => order[11] = In(549)
      BY OrderFacts, ShapeFacts
    <3>4. Observed(longer) <=> frame = In(549)
      BY <1>5, <1>9, <2>3, <2>4, <3>3, BothOrders
    <3>5. (\E r \in ExpectedRoles(x) : MatchesRole(r, frame)) <=> frame = In(549)
      BY <3>2, ShapeFacts DEF MatchesRole
    <3> QED
      BY <1>1, <1>2, <3>4, <3>5 DEF longer
  <2>5. CASE first[10] = In(549)
    <3>1. x.variant = "swapped"
      BY <2>1, <2>2, <2>5
    <3>2. ExpectedRoles(x) = {10}
      BY <1>1, <1>9, <3>1 DEF ExpectedRoles
    <3>3. \A order \in ObservedOrders : order[10] = In(549) => order[11] = In(38)
      BY OrderFacts, ShapeFacts
    <3>4. Observed(longer) <=> frame = In(38)
      BY <1>5, <1>9, <2>3, <2>5, <3>3, BothOrders
    <3>5. (\E r \in ExpectedRoles(x) : MatchesRole(r, frame)) <=> frame = In(38)
      BY <3>2, ShapeFacts DEF MatchesRole
    <3> QED
      BY <1>1, <1>2, <3>4, <3>5 DEF longer
  <2> QED
    BY <2>4, <2>5, OrderFacts
<1> QED
  BY <1>1, <1>2, <1>7, <1>8, <1>9 DEF n, longer

LEMMA ExchangeInitInv == ExchangeInit => ExchangeInv
<1> SUFFICES ASSUME ExchangeInit PROVE ExchangeInv
  OBVIOUS
<1>1. offered \in Seq(Inputs) /\ Len(offered) = 0 /\ DOMAIN offered = {}
  BY EmptySeq DEF ExchangeInit
<1>2. Observed(offered)
  BY <1>1, BothOrders DEF Observed, Begins
<1> QED
  BY <1>1, <1>2 DEF ExchangeInit, ExchangeInv, Blank, Exchanges, Variants,
     ExchangeResults, ProgressIsConsistent, Follows

\* A frame is taken exactly when an observed order goes on with it.
LEMMA TakenFollows ==
  ASSUME ExchangeInv, exchange.state \notin {"failed", "complete"}, NEW frame \in Inputs
  PROVE  /\ OfferResult(exchange, frame) = "ok" <=> Observed(Append(offered, frame))
         /\ OfferResult(exchange, frame) = "ok" =>
              /\ WithFrame(exchange, frame) \in Exchanges
              /\ ProgressIsConsistent(WithFrame(exchange, frame))
              /\ Follows(WithFrame(exchange, frame), Append(offered, frame))
         /\ OfferResult(exchange, frame) # "already-complete"
<1> DEFINE n == exchange.next
           y == WithFrame(exchange, frame)
           longer == Append(offered, frame)
<1>1. /\ exchange \in Exchanges /\ offered \in Seq(Inputs)
      /\ ProgressIsConsistent(exchange) /\ Follows(exchange, offered)
  BY DEF ExchangeInv
<1>2. /\ n \in 1 .. 15
      /\ ExpectedRoles(exchange) \subseteq 1 .. 15
      /\ Observed(longer) <=> \E r \in ExpectedRoles(exchange) : MatchesRole(r, frame)
  BY <1>1, ExpectedIsObserved
<1>3. ExchangeIsConsistent(exchange)
  BY <1>1, <1>2 DEF ExchangeIsConsistent, Follows
<1>4. (\E r \in ExpectedRoles(exchange) : MatchesRole(r, frame)) => FrameResult(frame) = "ok"
  BY <1>2, ShapeFacts DEF MatchesRole
<1>5. OfferResult(exchange, frame) = "ok" <=> Observed(longer)
  BY <1>2, <1>3, <1>4 DEF OfferResult
<1>6. ASSUME OfferResult(exchange, frame) = "ok"
      PROVE  y \in Exchanges /\ ProgressIsConsistent(y) /\ Follows(y, longer)
  <2>1. Observed(longer)
    BY <1>5, <1>6
  <2>2. /\ Len(longer) = n /\ longer[n] = frame
        /\ \A i \in 1 .. (n - 1) : longer[i] = offered[i]
    BY <1>1, <1>2, AppendProperties, LenProperties DEF Follows
  <2>3. /\ y.next = n + 1
        /\ y.state = IF n = 15 THEN "complete" ELSE "in-progress"
        /\ y.pending <=> (n = 10 /\ ~MatchesRole(10, frame))
        /\ y.variant = IF n # 10 THEN exchange.variant
                       ELSE IF MatchesRole(10, frame) THEN "canonical" ELSE "swapped"
    BY DEF WithFrame
  <2>4. y \in Exchanges
    BY <1>1, <1>2, <1>3 DEF WithFrame, Exchanges, Variants
  <2>5. ProgressIsConsistent(y)
    <3>1. n > 10 => exchange.variant # "undecided"
      BY <1>1, <1>2 DEF ProgressIsConsistent
    <3>2. n < 10 => exchange.variant = "undecided"
      BY <1>1, <1>2 DEF ProgressIsConsistent
    <3>3. CASE n < 10
      BY <1>2, <2>3, <3>2, <3>3 DEF ProgressIsConsistent
    <3>4. CASE n = 10
      BY <1>2, <2>3, <3>4 DEF ProgressIsConsistent
    <3>5. CASE n > 10
      BY <1>2, <2>3, <3>1, <3>5 DEF ProgressIsConsistent
    <3> QED
      BY <1>2, <3>3, <3>4, <3>5
  <2>6. y.next > 10 => (y.variant = "swapped" <=> longer[10] = In(549))
    <3>1. CASE n < 10
      BY <1>2, <2>3, <3>1
    <3>2. CASE n = 10
      <4>1. PICK r \in {10, 11} : MatchesRole(r, frame)
        BY <1>2, <2>1, <3>2 DEF ExpectedRoles
      <4> QED
        BY <2>2, <2>3, <3>2, <4>1, ShapeFacts DEF MatchesRole
    <3>3. CASE n > 10
      <4>1. exchange.variant = "swapped" <=> offered[10] = In(549)
        BY <1>1, <3>3 DEF Follows
      <4> QED
        BY <1>2, <2>2, <2>3, <3>3, <4>1
    <3>4. n < 10 \/ n = 10 \/ n > 10
      BY <1>2
    <3> HIDE DEF n, y, longer
    <3> QED
      BY <3>1, <3>2, <3>3, <3>4
  <2> QED
    BY <1>2, <2>1, <2>2, <2>3, <2>4, <2>5, <2>6 DEF Follows
<1>7. OfferResult(exchange, frame) # "already-complete"
  BY <1>3 DEF OfferResult, FrameResult
<1> QED
  BY <1>5, <1>6, <1>7

LEMMA AcceptFrameInv ==
  ASSUME ExchangeInv, NEW frame \in Inputs, AcceptFrame(frame)
  PROVE  ExchangeInv'
<1>1. answer' \in ExchangeResults
  BY DEF AcceptFrame, OfferResult, FrameResult, ExchangeResults
<1>2. CASE exchange.state = "failed"
  <2>1. OfferResult(exchange, frame) = "invalid-argument"
    BY <1>2 DEF OfferResult
  <2>2. exchange' = [exchange EXCEPT !.state = "failed"] /\ offered' = offered
    BY <1>2, <2>1 DEF AcceptFrame, Offered
  <2>3. exchange' = exchange
    BY <1>2, <2>2 DEF ExchangeInv, Exchanges
  <2> QED
    BY <1>1, <1>2, <2>2, <2>3 DEF ExchangeInv
<1>3. CASE exchange.state = "complete"
  <2>1. ExchangeIsConsistent(exchange)
    BY <1>3 DEF ExchangeInv, ExchangeIsConsistent, Follows
  <2>2. OfferResult(exchange, frame) = "already-complete"
    BY <1>3, <2>1 DEF OfferResult
  <2>3. exchange' = exchange /\ offered' = offered
    BY <1>3, <2>2 DEF AcceptFrame, Offered
  <2> QED
    BY <1>1, <2>3 DEF ExchangeInv
<1>4. CASE exchange.state \notin {"failed", "complete"}
  <2>1. offered' = Append(offered, frame) /\ offered' \in Seq(Inputs)
    BY <1>4, AppendProperties DEF AcceptFrame, ExchangeInv
  <2>2. CASE OfferResult(exchange, frame) = "ok"
    <3>1. exchange' = WithFrame(exchange, frame)
      BY <2>2 DEF AcceptFrame, Offered
    <3>2. exchange'.state # "failed"
      BY <3>1 DEF WithFrame
    <3> QED
      BY <1>1, <1>4, <2>1, <2>2, <3>1, <3>2, TakenFollows DEF ExchangeInv
  <2>3. CASE OfferResult(exchange, frame) # "ok"
    <3>1. exchange' = [exchange EXCEPT !.state = "failed"]
      BY <1>4, <2>3, TakenFollows DEF AcceptFrame, Offered
    <3>2. ~Observed(offered')
      BY <1>4, <2>1, <2>3, TakenFollows
    <3>3. exchange' \in Exchanges /\ exchange'.state = "failed"
      BY <3>1 DEF ExchangeInv, Exchanges
    <3>4. ProgressIsConsistent(exchange')
      BY <3>1 DEF ExchangeInv, Exchanges, ProgressIsConsistent
    <3> QED
      BY <1>1, <2>1, <3>2, <3>3, <3>4 DEF ExchangeInv
  <2> QED
    BY <2>2, <2>3
<1> QED
  BY <1>2, <1>3, <1>4

LEMMA ExchangeNextInv == ExchangeInv /\ [ExchangeNext]_exchangeVars => ExchangeInv'
<1> SUFFICES ASSUME ExchangeInv, [ExchangeNext]_exchangeVars PROVE ExchangeInv'
  OBVIOUS
<1>1. CASE InitializeExchange
  <2>1. offered' \in Seq(Inputs) /\ Len(offered') = 0 /\ DOMAIN offered' = {}
    BY <1>1, EmptySeq DEF InitializeExchange
  <2>2. Observed(offered')
    BY <2>1, BothOrders DEF Observed, Begins
  <2> QED
    BY <1>1, <2>1, <2>2 DEF InitializeExchange, ExchangeInv, Blank, Exchanges,
       Variants, ProgressIsConsistent, Follows
<1>2. ASSUME NEW frame \in Inputs, AcceptFrame(frame) PROVE ExchangeInv'
  BY <1>2, AcceptFrameInv
<1>3. CASE UNCHANGED exchangeVars
  BY <1>3 DEF exchangeVars, ExchangeInv
<1> QED
  BY <1>1, <1>2, <1>3 DEF ExchangeNext

THEOREM ExchangeInductive == ExchangeSpec => []ExchangeInv
BY ExchangeInitInv, ExchangeNextInv, PTL DEF ExchangeSpec

\* exchange_parser.c is alive exactly while what it was offered begins one of
\* the two observed orders, whatever transfers there are.
THEOREM AliveAlwaysObserved == ExchangeSpec => []AliveMeansObserved
<1>1. ExchangeInv => AliveMeansObserved
  <2> SUFFICES ASSUME ExchangeInv PROVE AliveMeansObserved
    OBVIOUS
  <2>1. Len(offered) \in Nat
    BY LenProperties DEF ExchangeInv
  <2>2. Observed(offered) <=>
          \E order \in ObservedOrders :
             Len(offered) <= FrameCount /\ \A i \in DOMAIN offered : offered[i] = order[i]
    BY DEF Observed, Begins
  <2> QED
    BY <2>1, <2>2 DEF ExchangeInv, Follows, AliveMeansObserved
<1> QED
  BY <1>1, ExchangeInductive, PTL

\* parser_is_consistent() never refuses a record that only the parser's own
\* calls have written.
THEOREM InconsistentNever == ExchangeSpec => []NeverInconsistent
<1>1. ExchangeInv => NeverInconsistent
  BY DEF ExchangeInv, Follows, NeverInconsistent, ExchangeIsConsistent, Exchanges
<1> QED
  BY <1>1, ExchangeInductive, PTL

-----------------------------------------------------------------------------
(* The hand-written parser beside the generic matcher.                     *)

\* What comes before a role of the burst.
Predecessors(r) == CASE r = 1 -> {}
               [] r \in {10, 11} -> {9}
               [] r = 12 -> {10, 11}
               [] OTHER -> {r - 1}

LEMMA BurstRoles ==
  /\ Len(startup_first_burst) = 15 /\ Roles(startup_first_burst) = 1 .. 15
  /\ \A r \in 1 .. 15 : /\ startup_first_burst[r].takes = {phase_a_shape[r]}
                        /\ startup_first_burst[r].before = Predecessors(r)
<1>1. Len(startup_first_burst) = 15 /\ Roles(startup_first_burst) = 1 .. 15
  BY DEF startup_first_burst, Roles
<1>2. ASSUME NEW r \in 1 .. 15
      PROVE  startup_first_burst[r] = Role(phase_a_shape[r], Predecessors(r))
  <2>1. /\ startup_first_burst[1] = Role(phase_a_shape[1], Predecessors(1))
        /\ startup_first_burst[2] = Role(phase_a_shape[2], Predecessors(2))
        /\ startup_first_burst[3] = Role(phase_a_shape[3], Predecessors(3))
        /\ startup_first_burst[4] = Role(phase_a_shape[4], Predecessors(4))
        /\ startup_first_burst[5] = Role(phase_a_shape[5], Predecessors(5))
    BY DEF startup_first_burst, phase_a_shape, Predecessors
  <2>2. /\ startup_first_burst[6] = Role(phase_a_shape[6], Predecessors(6))
        /\ startup_first_burst[7] = Role(phase_a_shape[7], Predecessors(7))
        /\ startup_first_burst[8] = Role(phase_a_shape[8], Predecessors(8))
        /\ startup_first_burst[9] = Role(phase_a_shape[9], Predecessors(9))
        /\ startup_first_burst[10] = Role(phase_a_shape[10], Predecessors(10))
    BY DEF startup_first_burst, phase_a_shape, Predecessors
  <2>3. /\ startup_first_burst[11] = Role(phase_a_shape[11], Predecessors(11))
        /\ startup_first_burst[12] = Role(phase_a_shape[12], Predecessors(12))
        /\ startup_first_burst[13] = Role(phase_a_shape[13], Predecessors(13))
        /\ startup_first_burst[14] = Role(phase_a_shape[14], Predecessors(14))
        /\ startup_first_burst[15] = Role(phase_a_shape[15], Predecessors(15))
    BY DEF startup_first_burst, phase_a_shape, Predecessors
  <2>4. r \in {1, 2, 3, 4, 5} \cup {6, 7, 8, 9, 10} \cup {11, 12, 13, 14, 15}
    OBVIOUS
  <2> QED
    BY <2>1, <2>2, <2>3, <2>4
<1> QED
  BY <1>1, <1>2 DEF Role

\* How many roles a pass of roles_form_dag() has completed.
CompletedBy(pass) == IF pass < 10 THEN pass ELSE IF pass < 15 THEN pass + 1 ELSE 15

LEMMA BurstIsValid == ModelIsValid(startup_first_burst)
<1> DEFINE order == startup_first_burst
           completed[pass \in 0 .. Len(order)] ==
             IF pass = 0 THEN {}
             ELSE LET done == completed[pass - 1]
                  IN  {r \in Roles(order) : order[r].before \subseteq done}
           T == {pass \in 0 .. 15 : completed[pass] # 1 .. CompletedBy(pass)}
<1>1. PICK f : IsPasses(order, Len(order), f)
  BY PassesExist, BurstRoles
<1>2. IsPasses(order, 15, completed)
  BY <1>1, BurstRoles DEF IsPasses, Pass
<1> HIDE DEF completed
<1>3. \A pass \in 0 .. 15 :
        completed[pass] = IF pass = 0 THEN {} ELSE Pass(order, completed[pass - 1])
  BY <1>2 DEF IsPasses
<1>4. ASSUME NEW pass \in 1 .. 15
      PROVE  Pass(order, 1 .. CompletedBy(pass - 1)) = 1 .. CompletedBy(pass)
  <2> DEFINE a == CompletedBy(pass - 1)
  <2>1. ASSUME NEW r \in 1 .. 15
        PROVE  Predecessors(r) \subseteq 1 .. a <=> r <= CompletedBy(pass)
    <3>1. \A k \in 1 .. 15 : {k} \subseteq 1 .. a <=> k <= a
      BY DEF CompletedBy
    <3>2. CASE r = 1
      BY <3>2 DEF Predecessors, CompletedBy
    <3>3. CASE r \in {10, 11}
      BY <3>1, <3>3 DEF Predecessors, CompletedBy
    <3>4. CASE r = 12
      <4>1. {10, 11} \subseteq 1 .. a <=> 11 <= a
        BY DEF CompletedBy
      <4> QED
        BY <3>4, <4>1 DEF Predecessors, CompletedBy
    <3>5. CASE r \notin {1, 10, 11, 12}
      <4>1. Predecessors(r) = {r - 1} /\ r - 1 \in 1 .. 15
        BY <3>5 DEF Predecessors
      <4>2. Predecessors(r) \subseteq 1 .. a <=> r - 1 <= a
        BY <3>1, <4>1
      <4>3. r - 1 <= a <=> r <= CompletedBy(pass)
        BY <3>5 DEF CompletedBy
      <4> QED
        BY <4>2, <4>3
    <3> QED
      BY <3>2, <3>3, <3>4, <3>5
  <2>2. \A r \in 1 .. 15 : order[r].before = Predecessors(r)
    BY BurstRoles
  <2>3. Roles(order) = 1 .. 15 /\ CompletedBy(pass) \in 1 .. 15
    BY BurstRoles DEF CompletedBy
  <2> HIDE DEF order
  <2> QED
    BY <2>1, <2>2, <2>3 DEF Pass
<1>5. T = {}
  <2> SUFFICES ASSUME T # {} PROVE FALSE
    OBVIOUS
  <2>1. T \in SUBSET Nat
    OBVIOUS
  <2>2. PICK m \in T : \A k \in T : m <= k
    <3> HIDE DEF T
    <3> QED
      BY <2>1, Least
  <2>3. m \in 1 .. 15
    <3>1. completed[0] = {} /\ 1 .. CompletedBy(0) = {}
      BY <1>3 DEF CompletedBy
    <3>2. 0 \notin T
      BY <3>1
    <3>3. m \in 0 .. 15
      BY <2>2
    <3> HIDE DEF T
    <3> QED
      BY <2>2, <3>2, <3>3
  <2>4. m - 1 \in 0 .. 15 /\ ~(m <= m - 1)
    BY <2>3
  <2>5. completed[m - 1] = 1 .. CompletedBy(m - 1)
    BY <2>2, <2>4
  <2> QED
    BY <1>3, <1>4, <2>2, <2>3, <2>5
<1>6. completed[15] = 1 .. 15
  BY <1>5 DEF CompletedBy
<1>7. RolesFormDag(order)
  BY <1>6, BurstRoles DEF RolesFormDag, completed
<1>8. ASSUME NEW r \in Roles(order) PROVE RoleIsValid(order, r)
  <2>1. r \in 1 .. 15 /\ Predecessors(r) \subseteq 1 .. 15 \ {r}
    BY BurstRoles DEF Predecessors
  <2>2. order[r].takes # {} /\ order[r].before = Predecessors(r) /\ Roles(order) = 1 .. 15
    BY <2>1, BurstRoles
  <2> HIDE DEF order
  <2> QED
    BY <2>1, <2>2 DEF RoleIsValid
<1>9. Len(order) \in 1 .. MaxRoles
  BY BurstRoles, BurstAssumption, MaxRolesAssumption
<1> HIDE DEF order
<1> QED
  BY <1>7, <1>8, <1>9 DEF ModelIsValid, order

\* A live record of the parser is, as a matcher, a consistent one with a single
\* candidate.
LEMMA MatcherFacts ==
  ASSUME NEW x \in Exchanges, NEW frames \in Seq(Inputs),
         ProgressIsConsistent(x), Follows(x, frames)
  PROVE  /\ IsConsistent(AsMatcher(x))
         /\ Seen(x) \subseteq 1 .. 15
         /\ Cardinality(Seen(x)) = x.next - 1
<1> DEFINE n == x.next
           m == AsMatcher(x)
<1>1. n \in 1 .. 16
  BY DEF Exchanges
<1>2. x.pending => n = 11
  BY DEF ProgressIsConsistent, Exchanges
<1>3. Seen(x) \subseteq 1 .. 15
  BY <1>1, <1>2 DEF Seen, SwapSecond
<1>4. Cardinality(Seen(x)) = n - 1
  <2>1. CASE x.pending
    <3>1. Cardinality(1 .. 11) = 11 /\ IsFiniteSet(1 .. 11) /\ 10 \in 1 .. 11
      <4>1. PICK e \in Nat : e = 11
        OBVIOUS
      <4>2. Cardinality(1 .. e) = e /\ IsFiniteSet(1 .. e)
        BY Interval
      <4> QED
        BY <4>1, <4>2
    <3>2. Cardinality((1 .. 11) \ {10}) = Cardinality(1 .. 11) - 1
      BY <3>1, FS_RemoveElement
    <3> QED
      BY <1>2, <2>1, <3>1, <3>2 DEF Seen
  <2>2. CASE ~x.pending
    <3>1. n - 1 \in Nat
      BY <1>1
    <3>2. Cardinality(1 .. (n - 1)) = n - 1
      BY <3>1, Interval
    <3> QED
      BY <2>2, <3>2 DEF Seen
  <2> QED
    BY <2>1, <2>2
<1>5. IsClosed(startup_first_burst, Seen(x))
  <2>1. ASSUME NEW r \in Seen(x) PROVE Predecessors(r) \subseteq Seen(x)
    <3>1. r \in 1 .. 15
      BY <1>3
    <3>2. CASE x.pending
      BY <1>2, <3>1, <3>2 DEF Seen, Predecessors
    <3>3. CASE ~x.pending
      <4>1. r <= n - 1 /\ Seen(x) = 1 .. (n - 1)
        BY <1>1, <3>1, <3>3 DEF Seen
      <4>2. Predecessors(r) \subseteq 1 .. (r - 1)
        BY <3>1 DEF Predecessors
      <4>3. n # 11 \/ r # 11 \/ Predecessors(r) \subseteq 1 .. 9
        BY DEF Predecessors
      <4> QED
        BY <1>1, <3>1, <4>1, <4>2
    <3> QED
      BY <3>2, <3>3
  <2>2. \A r \in Seen(x) : startup_first_burst[r].before = Predecessors(r)
    BY <1>3, BurstRoles
  <2> QED
    BY <2>1, <2>2 DEF IsClosed
<1>6. /\ m.state = x.state /\ m.order = startup_first_burst
      /\ m.consumed = n - 1 /\ m.candidates = {Seen(x)}
  BY DEF AsMatcher
<1>7. Cardinality(m.candidates) = 1
  BY <1>6, FS_Singleton
<1>8. /\ x.state # "failed"
      /\ x.state = "waiting" => n = 1 /\ Seen(x) = {}
      /\ x.state = "in-progress" => n - 1 \in 1 .. 14
      /\ x.state = "complete" => n = 16 /\ Seen(x) = 1 .. 15
  <2>1. n = 1 => Seen(x) = 1 .. 0
    BY <1>2 DEF Seen
  <2>2. n = 16 => Seen(x) = 1 .. 15
    BY <1>2 DEF Seen
  <2>3. 1 .. 0 = {}
    OBVIOUS
  <2>4. x.state = IF n = 1 THEN "waiting" ELSE IF n = 16 THEN "complete" ELSE "in-progress"
    BY DEF Follows
  <2> HIDE DEF n
  <2>5. CASE n = 1
    BY <2>1, <2>3, <2>4, <2>5
  <2>6. CASE n = 16
    BY <2>2, <2>4, <2>6
  <2>7. CASE n \in 2 .. 15
    <3>1. x.state = "in-progress" /\ n - 1 \in 1 .. 14
      BY <2>4, <2>7
    <3> QED
      BY <3>1
  <2> QED
    BY <1>1, <2>5, <2>6, <2>7
<1> HIDE DEF m, n
<1>9. Len(m.order) = 15 /\ Roles(m.order) = 1 .. 15 /\ ModelIsValid(m.order)
  BY <1>6, BurstRoles, BurstIsValid
<1>10. \A mask \in m.candidates : /\ mask \subseteq Roles(m.order)
                                  /\ Cardinality(mask) = m.consumed
                                  /\ IsClosed(m.order, mask)
  BY <1>3, <1>4, <1>5, <1>6, <1>9 DEF n
<1>11. IsConsistent(m)
  <2>1. /\ m.state # "failed" /\ m.consumed <= Len(m.order) /\ m.candidates # {}
        /\ m.state = "in-progress" => m.consumed \in 1 .. (Len(m.order) - 1)
    BY <1>1, <1>6, <1>8, <1>9
  <2>2. /\ m.state = "waiting" => m.consumed = 0 /\ m.candidates = {{}}
        /\ m.state = "complete" => /\ m.consumed = Len(m.order)
                                   /\ m.candidates = {Roles(m.order)}
    <3>1. CASE x.state = "waiting"
      <4>1. m.consumed = n - 1 /\ n = 1 /\ Seen(x) = {}
        BY <1>6, <1>8, <3>1
      <4>2. m.candidates = {{}} /\ m.consumed = 0
        BY <1>6, <4>1
      <4> QED
        BY <1>6, <3>1, <4>2
    <3>2. CASE x.state = "complete"
      <4>1. n = 16 /\ Seen(x) = Roles(m.order)
        BY <1>8, <1>9, <3>2
      <4>2. m.candidates = {Roles(m.order)} /\ m.consumed = Len(m.order)
        BY <1>6, <1>9, <4>1
      <4> QED
        BY <1>6, <3>2, <4>2
    <3> QED
      BY <1>6, <3>1, <3>2
  <2>3. Cardinality(m.candidates) <= MaxCandidates
    BY <1>7, MaxCandidatesAssumption
  <2> QED
    BY <1>9, <1>10, <2>1, <2>2, <2>3 DEF IsConsistent
<1> QED
  BY <1>3, <1>4, <1>11 DEF m, n

\* The roles the parser expects are the roles the order lets come next.
LEMMA ExpectedIsEligible ==
  ASSUME NEW x \in Exchanges, NEW frames \in Seq(Inputs), NEW frame \in Inputs,
         ProgressIsConsistent(x), Follows(x, frames), x.state # "complete"
  PROVE  Eligible(startup_first_burst, Seen(x), frame)
           = {r \in ExpectedRoles(x) : MatchesRole(r, frame)}
<1> DEFINE n == x.next
<1>1. n \in 1 .. 15 /\ ExpectedRoles(x) \subseteq 1 .. 15
  BY ExpectedIsObserved
<1>2. /\ x.pending => n = 11 /\ x.variant = "swapped"
      /\ n = 11 /\ ~x.pending => x.variant # "swapped"
  BY DEF ProgressIsConsistent, Exchanges
<1>3. ASSUME NEW r \in 1 .. 15
      PROVE  r \notin Seen(x) /\ Predecessors(r) \subseteq Seen(x) <=> r \in ExpectedRoles(x)
  <2>1. CASE x.pending
    <3>1. Seen(x) = (1 .. 9) \cup {11} /\ ExpectedRoles(x) = {10}
      BY <1>2, <2>1 DEF Seen, ExpectedRoles
    <3>3. r \in 12 .. 15 => ~(Predecessors(r) \subseteq (1 .. 9) \cup {11})
      <4>1. CASE r = 12
        <5>1. 10 \in Predecessors(r)
          BY <4>1 DEF Predecessors
        <5> QED
          BY <5>1
      <4>2. CASE r \in 13 .. 15
        <5>1. r - 1 \in Predecessors(r) /\ r - 1 \notin (1 .. 9) \cup {11}
          BY <4>2 DEF Predecessors
        <5> QED
          BY <5>1
      <4> QED
        BY <4>1, <4>2
    <3>4. r = 10 => Predecessors(r) \subseteq (1 .. 9) \cup {11}
      BY DEF Predecessors
    <3> QED
      BY <3>1, <3>3, <3>4
  <2>2. CASE ~x.pending
    <3>1. Seen(x) = 1 .. (n - 1)
      BY <2>2 DEF Seen
    <3>2. ExpectedRoles(x) = IF n = 10 THEN {10, 11} ELSE {n}
      BY <1>2, <2>2 DEF ExpectedRoles
    <3>3. CASE r \in {1, 10, 11, 12}
      <4>1. /\ r = 1 => Predecessors(r) = {}
            /\ r \in {10, 11} => Predecessors(r) = {9}
            /\ r = 12 => Predecessors(r) = {10, 11}
        BY DEF Predecessors
      <4>2. /\ {9} \subseteq 1 .. (n - 1) <=> 9 <= n - 1
            /\ {10, 11} \subseteq 1 .. (n - 1) <=> 11 <= n - 1
        BY <1>1
      <4>3. r \in Seen(x) <=> r <= n - 1
        BY <1>1, <3>1
      <4>4. r \in ExpectedRoles(x) <=> IF n = 10 THEN r \in {10, 11} ELSE r = n
        BY <3>2
      <4>5. CASE r = 1
        BY <1>1, <4>1, <4>3, <4>4, <4>5
      <4>6. CASE r \in {10, 11}
        <5>1. Predecessors(r) \subseteq Seen(x) <=> 9 <= n - 1
          BY <3>1, <4>1, <4>2, <4>6
        <5> QED
          BY <1>1, <4>3, <4>4, <4>6, <5>1
      <4>7. CASE r = 12
        BY <1>1, <3>1, <4>1, <4>2, <4>3, <4>4, <4>7
      <4> QED
        BY <3>3, <4>5, <4>6, <4>7
    <3>4. CASE r \notin {1, 10, 11, 12}
      <4>1. Predecessors(r) = {r - 1}
        BY <3>4 DEF Predecessors
      <4> QED
        BY <1>1, <3>1, <3>2, <3>4, <4>1
    <3> QED
      BY <3>3, <3>4
  <2> QED
    BY <2>1, <2>2
<1>4. \A r \in 1 .. 15 : /\ startup_first_burst[r].takes = {phase_a_shape[r]}
                         /\ startup_first_burst[r].before = Predecessors(r)
  BY BurstRoles
<1>5. Roles(startup_first_burst) = 1 .. 15
  BY BurstRoles
<1> QED
  BY <1>1, <1>3, <1>4, <1>5 DEF Eligible, MatchesRole

\* A frame that is taken takes the one candidate of the matcher along.
LEMMA TakenIsProgress ==
  ASSUME ExchangeInv, exchange.state \notin {"failed", "complete"},
         NEW frame \in Inputs, OfferResult(exchange, frame) = "ok"
  PROVE  AsMatcher(WithFrame(exchange, frame))
           = Accepted(AsMatcher(exchange), frame)
<1> DEFINE x == exchange
           y == WithFrame(exchange, frame)
           m == AsMatcher(exchange)
<1>1. /\ x \in Exchanges /\ offered \in Seq(Inputs)
      /\ ProgressIsConsistent(x) /\ Follows(x, offered)
  BY DEF ExchangeInv
<1>2. /\ x.next \in 1 .. 15 /\ ExpectedRoles(x) \subseteq 1 .. 15
      /\ IsConsistent(m)
      /\ Eligible(startup_first_burst, Seen(x), frame)
           = {r \in ExpectedRoles(x) : MatchesRole(r, frame)}
  BY <1>1, ExpectedIsObserved, ExpectedIsEligible, MatcherFacts
<1>3. PICK r \in ExpectedRoles(x) : MatchesRole(r, frame)
  BY <1>1, <1>2, TakenFollows, ExpectedIsObserved
<1>4. \A s \in ExpectedRoles(x) : MatchesRole(s, frame) => s = r
  <2>1. ExpectedRoles(x) = {10, 11} \/ \E s : ExpectedRoles(x) = {s}
    BY DEF ExpectedRoles
  <2>2. ~(phase_a_shape[10] = phase_a_shape[11])
    BY ShapeFacts
  <2>3. CASE ExpectedRoles(x) = {10, 11}
    <3>1. ASSUME NEW s \in {10, 11}, s # r PROVE ~MatchesRole(s, frame)
      BY <1>3, <2>2, <2>3, <3>1 DEF MatchesRole
    <3> QED
      BY <2>3, <3>1
  <2> QED
    BY <2>1, <2>3
<1>5. Eligible(startup_first_burst, Seen(x), frame) = {r}
  BY <1>2, <1>3, <1>4
<1>6. /\ m.state = x.state /\ m.order = startup_first_burst
      /\ m.consumed = x.next - 1 /\ m.candidates = {Seen(x)}
  BY DEF AsMatcher
<1> HIDE DEF m
<1>7. Successors(m, frame) = {Seen(x) \cup {r}}
  BY <1>5, <1>6 DEF Successors
<1>8. /\ ~(Cardinality(Successors(m, frame)) > MaxCandidates)
      /\ Successors(m, frame) # {}
  <2>1. Cardinality({Seen(x) \cup {r}}) = 1
    BY FS_Singleton
  <2> QED
    BY <1>7, <2>1, MaxCandidatesAssumption
<1>9. frame \notin {NoTransfer, BadTransfer}
  BY <1>2, <1>3, ShapeFacts, BurstAssumption, TransfersAssumption DEF MatchesRole
<1>10. AcceptResult(m, frame) \in {"ok", "complete"}
  BY <1>2, <1>6, <1>8, <1>9 DEF AcceptResult
<1>11. Accepted(m, frame) = Progressed(m, frame)
  BY <1>10 DEF Accepted
<1>12. Seen(y) = Seen(x) \cup {r}
  <2>1. /\ y.next = x.next + 1
        /\ y.pending <=> (x.next = 10 /\ ~MatchesRole(10, frame))
    BY DEF WithFrame
  <2>2. /\ x.pending => x.next = 11 /\ x.variant = "swapped"
        /\ x.next = 11 /\ ~x.pending => x.variant # "swapped"
    BY <1>1 DEF ProgressIsConsistent, Exchanges
  <2>3. CASE x.pending
    <3>1. r = 10
      BY <1>3, <2>2, <2>3 DEF ExpectedRoles
    <3>2. Seen(y) = 1 .. 11
      BY <2>1, <2>2, <2>3 DEF Seen
    <3> QED
      BY <2>3, <3>1, <3>2 DEF Seen
  <2>4. CASE ~x.pending /\ y.pending
    <3>1. x.next = 10 /\ r = 11
      BY <1>3, <2>1, <2>4 DEF ExpectedRoles
    <3> QED
      BY <2>4, <3>1 DEF Seen
  <2>5. CASE ~x.pending /\ ~y.pending
    <3>1. r = x.next
      BY <1>3, <1>4, <2>1, <2>2, <2>5 DEF ExpectedRoles
    <3>2. Seen(x) = 1 .. (x.next - 1) /\ Seen(y) = 1 .. x.next
      BY <1>2, <2>1, <2>5 DEF Seen
    <3> QED
      BY <1>2, <3>1, <3>2
  <2> QED
    BY <2>3, <2>4, <2>5
<1>13. AsMatcher(y) = Progressed(m, frame)
  <2>1. /\ y.next - 1 = m.consumed + 1
        /\ y.state = IF x.next = 15 THEN "complete" ELSE "in-progress"
    BY <1>2, <1>6 DEF WithFrame
  <2>2. m.consumed + 1 = Len(m.order) <=> x.next = 15
    BY <1>2, <1>6, BurstRoles
  <2>3. y.state = IF m.consumed + 1 = Len(m.order) THEN "complete" ELSE "in-progress"
    BY <2>1, <2>2
  <2>4. {Seen(y)} = Successors(m, frame)
    BY <1>7, <1>12
  <2> HIDE DEF m, x, y
  <2> QED
    BY <1>6, <2>1, <2>3, <2>4 DEF AsMatcher, Progressed
<1> QED
  BY <1>11, <1>13 DEF m

\* A frame that is refused is refused by the matcher.
LEMMA RefusedIsFailed ==
  ASSUME ExchangeInv, exchange.state \notin {"failed", "complete"},
         NEW frame \in Inputs, OfferResult(exchange, frame) # "ok"
  PROVE  Accepted(AsMatcher(exchange), frame) = Failed(AsMatcher(exchange))
<1> DEFINE x == exchange
           m == AsMatcher(exchange)
<1>1. /\ x \in Exchanges /\ offered \in Seq(Inputs)
      /\ ProgressIsConsistent(x) /\ Follows(x, offered)
  BY DEF ExchangeInv
<1>2. /\ IsConsistent(m)
      /\ Eligible(startup_first_burst, Seen(x), frame)
           = {r \in ExpectedRoles(x) : MatchesRole(r, frame)}
  BY <1>1, ExpectedIsEligible, MatcherFacts
<1>3. \A r \in ExpectedRoles(x) : ~MatchesRole(r, frame)
  BY <1>1, TakenFollows, ExpectedIsObserved
<1>4. /\ m.state = x.state /\ m.order = startup_first_burst
      /\ m.candidates = {Seen(x)}
  BY DEF AsMatcher
<1>5. Successors(m, frame) = {}
  BY <1>2, <1>3, <1>4 DEF Successors
<1>6. AcceptResult(m, frame) \notin {"ok", "complete", "failed", "already-complete"}
  BY <1>2, <1>4, <1>5 DEF AcceptResult
<1> QED
  BY <1>6 DEF Accepted

\* Every call of the hand-written parser is a call of the generic matcher on
\* the table of the burst.
THEOREM AlwaysAgreesWithMatcher == ExchangeSpec => AgreesWithMatcher
<1>1. ASSUME ExchangeInv, NEW frame \in Inputs, AcceptFrame(frame)
      PROVE  AsMatcher(exchange') = Accepted(AsMatcher(exchange), frame)
  <2> DEFINE m == AsMatcher(exchange)
  <2>1. CASE exchange.state = "failed"
    <3>1. OfferResult(exchange, frame) = "invalid-argument" /\ m.state = "failed"
      BY <2>1 DEF OfferResult, AsMatcher
    <3>2. exchange' = exchange
      BY <1>1, <2>1, <3>1 DEF AcceptFrame, Offered, ExchangeInv, Exchanges
    <3>3. Accepted(m, frame) = m
      BY <3>1 DEF Accepted, AcceptResult
    <3> QED
      BY <3>2, <3>3
  <2>2. CASE exchange.state = "complete"
    <3>1. exchange' = exchange
      <4>1. ExchangeIsConsistent(exchange)
        BY <1>1, <2>2 DEF ExchangeInv, ExchangeIsConsistent, Follows
      <4>2. OfferResult(exchange, frame) = "already-complete"
        BY <2>2, <4>1 DEF OfferResult
      <4> QED
        BY <1>1, <4>2 DEF AcceptFrame, Offered
    <3>2. IsConsistent(m) /\ m.state = "complete"
      BY <1>1, <2>2, MatcherFacts DEF ExchangeInv, AsMatcher
    <3>3. Accepted(m, frame) = m
      BY <3>2 DEF Accepted, AcceptResult
    <3> QED
      BY <3>1, <3>3
  <2>3. CASE exchange.state \notin {"failed", "complete"}
    <3>1. CASE OfferResult(exchange, frame) = "ok"
      BY <1>1, <2>3, <3>1, TakenIsProgress DEF AcceptFrame, Offered
    <3>2. CASE OfferResult(exchange, frame) # "ok"
      <4>1. exchange' = [exchange EXCEPT !.state = "failed"]
        BY <1>1, <2>3, <3>2, TakenFollows DEF AcceptFrame, Offered
      <4>2. /\ exchange'.state = "failed" /\ exchange'.next = exchange.next
            /\ exchange'.pending = exchange.pending
        BY <1>1, <4>1 DEF ExchangeInv, Exchanges
      <4>3. Seen(exchange') = Seen(exchange)
        BY <4>2 DEF Seen
      <4>4. AsMatcher(exchange') = Failed(m)
        BY <4>2, <4>3 DEF AsMatcher, Failed
      <4> QED
        BY <1>1, <2>3, <3>2, <4>4, RefusedIsFailed
    <3> QED
      BY <3>1, <3>2
  <2> QED
    BY <2>1, <2>2, <2>3
<1>2. ASSUME InitializeExchange
      PROVE  AsMatcher(exchange') = Loaded(startup_first_burst)
  <2>1. 1 .. 0 = {} /\ Len(startup_first_burst) \in 1 .. MaxRoles
    BY BurstIsValid DEF ModelIsValid
  <2>2. Seen(Blank) = {} /\ Blank.next - 1 = 0 /\ Blank.state = "waiting"
    BY <2>1 DEF Seen, Blank
  <2> QED
    BY <1>2, <2>1, <2>2, BurstIsValid DEF InitializeExchange, AsMatcher, Loaded
<1>3. ExchangeInv /\ [ExchangeNext]_exchangeVars =>
        [/\ \A frame \in Inputs :
              AcceptFrame(frame) =>
                AsMatcher(exchange') = Accepted(AsMatcher(exchange), frame)
         /\ InitializeExchange =>
              AsMatcher(exchange') = Loaded(startup_first_burst)]_exchangeVars
  BY <1>1, <1>2
<1> QED
  BY <1>3, ExchangeInductive, PTL DEF ExchangeSpec, AgreesWithMatcher
=============================================================================
