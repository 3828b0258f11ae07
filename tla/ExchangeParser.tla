--------------------------- MODULE ExchangeParser ---------------------------
(***************************************************************************)
(* clean-room/exchange_parser.c: the parser of the start-up burst, written *)
(* by hand around a table of its own, before the generic matcher existed.  *)
(* It walks the table by index and knows the one place where two inbound   *)
(* roles may come in either order.                                         *)
(*                                                                         *)
(* A frame is the transfer it is seen as: NoTransfer for no bytes or no    *)
(* length, BadTransfer for an inbound header that does not declare the     *)
(* length, a transfer that is not plain for one on another endpoint.       *)
(* Indices count from 1: frame_index 9 of the code is role 10 here.        *)
(***************************************************************************)
EXTENDS PartialOrder, QualifiedSequences

VARIABLES exchange,     \* the DBExchangeParser
          answer,       \* what the last call returned
          offered       \* history: the frames offered, up to the first refused

exchangeVars == <<exchange, answer, offered>>

FrameCount == 15                \* DB_EXCHANGE_PHASE_A_FRAME_COUNT
MaxFrameSize == 1024            \* DB_EXCHANGE_MAX_FRAME_SIZE
SwapFirst == 10                 \* DB_EXCHANGE_SWAP_FIRST_ROLE_INDEX + 1
SwapSecond == 11                \* DB_EXCHANGE_SWAP_SECOND_ROLE_INDEX + 1

phase_a_shape ==
  <<Out(16), Out(32), Out(80), In(39), Out(48), In(38), Out(64), In(38),
    Out(64), In(38), In(549), In(31), Out(176), In(38), In(34)>>

\* The burst is made of valid transfers, and fits a matcher's table: its 15
\* roles are fewer than DB_PARTIAL_ORDER_MAX_ROLES.
ASSUME BurstAssumption ==
  /\ \A r \in 1 .. FrameCount : phase_a_shape[r] \in Transfers
  /\ FrameCount <= MaxRoles

Variants == {"undecided", "canonical", "swapped"}

Exchanges == [state : {"waiting", "in-progress", "complete", "failed"},
              next : 1 .. (FrameCount + 1), variant : Variants,
              pending : BOOLEAN]

ExchangeResults == {"ok", "invalid-argument", "invalid-frame",
                    "unexpected-frame", "already-complete"}
-----------------------------------------------------------------------------
\* parser_progress_is_consistent()
ProgressIsConsistent(x) ==
  /\ x.next <= SwapFirst => x.variant = "undecided" /\ ~x.pending
  /\ x.next = SwapSecond =>
       \/ x.variant = "canonical" /\ ~x.pending
       \/ x.variant = "swapped" /\ x.pending
  /\ x.next > SwapSecond => x.variant # "undecided" /\ ~x.pending

\* parser_is_consistent()
ExchangeIsConsistent(x) ==
  /\ ProgressIsConsistent(x)
  /\ x.state = "waiting" => x.next = 1
  /\ x.state = "in-progress" => x.next \in 2 .. FrameCount
  /\ x.state = "complete" => x.next = FrameCount + 1

MatchesRole(r, frame) == frame = phase_a_shape[r]

\* db_exchange_validate_frame(); the length is looked at before the header.
FrameResult(frame) ==
  IF frame = NoTransfer THEN "invalid-argument"
  ELSE IF frame = BadTransfer THEN "invalid-frame"
  ELSE IF frame.length > MaxFrameSize THEN "invalid-argument"
  ELSE IF ~frame.plain THEN "invalid-frame"
  ELSE IF frame.direction = "out" /\ frame.length % 16 # 0 THEN "invalid-frame"
  ELSE "ok"

\* Seeded fault for AliveMeansObserved: the second of the pair may repeat.
ExpectedRolesForgetful(x) ==
  IF x.next = SwapFirst THEN {SwapFirst, SwapSecond} ELSE {x.next}

\* Seeded fault for AgreesWithMatcher: only the canonical order is known.
ExpectedRolesCanonical(x) == {x.next}

\* The roles the next frame may play.
ExpectedRoles(x) ==
  IF x.next = SwapFirst THEN {SwapFirst, SwapSecond}
  ELSE IF x.next = SwapSecond /\ x.variant = "swapped" THEN {SwapFirst}
  ELSE {x.next}

OfferResult(x, frame) ==
  IF ~ExchangeIsConsistent(x) \/ x.state = "failed" THEN "invalid-argument"
  ELSE IF x.state = "complete" THEN "already-complete"
  ELSE IF FrameResult(frame) # "ok" THEN FrameResult(frame)
  ELSE IF \A r \in ExpectedRoles(x) : ~MatchesRole(r, frame)
       THEN "unexpected-frame"
  ELSE "ok"

\* Seeded fault for NeverInconsistent: the pair stays pending.
WithFrameStillPending(x, frame) ==
  [state   |-> IF x.next = FrameCount THEN "complete" ELSE "in-progress",
   next    |-> x.next + 1,
   variant |-> IF x.next # SwapFirst THEN x.variant
               ELSE IF MatchesRole(SwapFirst, frame) THEN "canonical"
               ELSE "swapped",
   pending |-> x.pending \/ (x.next = SwapFirst /\ ~MatchesRole(SwapFirst, frame))]

\* The variant is decided by the frame that comes tenth; the pair is pending
\* from then until the frame that comes eleventh.
WithFrame(x, frame) ==
  [state   |-> IF x.next = FrameCount THEN "complete" ELSE "in-progress",
   next    |-> x.next + 1,
   variant |-> IF x.next # SwapFirst THEN x.variant
               ELSE IF MatchesRole(SwapFirst, frame) THEN "canonical"
               ELSE "swapped",
   pending |-> x.next = SwapFirst /\ ~MatchesRole(SwapFirst, frame)]

Offered(x, frame) ==
  CASE OfferResult(x, frame) = "ok" -> WithFrame(x, frame)
    [] OfferResult(x, frame) = "already-complete" -> x
    [] OTHER -> [x EXCEPT !.state = "failed"]

Blank == [state |-> "waiting", next |-> 1, variant |-> "undecided",
          pending |-> FALSE]
-----------------------------------------------------------------------------
ExchangeInit == exchange = Blank /\ answer = "ok" /\ offered = <<>>

InitializeExchange == exchange' = Blank /\ offered' = <<>> /\ UNCHANGED answer

\* db_exchange_parser_accept()
AcceptFrame(frame) ==
  /\ answer' = OfferResult(exchange, frame)
  /\ exchange' = Offered(exchange, frame)
  /\ offered' = IF exchange.state \in {"failed", "complete"}
                THEN offered ELSE Append(offered, frame)

ExchangeNext == InitializeExchange \/ \E frame \in Inputs : AcceptFrame(frame)

ExchangeSpec == ExchangeInit /\ [][ExchangeNext]_exchangeVars
-----------------------------------------------------------------------------
(* Properties.                                                             *)

\* The two orders the burst was observed in, written out.
ObservedOrders ==
  {phase_a_shape,
   [i \in 1 .. FrameCount |->
      phase_a_shape[CASE i = SwapFirst -> SwapSecond
                      [] i = SwapSecond -> SwapFirst
                      [] OTHER -> i]]}

\* The parser is alive exactly while the frames offered to it begin one of
\* the two observed orders, it has counted them all, and the order variant it
\* reports is the order they came in.
AliveMeansObserved ==
  /\ exchange.state # "failed" <=>
       \E order \in ObservedOrders :
          Len(offered) <= FrameCount /\ \A i \in DOMAIN offered : offered[i] = order[i]
  /\ exchange.state # "failed" => exchange.next = Len(offered) + 1
  /\ exchange.state # "failed" /\ Len(offered) >= SwapFirst =>
       (exchange.variant = "swapped" <=> offered[SwapFirst] = In(549))

\* A record that only the parser's own calls have touched keeps its type, and
\* the self-check in front of every call, also on a failed parser, never fires.
NeverInconsistent == /\ exchange \in Exchanges /\ answer \in ExchangeResults
                     /\ ProgressIsConsistent(exchange)
                     /\ ExchangeIsConsistent(exchange)

\* The parser's record as the generic matcher would hold it: the roles it
\* has seen, in the table of qualified_sequences.c.
Seen(x) == IF x.pending THEN (1 .. SwapSecond) \ {SwapFirst} ELSE 1 .. (x.next - 1)

AsMatcher(x) == [state |-> x.state, order |-> startup_first_burst,
                 consumed |-> x.next - 1, candidates |-> {Seen(x)}]

\* The two descriptions of the start-up burst agree step by step: every frame
\* takes the hand-written parser where it takes a generic matcher loaded with
\* the qualified table, and both refuse the same frames.
AgreesWithMatcher ==
  [][/\ \A frame \in Inputs :
          AcceptFrame(frame) =>
            AsMatcher(exchange') = Accepted(AsMatcher(exchange), frame)
     /\ InitializeExchange => AsMatcher(exchange') = Loaded(startup_first_burst)]_exchangeVars
=============================================================================
