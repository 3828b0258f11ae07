-------------------------- MODULE TransitionParser --------------------------
(***************************************************************************)
(* clean-room/transition_parser.c, over the device state machine: a parser *)
(* recognises the observed hotplug prefix or one of two hot-unplug         *)
(* profiles in a stream of transfer metadata.  It is bound to the          *)
(* generation and the epoch of an exact-verified machine, and every call   *)
(* asks again whether that binding is live.  Machines, their owner and the *)
(* dock take their steps (DockMachine) between any two calls.              *)
(*                                                                         *)
(* One PartialOrder matcher runs for every profile that is still possible. *)
(***************************************************************************)
EXTENDS DockMachine, PartialOrder, QualifiedSequences

CONSTANTS Unbound,          \* the NULL machine pointer
          SequenceOf,       \* the table of each profile
          ExpectedCount     \* how long each kind of transition is

Kinds == {"hotplug", "hotunplug"}

\* The profiles tried for each kind, in the bits of active_profile_mask.
ProfilesOf == [kind_ \in Kinds |->
                 IF kind_ = "hotplug" THEN {"hotplug-prefix"}
                 ELSE {"hotunplug-a", "hotunplug-b"}]

Profiles == UNION {ProfilesOf[k] : k \in Kinds}

ASSUME UnboundAssumption == Unbound \notin Machines
ASSUME MetadataAssumption == Transfers \subseteq Metadata
ASSUME SequenceAssumption ==
  SequenceOf \in [Profiles -> {order \in OrderRecords : ModelIsValid(order)}]
ASSUME CountAssumption ==
  /\ ExpectedCount \in [Kinds -> Nat]
  /\ \A k \in Kinds : \A p \in ProfilesOf[k] :
        Len(SequenceOf[p]) = ExpectedCount[k]

\* What the tables of qualified_sequences.c are like: every role follows the
\* one above it, and two profiles of a kind part at some role.
ASSUME ChainAssumption == \A p \in Profiles : IsChain(SequenceOf[p])
ASSUME PartAssumption ==
  \A k \in Kinds : \A p, q \in ProfilesOf[k] :
    p # q => \E r \in 1 .. ExpectedCount[k] :
               SequenceOf[p][r].takes \cap SequenceOf[q][r].takes = {}

VARIABLES parser,           \* the DBTransitionParser
          trace,            \* history: the transfers accepted since initialize
          lost              \* history: was the machine ever not exact since?

parserVars == <<parser, trace, lost>>

Parsers == [kind       : Kinds \cup {"invalid"},
            state      : {"waiting", "in-progress", "complete", "failed"},
            machine    : Machines \cup {Unbound},
            generation : 0 .. (GenMax - 1),
            epoch      : 0 .. (EpochMax - 1),
            accepted   : Nat,
            active     : SUBSET Profiles,
            candidates : [Profiles -> Matchers]]

ParserTypeOK == /\ TypeOK
                /\ parser \in Parsers
                /\ trace \in Seq(Transfers)
                /\ lost \in BOOLEAN

\* A matcher that was never initialised, in a zeroed parser.
Zeroed == [state |-> "waiting", order |-> <<>>, consumed |-> 0,
           candidates |-> {}]

\* The zeroed record of a refused initialisation: FAILED, bound to nothing.
Refused == [kind |-> "invalid", state |-> "failed", machine |-> Unbound,
            generation |-> 0, epoch |-> 0, accepted |-> 0, active |-> {},
            candidates |-> [profile \in Profiles |-> Zeroed]]
-----------------------------------------------------------------------------
(* What every call checks first.                                           *)

\* candidate_matches_progress()
MatchesProgress(matcher, p) ==
  /\ matcher.consumed = p.accepted
  /\ matcher.state = IF p.accepted = 0 THEN "waiting"
                     ELSE IF p.accepted = ExpectedCount[p.kind] THEN "complete"
                     ELSE "in-progress"

\* parser_is_consistent()
ParserIsConsistent(p) ==
  /\ p.kind \in Kinds
  /\ p.state # "failed"
  /\ p.machine # Unbound /\ p.generation # 0 /\ p.epoch # 0
  /\ p.accepted <= ExpectedCount[p.kind]
  /\ p.active # {} /\ p.active \subseteq ProfilesOf[p.kind]
  /\ \A profile \in p.active : MatchesProgress(p.candidates[profile], p)
  /\ p.state = "waiting" => p.accepted = 0
  /\ p.state = "in-progress" => p.accepted \in 1 .. (ExpectedCount[p.kind] - 1)
  /\ p.state = "complete" => p.accepted = ExpectedCount[p.kind]

\* active_matchers_validate_for_finish(): finish a copy of each matcher.
MatchersValidate(p) ==
  \A profile \in p.active :
     FinishResult(p.candidates[profile])
       = IF p.state = "complete" THEN "complete" ELSE "incomplete"

\* Seeded fault for LiveBindingIsUnbroken: the generation is not compared.
BindingByEpochAlone(p) == /\ p.machine # Unbound
                          /\ machine[p.machine].epoch = p.epoch
                          /\ fake.epoch = p.epoch
                          /\ IsExactVerified(p.machine)

\* machine_binding_is_live()
BindingIsLive(p) == /\ p.machine # Unbound
                    /\ machine[p.machine].generation = p.generation
                    /\ machine[p.machine].epoch = p.epoch
                    /\ fake.epoch = p.epoch
                    /\ IsExactVerified(p.machine)
-----------------------------------------------------------------------------
(* db_transition_parser_accept() and db_transition_parser_finish().        *)

Verdicts(p, transfer) ==
  [profile \in p.active |-> AcceptResult(p.candidates[profile], transfer)]

\* Seeded fault for ActiveIsExact: one taker keeps every profile active.
RetainsAll(p, transfer) ==
  IF \E profile \in p.active :
       Verdicts(p, transfer)[profile] \in {"ok", "complete"}
  THEN p.active ELSE {}

Retained(p, transfer) ==
  {profile \in p.active : Verdicts(p, transfer)[profile] \in {"ok", "complete"}}

AnyComplete(p, transfer) ==
  \E profile \in p.active : Verdicts(p, transfer)[profile] = "complete"

AcceptVerdict(p, transfer) ==
  IF p.state = "failed" THEN "failed"
  ELSE IF ~ParserIsConsistent(p) \/ ~MatchersValidate(p) THEN "corrupt-state"
  ELSE IF ~BindingIsLive(p) THEN "binding-lost"
  ELSE IF p.state = "complete" THEN "already-complete"
  ELSE IF transfer = NoTransfer THEN "invalid-argument"
  ELSE IF transfer = BadTransfer THEN "invalid-transfer"
  ELSE IF ~IsQualified(transfer) THEN "invalid-transfer"
  ELSE IF \E profile \in p.active :
             Verdicts(p, transfer)[profile]
               \notin {"ok", "complete", "unexpected-transfer"}
       THEN "corrupt-state"
  ELSE IF Retained(p, transfer) = {} THEN "unexpected-transfer"
  ELSE IF AnyComplete(p, transfer) # (p.accepted + 1 = ExpectedCount[p.kind])
       THEN "corrupt-state"
  ELSE IF p.accepted + 1 = ExpectedCount[p.kind] THEN "complete"
  ELSE "ok"

\* Seeded fault for ParserNeverCorrupt: the old count decides the state.
AdvanceByOldCount(p, transfer) ==
  [p EXCEPT !.state = IF p.accepted = ExpectedCount[p.kind]
                      THEN "complete" ELSE "in-progress",
            !.accepted = @ + 1,
            !.active = Retained(p, transfer),
            !.candidates = [profile \in Profiles |->
                              IF profile \in p.active
                              THEN Accepted(@[profile], transfer)
                              ELSE @[profile]]]

\* Seeded fault for CompleteNamesItsProfile: no profile is ever ruled out.
AdvanceUnnarrowed(p, transfer) ==
  [p EXCEPT !.state = IF p.accepted + 1 = ExpectedCount[p.kind]
                      THEN "complete" ELSE "in-progress",
            !.accepted = @ + 1,
            !.candidates = [profile \in Profiles |->
                              IF profile \in p.active
                              THEN Accepted(@[profile], transfer)
                              ELSE @[profile]]]

\* The parser goes on with the profiles that took the transfer.
Advance(p, transfer) ==
  [p EXCEPT !.state = IF p.accepted + 1 = ExpectedCount[p.kind]
                      THEN "complete" ELSE "in-progress",
            !.accepted = @ + 1,
            !.active = Retained(p, transfer),
            !.candidates = [profile \in Profiles |->
                              IF profile \in p.active
                              THEN Accepted(@[profile], transfer)
                              ELSE @[profile]]]

\* fail_parser(); what the matchers hold then is never looked at again.
FailParser(p) == [p EXCEPT !.state = "failed"]

FinishVerdict(p) ==
  IF p.state = "failed" THEN "failed"
  ELSE IF ~ParserIsConsistent(p) \/ ~MatchersValidate(p) THEN "corrupt-state"
  ELSE IF ~BindingIsLive(p) THEN "binding-lost"
  ELSE IF p.state = "complete" THEN "complete"
  ELSE "incomplete"

\* db_transition_parser_observed_profile()
ObservedProfile(p) ==
  IF /\ p.state = "complete" /\ ParserIsConsistent(p) /\ MatchersValidate(p)
     /\ BindingIsLive(p)
     /\ \E profile \in Profiles : p.active = {profile}
  THEN CHOOSE profile \in Profiles : p.active = {profile}
  ELSE "none"
-----------------------------------------------------------------------------
\* lost remembers every moment at which the bound machine was not exact.
WatchMachine == lost' = (lost \/ ~(IF parser.machine = Unbound THEN FALSE
                                   ELSE IsExactVerified(parser.machine)'))

ParserInit == Init /\ parser = Refused /\ trace = <<>> /\ lost = TRUE

\* A kind there is no profile for, no machine, or one that is not exact.
InitializeRefused(kind_, m) ==
  /\ kind_ \in Kinds /\ m # Unbound => ~IsExactVerified(m)
  /\ parser' = Refused /\ trace' = <<>> /\ lost' = TRUE
  /\ UNCHANGED vars

InitializeParser(kind_, m) ==
  /\ IsExactVerified(m)
  /\ parser' = [kind       |-> kind_,
                state      |-> "waiting",
                machine    |-> m,
                generation |-> machine[m].generation,
                epoch      |-> machine[m].epoch,
                accepted   |-> 0,
                active     |-> ProfilesOf[kind_],
                candidates |-> [profile \in Profiles |->
                                  IF profile \in ProfilesOf[kind_]
                                  THEN Loaded(SequenceOf[profile])
                                  ELSE Zeroed]]
  /\ trace' = <<>> /\ lost' = FALSE
  /\ UNCHANGED vars

AcceptTransfer(transfer) ==
  /\ AcceptVerdict(parser, transfer) \in {"ok", "complete"}
  /\ parser' = Advance(parser, transfer)
  /\ trace' = Append(trace, transfer)
  /\ UNCHANGED <<vars, lost>>

RefuseTransfer(transfer) ==
  /\ AcceptVerdict(parser, transfer)
       \notin {"ok", "complete", "failed", "already-complete"}
  /\ parser' = FailParser(parser)
  /\ UNCHANGED <<vars, trace, lost>>

FinishParser ==
  /\ FinishVerdict(parser) \notin {"failed", "complete"}
  /\ parser' = FailParser(parser)
  /\ UNCHANGED <<vars, trace, lost>>

MachineStep == /\ Next
               /\ UNCHANGED <<parser, trace>>
               /\ WatchMachine

Asked == Kinds \cup {"invalid"}

ParserNext == \/ \E kind_ \in Asked, m \in Machines \cup {Unbound} :
                    InitializeRefused(kind_, m)
              \/ \E kind_ \in Kinds, m \in Machines : InitializeParser(kind_, m)
              \/ \E transfer \in Inputs : AcceptTransfer(transfer)
              \/ \E transfer \in Inputs : RefuseTransfer(transfer)
              \/ FinishParser
              \/ MachineStep

ParserSpec == ParserInit /\ [][ParserNext]_<<vars, parserVars>>
-----------------------------------------------------------------------------
(* Properties.                                                             *)

\* When the binding check passes, the machine has been exact-verified at
\* every moment since the parser was bound to it: no unplug and replug, no
\* close and open by a neighbour, no new attachment of the same machine went
\* by between two calls.
LiveBindingIsUnbroken ==
  parser.state # "failed" /\ BindingIsLive(parser) => ~lost

\* The active profiles are exactly those whose table explains the whole
\* trace: a profile that was ruled out does not come back, and no hybrid of
\* two profiles is ever accepted.
ActiveIsExact ==
  parser.state # "failed" =>
    parser.active = {profile \in ProfilesOf[parser.kind] :
                       Explanations(SequenceOf[profile], trace) # {}}

\* The parser keeps its type, and its own and its matchers' self-checks hold
\* on every live parser.
ParserNeverCorrupt ==
  /\ ParserTypeOK
  /\ parser.state # "failed" =>
       /\ ParserIsConsistent(parser) /\ MatchersValidate(parser)
       /\ \A transfer \in Inputs : AcceptVerdict(parser, transfer) # "corrupt-state"

\* A completed parser on a live binding names one profile, after exactly as
\* many transfers as that profile has roles.
CompleteNamesItsProfile ==
  parser.state = "complete" /\ BindingIsLive(parser) =>
    \E profile \in ProfilesOf[parser.kind] :
       ObservedProfile(parser) = profile /\ Len(trace) = Len(SequenceOf[profile])

\* For tables in which every role follows the one above it, as the observed
\* ones do: the active profiles are those the trace follows line by line.
Follows(profile) ==
  /\ Len(trace) <= Len(SequenceOf[profile])
  /\ \A i \in 1 .. Len(trace) : trace[i] \in SequenceOf[profile][i].takes

NoHybrid ==
  parser.state # "failed" =>
    parser.active = {profile \in ProfilesOf[parser.kind] : Follows(profile)}
=============================================================================
