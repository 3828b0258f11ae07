-------------------------- MODULE ObservationModel --------------------------
(***************************************************************************)
(* clean-room/observation_model.c: the parser of observation transcripts,  *)
(* in the program transcript_check.c that prints a summary of one.         *)
(*                                                                         *)
(* A line is what its tokens make of it, as in ActivationEnvelope.  It is  *)
(* "complete" when it has the right number of fields, and "valid" when     *)
(* every field taken by itself is one that the parser takes.  A line with  *)
(* too many fields, or of none of the five kinds, is "unknown".            *)
(*                                                                         *)
(* expected_sequence is the number of transfers.  The byte total cannot    *)
(* reach SIZE_MAX with the limits there are.                               *)
(***************************************************************************)
EXTENDS Naturals, Sequences, FiniteSets, Totals

CONSTANTS TranscriptLines,      \* the lines a transcript may hold
          MaxInterfaces,        \* DB_OBSERVATION_MAX_INTERFACES
          MaxObservedTransfers, \* DB_OBSERVATION_MAX_TRANSFERS
          MaxObservedLength     \* DB_OBSERVATION_MAX_TRANSFER_LENGTH

ASSUME TranscriptAssumption ==
  /\ MaxInterfaces \in Nat /\ MaxObservedTransfers \in Nat /\ MaxObservedLength \in Nat
  /\ TranscriptLines \subseteq
       [kind : {"header", "unknown", "overlong"}]
         \cup [kind : {"origin", "device"}, valid : BOOLEAN]
         \cup [kind : {"interface"}, complete : BOOLEAN, valid : BOOLEAN,
               candidate : BOOLEAN]
         \cup [kind : {"transfer"}, complete : BOOLEAN, valid : BOOLEAN,
               sequence : Nat, length : Nat]

VARIABLES verdict,      \* "reading", or what the parser returned
          parsed,       \* the parser's flags and its local summary
          printed,      \* the summary that the program prints
          accepted      \* history: the lines read so far

transcriptVars == <<verdict, parsed, printed, accepted>>

Nothing == [header |-> FALSE, origin |-> FALSE, device |-> FALSE,
            interfaces |-> 0, transfers |-> 0, bytes |-> 0, candidate |-> FALSE]

TranscriptInit == /\ verdict = "reading" /\ parsed = Nothing
                  /\ printed = Nothing /\ accepted = <<>>
-----------------------------------------------------------------------------
(* One round of the loop of db_observation_parse(): what it returns, "ok"  *)
(* when it reads on, and what it has parsed then.                          *)

InterfaceOutcome(p, line) ==
  IF ~line.complete \/ ~p.device THEN "format-error"
  ELSE IF p.interfaces >= MaxInterfaces \/ ~line.valid THEN "bounds-error"
  ELSE "ok"

\* Seeded fault for TranscriptsAreParsed: any sequence number is taken.
AnySequenceOutcome(p, line) ==
  IF ~line.complete THEN "format-error"
  ELSE IF \/ ~p.device \/ ~line.valid \/ line.length > MaxObservedLength
          \/ p.transfers >= MaxObservedTransfers
  THEN "bounds-error"
  ELSE "ok"

MetadataOutcome(p, line) ==
  IF ~line.complete THEN "format-error"
  ELSE IF \/ ~p.device \/ ~line.valid
          \/ line.sequence # p.transfers
          \/ line.length > MaxObservedLength
          \/ p.transfers >= MaxObservedTransfers
  THEN "bounds-error"
  ELSE "ok"

TranscriptOutcome(p, line) ==
  CASE line.kind = "overlong" -> "bounds-error"
    [] line.kind = "header" /\ ~p.header -> "ok"
    [] line.kind = "origin" /\ p.header /\ ~p.origin /\ line.valid -> "ok"
    [] line.kind = "device" /\ p.header /\ ~p.device /\ line.valid -> "ok"
    [] line.kind = "interface" /\ p.header -> InterfaceOutcome(p, line)
    [] line.kind = "transfer" /\ p.header -> MetadataOutcome(p, line)
    [] OTHER -> "format-error"

WithTranscriptLine(p, line) ==
  CASE line.kind = "header" -> [p EXCEPT !.header = TRUE]
    [] line.kind = "origin" -> [p EXCEPT !.origin = TRUE]
    [] line.kind = "device" -> [p EXCEPT !.device = TRUE]
    [] line.kind = "interface" -> [p EXCEPT !.interfaces = @ + 1,
                                            !.candidate = @ \/ line.candidate]
    [] line.kind = "transfer" -> [p EXCEPT !.transfers = @ + 1,
                                           !.bytes = @ + line.length]

Required(p) == p.header /\ p.origin /\ p.device /\ p.interfaces # 0
-----------------------------------------------------------------------------
(* The program.                                                            *)

RefuseTranscript(refusal) ==
  /\ verdict' = refusal /\ parsed' = Nothing
  /\ accepted' = <<>> /\ UNCHANGED printed

ReadTranscriptLine(line) ==
  /\ verdict = "reading"
  /\ IF TranscriptOutcome(parsed, line) = "ok"
     THEN /\ parsed' = WithTranscriptLine(parsed, line)
          /\ accepted' = Append(accepted, line)
          /\ UNCHANGED <<verdict, printed>>
     ELSE RefuseTranscript(TranscriptOutcome(parsed, line))

TranscriptReadFails == verdict = "reading" /\ RefuseTranscript("io-error")

\* The summary is handed out, and printed, only when all is well.
EndOfTranscript ==
  /\ verdict = "reading"
  /\ IF Required(parsed)
     THEN /\ verdict' = "ok" /\ printed' = parsed
          /\ UNCHANGED <<parsed, accepted>>
     ELSE RefuseTranscript("format-error")

TranscriptNext == \/ \E line \in TranscriptLines : ReadTranscriptLine(line)
                  \/ TranscriptReadFails \/ EndOfTranscript
-----------------------------------------------------------------------------
(* Properties.                                                             *)

At(ls, kind) == {i \in DOMAIN ls : ls[i].kind = kind}

\* A list of lines that a transcript may begin with.
ViableTranscript(ls) ==
  /\ At(ls, "header") \subseteq {1} /\ (ls # <<>> => ls[1].kind = "header")
  /\ At(ls, "overlong") \cup At(ls, "unknown") = {}
  /\ \A k \in {"origin", "device"} : Cardinality(At(ls, k)) <= 1
  /\ \A i \in At(ls, "origin") \cup At(ls, "device") : ls[i].valid
  /\ \A i \in At(ls, "interface") \cup At(ls, "transfer") :
       ls[i].complete /\ ls[i].valid /\ \E j \in At(ls, "device") : j < i
  /\ \A i \in At(ls, "transfer") :
       /\ ls[i].length <= MaxObservedLength
       /\ ls[i].sequence = Cardinality({j \in At(ls, "transfer") : j < i})
  /\ Cardinality(At(ls, "interface")) <= MaxInterfaces
  /\ Cardinality(At(ls, "transfer")) <= MaxObservedTransfers

CompleteTranscript(ls) ==
  /\ ViableTranscript(ls)
  /\ \A k \in {"header", "origin", "device", "interface"} : At(ls, k) # {}

\* The counts that a list of lines really has.
SummaryOf(ls) ==
  [header     |-> At(ls, "header") # {},
   origin     |-> At(ls, "origin") # {},
   device     |-> At(ls, "device") # {},
   interfaces |-> Cardinality(At(ls, "interface")),
   transfers  |-> Cardinality(At(ls, "transfer")),
   bytes      |-> Total([i \in DOMAIN ls |-> IF ls[i].kind = "transfer"
                                       THEN ls[i].length ELSE 0]),
   candidate  |-> \E i \in At(ls, "interface") : ls[i].candidate]

\* The parser, which keeps flags and counters, reads on exactly while the lines
\* so far can begin a transcript, accepts at the end exactly the complete ones,
\* and a summary is printed exactly then and is that of the whole text.
TranscriptsAreParsed ==
  /\ verdict = "reading" =>
       /\ ViableTranscript(accepted)
       /\ \A line \in TranscriptLines :
            TranscriptOutcome(parsed, line) = "ok"
              <=> ViableTranscript(Append(accepted, line))
       /\ Required(parsed) <=> CompleteTranscript(accepted)
  /\ verdict = "ok" => CompleteTranscript(accepted)
  /\ printed = IF verdict = "ok" THEN SummaryOf(accepted) ELSE Nothing
=============================================================================
