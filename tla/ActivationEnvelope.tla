------------------------- MODULE ActivationEnvelope -------------------------
(***************************************************************************)
(* clean-room/activation_model.c: the parser of activation envelopes, as   *)
(* operators on the record that db_activation_parse() builds line by line. *)
(*                                                                         *)
(* A line is what its tokens make of it.  Blank lines and comments are     *)
(* skipped before anything looks at them and do not appear.  A line with   *)
(* too many fields, or whose first word is none of the five, is "unknown"; *)
(* a line longer than the buffer is "overlong".  A preamble line is valid  *)
(* when its fields name a known origin, the one device, a known action.    *)
(* The value of an event is a marker, the metadata of a transfer, or       *)
(* "malformed": a field is missing, left over or no number.                *)
(*                                                                         *)
(* Three of the parser's locals are not kept: expected_sequence is the     *)
(* number of events, previous_timestamp and timestamp_seen are the last.   *)
(***************************************************************************)
EXTENDS Naturals, Sequences

CONSTANTS MaxEvents,            \* DB_ACTIVATION_MAX_EVENTS
          MaxTransferLength,    \* DB_ACTIVATION_MAX_TRANSFER_LENGTH
          MaxTotalBytes         \* DB_ACTIVATION_MAX_TOTAL_BYTES

\* The byte bound is subtracted from, and must not go below zero.
ASSUME BoundsAssumption ==
  /\ MaxEvents \in Nat /\ MaxTransferLength \in Nat /\ MaxTotalBytes \in Nat
  /\ MaxTransferLength <= MaxTotalBytes

Markers == <<"capture-start", "action-issued", "output-stable", "capture-end">>

Is(e, marker) == e.value.type = "marker" /\ e.value.marker = marker

IsTransfer(e) == e.value.type = "transfer"

\* transfer_is_allowlisted()
TransferIsAllowlisted(t) ==
  \/ t.transfer = "control" /\ t.endpoint = "0x00"
  \/ t.transfer = "bulk" /\ t.direction = "out" /\ t.endpoint = "0x02"
  \/ t.transfer = "bulk" /\ t.direction = "in" /\ t.endpoint = "0x84"
-----------------------------------------------------------------------------
(* The parser's record: what has been seen of the preamble, the events, the*)
(* counts of the activation window, the two event indices (from 0), and    *)
(* the locals expected_marker (0 after the last one) and activation_window.*)

Preamble == {"origin", "device", "action"}

BlankEnvelope ==
  [header |-> FALSE, preamble |-> {}, events |-> <<>>,
   windowTransfers |-> 0, windowBytes |-> 0,
   actionIndex |-> 0, stableIndex |-> 0,
   expectedMarker |-> 1, inWindow |-> FALSE]

\* advance_marker()
MarkerAfter(m) == IF m < Len(Markers) THEN m + 1 ELSE 0

MarkerOutcome(env, e) ==
  IF env.expectedMarker # 0 /\ Is(e, Markers[env.expectedMarker])
  THEN "ok" ELSE "format-error"

TransferOutcome(env, e) ==
  IF \/ env.expectedMarker \in {0, 1}
     \/ e.value.length > MaxTransferLength
     \/ ~TransferIsAllowlisted(e.value)
  THEN "format-error"
  ELSE IF env.inWindow /\ env.windowBytes > MaxTotalBytes - e.value.length
  THEN "bounds-error"
  ELSE "ok"

IsNext(env, e) ==
  LET count == Len(env.events)
  IN  /\ e.sequence = count
      /\ count > 0 => e.time >= env.events[count].time

EventOutcome(env, e) ==
  IF env.preamble # Preamble THEN "format-error"
  ELSE IF Len(env.events) >= MaxEvents THEN "bounds-error"
  ELSE IF ~IsNext(env, e) THEN "format-error"
  ELSE CASE e.value.type = "marker" -> MarkerOutcome(env, e)
         [] e.value.type = "transfer" -> TransferOutcome(env, e)
         [] OTHER -> "format-error"

PreambleOutcome(env, line) ==
  IF env.events = <<>> /\ line.kind \notin env.preamble /\ line.valid
  THEN "ok" ELSE "format-error"

\* One round of the loop of db_activation_parse(): what it returns, "ok" when
\* it reads on.
LineOutcome(env, line) ==
  CASE line.kind = "overlong" -> "bounds-error"
    [] line.kind = "header" -> IF env.header THEN "format-error" ELSE "ok"
    [] line.kind \in Preamble /\ env.header -> PreambleOutcome(env, line)
    [] line.kind = "event" /\ env.header -> EventOutcome(env, line)
    [] OTHER -> "format-error"

\* Seeded fault for ParsesTheGrammar: the window is never left.
WithMarkerStillInWindow(env, e) ==
  [env EXCEPT
     !.events = Append(@, e),
     !.expectedMarker = MarkerAfter(@),
     !.actionIndex = IF Is(e, "action-issued") THEN Len(env.events) ELSE @,
     !.stableIndex = IF Is(e, "output-stable") THEN Len(env.events) ELSE @,
     !.inWindow = @ \/ Is(e, "action-issued")]

WithMarker(env, e) ==
  [env EXCEPT
     !.events = Append(@, e),
     !.expectedMarker = MarkerAfter(@),
     !.actionIndex = IF Is(e, "action-issued") THEN Len(env.events) ELSE @,
     !.stableIndex = IF Is(e, "output-stable") THEN Len(env.events) ELSE @,
     !.inWindow = Is(e, "action-issued") \/ (@ /\ ~Is(e, "output-stable"))]

WithTransfer(env, e) ==
  [env EXCEPT
     !.events = Append(@, e),
     !.windowTransfers = IF env.inWindow THEN @ + 1 ELSE @,
     !.windowBytes = IF env.inWindow THEN @ + e.value.length ELSE @]

\* The record after a line whose outcome is "ok".
WithLine(env, line) ==
  CASE line.kind = "header" -> [env EXCEPT !.header = TRUE]
    [] line.kind \in Preamble -> [env EXCEPT !.preamble = @ \cup {line.kind}]
    [] line.kind = "event" /\ ~IsTransfer(line) -> WithMarker(env, line)
    [] line.kind = "event" /\ IsTransfer(line) -> WithTransfer(env, line)

\* The judgement at the end of the text.
EndOutcome(env) ==
  IF /\ env.header /\ env.preamble = Preamble
     /\ env.expectedMarker = 0
     /\ Len(env.events) >= 4
     /\ Is(env.events[1], "capture-start")
     /\ Is(env.events[Len(env.events)], "capture-end")
     /\ env.windowTransfers # 0
  THEN "ok" ELSE "format-error"
=============================================================================
