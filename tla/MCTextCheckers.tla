--------------------------- MODULE MCTextCheckers ---------------------------
(* Texts for the two checkers.  Envelopes: transfers of no byte, of part of *)
(* a chunk, of several chunks; out, in and control; off the allowlist and   *)
(* over-long; every marker at every place; a malformed event; lines of no   *)
(* kind.  Transcripts: every way a line can be wrong by itself, and every   *)
(* sequence number up to one past the bound.                                *)
EXTENDS TextCheckers

Transfer(direction, transfer, endpoint, length) ==
  [type |-> "transfer", direction |-> direction, transfer |-> transfer,
   endpoint |-> endpoint, length |-> length]

Values ==
  {[type |-> "marker", marker |-> Markers[m]] : m \in DOMAIN Markers}
    \cup {[type |-> "malformed"]}
    \cup {Transfer("out", "bulk", "0x02", n) : n \in {0, 3}}
    \cup {Transfer("in", "bulk", "0x84", 5),
          Transfer("in", "bulk", "0x84", 6),
          Transfer("in", "bulk", "0x02", 1),
          Transfer("in", "control", "0x00", 1),
          Transfer("out", "control", "0x02", 1)}

\* Timestamps are compared before the value is looked at: a transfer of one
\* kind is enough to come late.
Later == {v \in Values : v.type = "marker" \/ v = Transfer("out", "bulk", "0x02", 3)}

MCLines ==
  [kind : {"header", "unknown", "overlong"}]
    \cup [kind : Preamble, valid : BOOLEAN]
    \cup [kind : {"event"}, sequence : 0 .. MaxEvents, time : {0}, value : Values]
    \cup [kind : {"event"}, sequence : 0 .. MaxEvents, time : {1}, value : Later]

MCTranscriptLines ==
  [kind : {"header", "unknown", "overlong"}]
    \cup [kind : {"origin", "device"}, valid : BOOLEAN]
    \cup [kind : {"interface"}, complete : BOOLEAN, valid : BOOLEAN,
          candidate : BOOLEAN]
    \cup [kind : {"transfer"}, complete : BOOLEAN, valid : BOOLEAN,
          sequence : 0 .. MaxObservedTransfers, length : {0, 2, MaxObservedLength + 1}]
=============================================================================
