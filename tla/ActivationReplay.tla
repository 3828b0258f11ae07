-------------------------- MODULE ActivationReplay --------------------------
(***************************************************************************)
(* clean-room/activation_replay.c, in the program activation_check.c that  *)
(* parses an envelope and then, when asked to, replays it: every bulk      *)
(* transfer of the activation window is cut into chunks, and each chunk is *)
(* pushed into one ring of a fake transport and taken out at its far end.  *)
(***************************************************************************)
EXTENDS ActivationEnvelope, TransportOps, FiniteSets, Totals

CONSTANT Lines          \* the lines a file may hold, see ActivationEnvelope

\* The value of an event that parses is a marker or a transfer.
EventValues ==
  [type : {"malformed"}]
    \cup [type : {"marker"}, marker : STRING]
    \cup [type : {"transfer"}, direction : STRING, transfer : STRING,
          endpoint : STRING, length : Nat]

ASSUME LinesAssumption ==
  Lines \subseteq
    [kind : {"header", "unknown", "overlong"}]
      \cup [kind : Preamble, valid : BOOLEAN]
      \cup [kind : {"event"}, sequence : Nat, time : Nat, value : EventValues]

VARIABLES phase,        \* where the program stands, or how it ended
          envelope,     \* the DBActivationEnvelope under construction
          fake,         \* the replay's DBFakeTransport
          index,        \* the event the replay is at, counted from 0
          remaining,    \* what is left of that event's transfer
          report        \* the counts of the replay

vars == <<phase, envelope, fake, index, remaining, report>>

replayVars == <<fake, index, remaining, report>>

Refusals == {"format-error", "bounds-error", "io-error"}

Failures == {"invalid-argument", "transport-error", "invariant-error"}

NoReport == [bulk |-> 0, control |-> 0, zero |-> 0, packets |-> 0,
             out |-> 0, in |-> 0]

Init == /\ phase = "reading" /\ envelope = BlankEnvelope
        /\ fake = Fresh(1) /\ index = 0 /\ remaining = 0 /\ report = NoReport
-----------------------------------------------------------------------------
(* db_activation_parse().                                                  *)

\* The record built so far is dropped; the caller's is not written.
Refuse(refusal) == phase' = refusal /\ envelope' = BlankEnvelope

ReadLine(line) ==
  /\ phase = "reading"
  /\ IF LineOutcome(envelope, line) = "ok"
     THEN envelope' = WithLine(envelope, line) /\ UNCHANGED phase
     ELSE Refuse(LineOutcome(envelope, line))
  /\ UNCHANGED replayVars

EndOfText ==
  /\ phase = "reading"
  /\ IF EndOutcome(envelope) = "ok"
     THEN phase' = "accepted" /\ UNCHANGED envelope
     ELSE Refuse(EndOutcome(envelope))
  /\ UNCHANGED replayVars

\* fgets() gives up on the file; ferror() is asked after the loop.
ReadFails ==
  /\ phase = "reading"
  /\ Refuse("io-error")
  /\ UNCHANGED replayVars
-----------------------------------------------------------------------------
(* db_activation_replay_fake().                                            *)

BeginReplay ==
  /\ phase = "accepted"
  /\ IF \/ envelope.actionIndex >= envelope.stableIndex
        \/ envelope.stableIndex >= Len(envelope.events)
     THEN phase' = "invalid-argument" /\ UNCHANGED replayVars
     ELSE /\ phase' = IF OpenResult(fake) = "ok" THEN "replaying"
                      ELSE "transport-error"
          /\ fake' = Opened(fake)
          /\ index' = envelope.actionIndex + 1
          /\ UNCHANGED <<remaining, report>>
  /\ UNCHANGED envelope

Value == envelope.events[index + 1].value

AtTransfer == phase = "replaying" /\ remaining = 0 /\ index < envelope.stableIndex

Fail(failure) ==
  /\ phase' = failure
  /\ fake' = Closed(fake)
  /\ UNCHANGED <<envelope, index, remaining, report>>

\* Seeded fault for ReportMatchesWindow: an empty transfer is no bulk transfer.
EnterTransferUnlessEmpty ==
  /\ AtTransfer
  /\ IF \/ Value.type # "transfer"
        \/ Value.transfer = "bulk" /\ ~TransferIsAllowlisted(Value)
     THEN Fail("invariant-error")
     ELSE /\ UNCHANGED <<phase, envelope, fake>>
          /\ IF Value.transfer = "control"
             THEN /\ report' = [report EXCEPT !.control = @ + 1]
                  /\ index' = index + 1 /\ UNCHANGED remaining
             ELSE IF Value.length = 0
             THEN /\ report' = [report EXCEPT !.zero = @ + 1]
                  /\ index' = index + 1 /\ UNCHANGED remaining
             ELSE /\ report' = [report EXCEPT !.bulk = @ + 1]
                  /\ remaining' = Value.length /\ UNCHANGED index

\* The head of the loop: control transfers are counted and skipped, a bulk
\* transfer of no bytes is counted twice and skipped.
EnterTransfer ==
  /\ AtTransfer
  /\ IF \/ Value.type # "transfer"
        \/ Value.transfer = "bulk" /\ ~TransferIsAllowlisted(Value)
     THEN Fail("invariant-error")
     ELSE /\ UNCHANGED <<phase, envelope, fake>>
          /\ IF Value.transfer = "control"
             THEN /\ report' = [report EXCEPT !.control = @ + 1]
                  /\ index' = index + 1 /\ UNCHANGED remaining
             ELSE IF Value.length = 0
             THEN /\ report' = [report EXCEPT !.bulk = @ + 1, !.zero = @ + 1]
                  /\ index' = index + 1 /\ UNCHANGED remaining
             ELSE /\ report' = [report EXCEPT !.bulk = @ + 1]
                  /\ remaining' = Value.length /\ UNCHANGED index

\* Seeded fault for ReplaySucceeds: a transfer goes through in one piece.
WholeRest == remaining

Chunk == IF remaining < MaxChunk THEN remaining ELSE MaxChunk

\* The ring a chunk goes through, and the two calls on it: write and
\* take_outbound, or inject_inbound and read, into a buffer of MaxChunk.
Ring == IF Value.direction = "out" THEN fake.hostToDock ELSE fake.dockToHost

FirstCall ==
  IF Value.direction = "out"
  THEN Then(LinkResult(fake, "0x02", "0x02", Chunk), PushResult(Ring, Chunk))
  ELSE Then(Plugged(fake), PushResult(Ring, Chunk))

SecondCall ==
  IF Value.direction = "out"
  THEN Then(Plugged(fake), PopResult(Pushed(Ring, Chunk), MaxChunk))
  ELSE Then(LinkResult(fake, "0x84", "0x84", MaxChunk),
            PopResult(Pushed(Ring, Chunk), MaxChunk))

\* replay_chunk() and the counting after it.
ReplayChunk ==
  /\ phase = "replaying" /\ remaining > 0
  /\ IF Then(FirstCall, SecondCall) # "ok" THEN Fail("transport-error")
     ELSE IF Front(Pushed(Ring, Chunk)) # Chunk THEN Fail("invariant-error")
     ELSE /\ LET ring == Popped(Pushed(Ring, Chunk))
             IN  IF Value.direction = "out"
                 THEN /\ fake' = [fake EXCEPT !.hostToDock = ring]
                      /\ report' = [report EXCEPT !.packets = @ + 1,
                                                  !.out = @ + Chunk]
                 ELSE /\ fake' = [fake EXCEPT !.dockToHost = ring]
                      /\ report' = [report EXCEPT !.packets = @ + 1,
                                                  !.in = @ + Chunk]
          /\ remaining' = remaining - Chunk
          /\ index' = IF remaining' = 0 THEN index + 1 ELSE index
          /\ UNCHANGED <<phase, envelope>>

\* The report is handed out, and only now.
EndReplay ==
  /\ phase = "replaying" /\ remaining = 0 /\ index >= envelope.stableIndex
  /\ phase' = "replayed"
  /\ fake' = Closed(fake)
  /\ UNCHANGED <<envelope, index, remaining, report>>

ReplayStep == EnterTransfer \/ ReplayChunk \/ EndReplay

Next == \/ \E line \in Lines : ReadLine(line)
        \/ EndOfText \/ ReadFails
        \/ BeginReplay \/ ReplayStep

\* The replay is a plain loop of one thread: it goes on while it can.  Nothing
\* is asked of the file, or of whoever asks for the replay.
Spec == Init /\ [][Next]_vars /\ WF_vars(ReplayStep)
-----------------------------------------------------------------------------
(* Properties.                                                             *)

\* The grammar of the events of an envelope, over a whole list of them.
Where(es, marker) == {i \in DOMAIN es : Is(es[i], marker)}

\* The positions after one marker and before another; up to the end of the
\* list when the other has not come.
Between(es, first, last) == {i \in DOMAIN es : /\ \E a \in Where(es, first) : a < i
                                              /\ \A b \in Where(es, last) : i < b}

Window(es) == {i \in Between(es, "action-issued", "output-stable") : IsTransfer(es[i])}

Bytes(es, positions) ==
  Total([i \in DOMAIN es |-> IF i \in positions THEN es[i].value.length ELSE 0])

MarkerIsRight(es, i, m) ==
  /\ Where(es, Markers[m]) = {i}
  /\ \A k \in 1 .. (m - 1) : \E j \in 1 .. (i - 1) : Is(es[j], Markers[k])

TransferIsRight(es, i) ==
  /\ TransferIsAllowlisted(es[i].value)
  /\ es[i].value.length <= MaxTransferLength
  /\ i \in Between(es, "capture-start", "capture-end")

\* A list of events that an envelope may begin with.
Viable(es) ==
  /\ Len(es) <= MaxEvents
  /\ \A i \in DOMAIN es : es[i].sequence = i - 1
  /\ \A i, j \in DOMAIN es : i < j => es[i].time <= es[j].time
  /\ \A i \in DOMAIN es :
       IF IsTransfer(es[i]) THEN TransferIsRight(es, i)
       ELSE \E m \in DOMAIN Markers : MarkerIsRight(es, i, m)
  /\ Bytes(es, Window(es)) <= MaxTotalBytes

Complete(es) == /\ Viable(es)
                /\ \A m \in DOMAIN Markers : Where(es, Markers[m]) # {}
                /\ Window(es) # {}

\* The parser, which keeps a flag, two counters and one expected marker, reads
\* on exactly while the events so far can begin an envelope, and at the end of
\* the text accepts exactly the complete ones.
ParsesTheGrammar ==
  LET es == envelope.events
  IN  /\ Viable(es)
      /\ phase = "reading" /\ envelope.preamble = Preamble =>
           /\ \A line \in {l \in Lines : l.kind = "event"} :
                LineOutcome(envelope, line) = "ok" <=> Viable(Append(es, line))
           /\ EndOutcome(envelope) = "ok" <=> Complete(es)

\* The chunks that the transfers at some positions are cut into.
Chunks(es, positions) ==
  Total([i \in DOMAIN es |->
           IF i \in positions THEN (es[i].value.length + MaxChunk - 1) \div MaxChunk
           ELSE 0])

\* What the replay reports is what the events say of the window: the parser
\* counted the window by a flag, the replay by the indices of two markers.
\* Every byte of a bulk transfer has gone through in its direction and in
\* as few chunks as possible, every control transfer has been skipped.
ReportMatchesWindow ==
  LET es == envelope.events
      window == Window(es)
      bulk == {i \in window : es[i].value.transfer = "bulk"}
      empty == {i \in bulk : es[i].value.length = 0}
      Towards(d) == {i \in bulk : es[i].value.direction = d}
      out == Bytes(es, Towards("out"))
      in == Bytes(es, Towards("in"))
  IN  phase = "replayed" =>
        /\ report = [bulk |-> Cardinality(bulk), zero |-> Cardinality(empty),
                      control |-> Cardinality(window \ bulk),
                      packets |-> Chunks(es, bulk), out |-> out, in |-> in]
        /\ envelope.windowTransfers = report.bulk + report.control
        /\ envelope.windowBytes = out + in + Bytes(es, window \ bulk)

\* A replay of an envelope that the parser accepted neither fails nor stays in
\* its loops: no refused argument, no full or empty ring, no packet too large.
ReplaySucceeds == phase \in {"replaying"} \cup Failures ~> phase = "replayed"
=============================================================================
