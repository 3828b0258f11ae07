--------------------------- MODULE TrafficRegime ---------------------------
(***************************************************************************)
(* clean-room/traffic_regime.c: a window that accumulates counts, sums and *)
(* maxima of the transfers it is shown, and names the regime they belong   *)
(* to when its owner finishes it.  Before every call the window is checked *)
(* against what any accumulation of transfers could look like.             *)
(***************************************************************************)
EXTENDS Naturals, Sequences

CONSTANTS Transfers,    \* transfer metadata, see QualifiedSequences
          NoTransfer,   \* a NULL metadata pointer
          PrefixSize,   \* sizeof(in_prefix): the shortest inbound transfer
          Alignment,    \* DB_TRAFFIC_REGIME_OUT_ALIGNMENT
          Small,        \* DB_TRAFFIC_REGIME_SMALL_MAX_LENGTH
          Largest,      \* DB_TRAFFIC_REGIME_MAX_DECLARED_LENGTH
          MaxEvents,    \* DB_TRAFFIC_REGIME_MAX_EVENTS
          ByteMax       \* UINT64_MAX

\* The sizes the code relies on: the limits are whole blocks, and a full
\* window of the largest transfers does not overflow the byte counters.
ASSUME SizesAssumption ==
  /\ PrefixSize \in Nat \ {0} /\ Alignment \in Nat \ {0}
  /\ Small \in Nat /\ Largest \in Nat /\ MaxEvents \in Nat /\ ByteMax \in Nat
  /\ PrefixSize <= Small /\ Small < Largest /\ Largest % Alignment = 0
  /\ MaxEvents * Largest <= ByteMax
ASSUME TransfersAssumption ==
  /\ Transfers \subseteq [direction : {"in", "out"}, length : Nat, plain : BOOLEAN]
  /\ NoTransfer \notin Transfers

VARIABLES window,       \* the DBTrafficRegimeWindow
          observed,     \* the caller's observed_state, "none" before any
          result,       \* what the last call returned
          seen          \* history: the transfers the window has accepted

vars == <<window, observed, result, seen>>

Regimes == {"empty", "small-only", "out-above-small", "out-largest"}

Windows == [state : Regimes \cup {"failed"}, finished : BOOLEAN,
            events : Nat, outCount : Nat, inCount : Nat,
            bytes : Nat, outBytes : Nat, inBytes : Nat,
            maxOut : Nat, maxIn : Nat]

Results == {"ok", "invalid-argument", "invalid-metadata", "bounds-exceeded",
            "corrupted", "already-finished", "sticky-failure"}

Empty == [state |-> "empty", finished |-> FALSE,
          events |-> 0, outCount |-> 0, inCount |-> 0,
          bytes |-> 0, outBytes |-> 0, inBytes |-> 0, maxOut |-> 0, maxIn |-> 0]
-----------------------------------------------------------------------------
\* Between one largest transfer with all others as short as they may be, and
\* all of them as long as the largest.
SumIsPossible(count, bytes, largest, shortest) ==
  IF count = 0 THEN bytes = 0 /\ largest = 0
  ELSE /\ largest # 0
       /\ bytes + shortest >= count * shortest + largest
       /\ bytes <= count * largest

RegimeFitsMaximum(w) ==
  CASE w.state = "small-only"      -> w.maxOut <= Small
    [] w.state = "out-above-small" -> w.maxOut > Small /\ w.maxOut < Largest
    [] w.state = "out-largest"     -> w.maxOut = Largest
    [] OTHER                       -> FALSE

\* window_is_consistent()
WindowIsConsistent(w) ==
  /\ w.state # "failed"
  /\ w.events <= MaxEvents /\ w.events = w.outCount + w.inCount
  /\ w.maxOut <= Largest /\ w.maxOut % Alignment = 0 /\ w.maxIn <= Small
  /\ w.state = "empty" <=> w.events = 0
  /\ w.outBytes + w.inBytes <= ByteMax /\ w.bytes = w.outBytes + w.inBytes
  /\ SumIsPossible(w.outCount, w.outBytes, w.maxOut, Alignment)
  /\ SumIsPossible(w.inCount, w.inBytes, w.maxIn, PrefixSize)
  /\ w.outBytes % Alignment = 0
  /\ w.events > 0 => RegimeFitsMaximum(w)

\* metadata_is_qualified()
MetadataIsQualified(transfer) ==
  /\ transfer # NoTransfer
  /\ transfer.plain
  /\ transfer.length # 0
  /\ \/ /\ transfer.direction = "out"
        /\ transfer.length <= Largest
        /\ transfer.length % Alignment = 0
     \/ /\ transfer.direction = "in"
        /\ transfer.length \in PrefixSize .. Small

\* Seeded fault for NeverCorrupted: one event more than the window holds.
AcceptResultOneTooMany(w, transfer) ==
  IF w.state = "failed" THEN "sticky-failure"
  ELSE IF ~WindowIsConsistent(w) THEN "corrupted"
  ELSE IF w.finished THEN "already-finished"
  ELSE IF transfer = NoTransfer THEN "invalid-argument"
  ELSE IF ~MetadataIsQualified(transfer) THEN "invalid-metadata"
  ELSE IF w.events > MaxEvents \/ w.bytes + transfer.length > ByteMax
       THEN "bounds-exceeded"
  ELSE "ok"

\* Seeded fault for RefusesOnlyWhenFull: one event fewer.
AcceptResultOneTooFew(w, transfer) ==
  IF w.state = "failed" THEN "sticky-failure"
  ELSE IF ~WindowIsConsistent(w) THEN "corrupted"
  ELSE IF w.finished THEN "already-finished"
  ELSE IF transfer = NoTransfer THEN "invalid-argument"
  ELSE IF ~MetadataIsQualified(transfer) THEN "invalid-metadata"
  ELSE IF w.events + 1 >= MaxEvents \/ w.bytes + transfer.length > ByteMax
       THEN "bounds-exceeded"
  ELSE "ok"

AcceptResult(w, transfer) ==
  IF w.state = "failed" THEN "sticky-failure"
  ELSE IF ~WindowIsConsistent(w) THEN "corrupted"
  ELSE IF w.finished THEN "already-finished"
  ELSE IF transfer = NoTransfer THEN "invalid-argument"
  ELSE IF ~MetadataIsQualified(transfer) THEN "invalid-metadata"
  ELSE IF w.events >= MaxEvents \/ w.bytes + transfer.length > ByteMax
       THEN "bounds-exceeded"
  ELSE "ok"

Longer(a, b) == IF a > b THEN a ELSE b

\* Seeded fault for RegimeIsOfTheWholeWindow: the latest large transfer wins.
RegimeOfLatest(w, transfer) ==
  IF transfer.direction = "out" /\ transfer.length = Largest THEN "out-largest"
  ELSE IF transfer.direction = "out" /\ transfer.length > Small
       THEN "out-above-small"
  ELSE IF w.state = "empty" THEN "small-only"
  ELSE w.state

RegimeAfter(w, transfer) ==
  IF transfer.direction = "out" /\ transfer.length = Largest THEN "out-largest"
  ELSE IF /\ transfer.direction = "out" /\ transfer.length > Small
          /\ w.state # "out-largest"
       THEN "out-above-small"
  ELSE IF w.state = "empty" THEN "small-only"
  ELSE w.state

Counted(w, transfer) ==
  LET next == [w EXCEPT !.state = RegimeAfter(w, transfer),
                        !.events = @ + 1,
                        !.bytes = @ + transfer.length]
  IN  IF transfer.direction = "out"
      THEN [next EXCEPT !.outCount = @ + 1,
                        !.outBytes = @ + transfer.length,
                        !.maxOut = Longer(@, transfer.length)]
      ELSE [next EXCEPT !.inCount = @ + 1,
                        !.inBytes = @ + transfer.length,
                        !.maxIn = Longer(@, transfer.length)]

\* fail_window(): the sums stay as they are.
FailedWindow(w) == [w EXCEPT !.state = "failed"]

FinishResult(w) ==
  IF w.state = "failed" THEN "sticky-failure"
  ELSE IF ~WindowIsConsistent(w) THEN "corrupted"
  ELSE IF w.finished THEN "already-finished"
  ELSE "ok"
-----------------------------------------------------------------------------
Init == window = Empty /\ observed = "none" /\ result = "ok" /\ seen = <<>>

Initialize == window' = Empty /\ seen' = <<>> /\ UNCHANGED <<observed, result>>

Accept(transfer) ==
  /\ result' = AcceptResult(window, transfer)
  /\ window' = CASE result' = "ok" -> Counted(window, transfer)
                 [] result' \in {"sticky-failure", "already-finished"} -> window
                 [] OTHER -> FailedWindow(window)
  /\ seen' = IF result' = "ok" THEN Append(seen, transfer) ELSE seen
  /\ UNCHANGED observed

Finish ==
  /\ result' = FinishResult(window)
  /\ window' = CASE result' = "ok" -> [window EXCEPT !.finished = TRUE]
                 [] result' = "corrupted" -> FailedWindow(window)
                 [] OTHER -> window
  /\ observed' = IF result' = "ok" THEN window.state ELSE observed
  /\ UNCHANGED seen

Next == \/ Initialize
        \/ \E transfer \in Transfers \cup {NoTransfer} : Accept(transfer)
        \/ Finish

Spec == Init /\ [][Next]_vars
-----------------------------------------------------------------------------
(* Properties.                                                             *)

\* The window keeps its type, and the arithmetic self-check in front of every
\* call admits every window that transfers can produce, up to a full window of
\* the largest ones.
NeverCorrupted == /\ window \in Windows
                  /\ observed \in Regimes \cup {"none"} /\ result \in Results
                  /\ window.state # "failed" => WindowIsConsistent(window)

SeenOut == {i \in DOMAIN seen : seen[i].direction = "out"}

\* The regime of a set of transfers, whatever the order they came in.
RegimeOfSeen ==
  IF seen = <<>> THEN "empty"
  ELSE IF \E i \in SeenOut : seen[i].length = Largest THEN "out-largest"
  ELSE IF \E i \in SeenOut : seen[i].length > Small THEN "out-above-small"
  ELSE "small-only"

\* The regime names the transfers seen and not their order: a small transfer
\* after a large one, or a larger one after the largest, does not hide it;
\* and what a finished window has reported stays its regime.
RegimeIsOfTheWholeWindow ==
  window.state # "failed" =>
    /\ window.state = RegimeOfSeen
    /\ window.events = Len(seen)
    /\ window.finished => observed = RegimeOfSeen

\* A window refuses a qualified transfer only when it is full; before that no
\* byte counter is ever in danger.
RefusesOnlyWhenFull ==
  [][\A transfer \in Transfers :
       /\ MetadataIsQualified(transfer) /\ Accept(transfer)
       /\ window'.state = "failed" /\ window.state # "failed"
       => Len(seen) = MaxEvents]_vars
=============================================================================
