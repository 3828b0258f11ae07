------------------------------ MODULE EtwImport ------------------------------
(***************************************************************************)
(* clean-room/etw_metadata_import.py: the importer that turns one export   *)
(* of Windows' USB events into activation envelopes, one for each lifetime *)
(* of the target device, and publishes them under numbered names.          *)
(*                                                                         *)
(* The kernel that wrote the events is external.  Devices come and go, the *)
(* capture may begin and end in the middle of their lives, and a handle of *)
(* a device or a pipe is a pointer that is used again when its device is   *)
(* gone.  Every event is handed to the importer as it is logged, which is  *)
(* the second loop of discover_trials().  The first loop, which has read   *)
(* the whole export by then, is foreseen: ImportInit chooses what it will  *)
(* have found, and a capture ends only with the events that it was to find.*)
(*                                                                         *)
(* Two events may have one timestamp: parse_timestamp() drops all digits   *)
(* below the microsecond.  A completion may be logged a little late, while *)
(* its device lives.  The rest of the export is in order, and no pipe goes *)
(* to another device while its own one lives, nor is an endpoint created   *)
(* twice in the life of a device: the importer relies on all of it.        *)
(* A malformed export, refused before or during the loops, is left out.    *)
(***************************************************************************)
EXTENDS ActivationEnvelope, FiniteSets, Functions, Totals, TLC

CONSTANTS Handles, Pipes,       \* pointers of the logging kernel
          Lengths,              \* of transfers, at most MaxTransferLength
          MaxClock,             \* bounds the timestamps
          MaxDevices,           \* bounds the devices, one after the other or together
          MaxTransfers,         \* bounds the transfers that the importer collects
          Lateness,             \* how late a completion may be logged
          Limits                \* values of --stable-upper-bound-us

ASSUME HandlesAssumption == IsFiniteSet(Handles)
ASSUME LengthsAssumption == Lengths \subseteq 0 .. MaxTransferLength
ASSUME TimesAssumption == MaxClock \in Nat /\ Lateness \in Nat /\ Limits \subseteq Nat

Never == MaxClock + 1           \* None, for a timestamp

Absent == [by |-> "nobody"]     \* no file of this name

VARIABLES clock,        \* the timestamp of the newest event
          devices,      \* the devices that are there, by handle
          arrivals,     \* how many there have been
          past,         \* the lifetimes of targets that have ended
          stage,        \* where the importer stands, or how it ended
          handles,      \* the result of the first loop
          pipeMap,      \* pipe_map
          trials,       \* the trials by handle, then the sorted list of them
          renders,      \* whether render_envelope() succeeds, for every trial
          trial,        \* the trial whose envelope is being published
          temporary,    \* the temporary file: "none", "partial", "whole"
          output        \* trial-01.dba, trial-02.dba, ...

importer == <<stage, handles, pipeMap, trials, renders, trial, temporary, output>>

kernel == <<clock, devices, arrivals, past>>

importVars == <<kernel, importer>>

Blank(h) == [handle |-> h, start |-> Never, end |-> Never, transfers |-> <<>>]

With(f, x, y) == [z \in DOMAIN f \cup {x} |-> IF z = x THEN y ELSE f[z]]

Names == 1 .. Cardinality(Handles)

\* A target whose identity is not logged is a device like any other.
Device(target, from) ==
  [target |-> target, from |-> from, newest |-> 0, pipes |-> {}, transfers |-> <<>>]

ImportInit ==
  /\ clock = 0
  /\ past = {}
  /\ stage = "capturing"
  /\ handles \in (SUBSET Handles) \ {{}}
  /\ \/ devices = <<>> /\ arrivals = 0
     \/ arrivals = 1 /\ \E h \in Handles, t \in BOOLEAN :
          (t => h \in handles) /\ devices = With(<<>>, h, Device(t, Never))
  /\ pipeMap = <<>>
  /\ trials = [h \in handles |-> Blank(h)]
  /\ renders = <<>> /\ trial = 0 /\ temporary = "none"
  /\ output = [n \in Names |-> Absent]
-----------------------------------------------------------------------------
(* The second loop of discover_trials(), one event after the other.        *)

\* Every failure leaves by an exception; what was published stays.
RefuseExport ==
  /\ stage' = "refused"
  /\ handles' = {} /\ pipeMap' = <<>> /\ trials' = <<>>
  /\ renders' = <<>> /\ trial' = 0 /\ temporary' = "none"
  /\ UNCHANGED output

\* Event 16.
OnCreate(handle, pipe, endpoint) ==
  IF handle \notin handles THEN UNCHANGED importer
  ELSE IF endpoint = "0x00" /\ trials[handle].start # Never THEN RefuseExport
  ELSE /\ pipeMap' = With(pipeMap, pipe, [handle |-> handle, endpoint |-> endpoint])
       /\ trials' = IF endpoint = "0x00"
                    THEN [trials EXCEPT ![handle].start = clock'] ELSE trials
       /\ UNCHANGED <<stage, handles, renders, trial, temporary, output>>

\* Event 17.  The deletion of any other endpoint is ignored.
OnDelete(handle) ==
  IF handle \notin handles THEN UNCHANGED importer
  ELSE IF trials[handle].end # Never THEN RefuseExport
  ELSE /\ trials' = [trials EXCEPT ![handle].end = clock']
       /\ UNCHANGED <<stage, handles, pipeMap, renders, trial, temporary, output>>

\* Event 27.
OnCompletion(pipe, success, transfer) ==
  IF /\ pipe \in DOMAIN pipeMap
     /\ pipeMap[pipe].endpoint \in {"0x02", "0x84"}
     /\ success
  THEN /\ trials' = [trials EXCEPT ![pipeMap[pipe].handle].transfers =
                       Append(@, [time     |-> transfer.time,
                                  endpoint |-> pipeMap[pipe].endpoint,
                                  length   |-> transfer.length])]
       /\ UNCHANGED <<stage, handles, pipeMap, renders, trial, temporary, output>>
  ELSE UNCHANGED importer
-----------------------------------------------------------------------------
(* External: what happens to the devices, and which events it logs.        *)

TakenPipes == {p.pipe : p \in UNION {devices[h].pipes : h \in DOMAIN devices}}

Tick == clock' \in {clock, clock + 1} /\ clock' <= MaxClock

WithPipe(d, pipe, endpoint) ==
  [d EXCEPT !.pipes = @ \cup {[pipe |-> pipe, endpoint |-> endpoint]}, !.newest = clock']

\* A device arrives, and its endpoint zero is created.  Event 9, by which the
\* first loop knows a target, is logged somewhere in its life.
Arrive(h, target, pipe) ==
  /\ stage = "capturing" /\ arrivals < MaxDevices
  /\ h \notin DOMAIN devices /\ pipe \notin TakenPipes
  /\ target => h \in handles
  /\ Tick
  /\ arrivals' = arrivals + 1
  /\ devices' = With(devices, h, WithPipe(Device(target, clock'), pipe, "0x00"))
  /\ OnCreate(h, pipe, "0x00")
  /\ UNCHANGED past

\* Another of its endpoints is created, once in its life.
Configure(h, pipe, endpoint) ==
  /\ stage = "capturing" /\ pipe \notin TakenPipes
  /\ \A p \in devices[h].pipes : p.endpoint # endpoint
  /\ UNCHANGED clock
  /\ devices' = [devices EXCEPT ![h] = WithPipe(@, pipe, endpoint)]
  /\ OnCreate(h, pipe, endpoint)
  /\ UNCHANGED <<arrivals, past>>

Collected == UNION {{<<h, k>> : k \in DOMAIN trials[h].transfers} : h \in handles}

CompleteTransfer(h, p, success, length, late) ==
  /\ stage = "capturing"
  /\ Cardinality(Collected) < MaxTransfers
  /\ Tick
  /\ clock' - late >= devices[h].newest
  /\ LET transfer == [time |-> clock' - late, endpoint |-> p.endpoint, length |-> length]
     IN  /\ devices' = IF devices[h].target /\ success /\ p.endpoint # "0x00"
                       THEN [devices EXCEPT ![h].transfers = Append(@, transfer)]
                       ELSE devices
         /\ OnCompletion(p.pipe, success, transfer)
  /\ UNCHANGED <<arrivals, past>>

Leave(h) ==
  /\ stage = "capturing"
  /\ Tick
  /\ past' = IF devices[h].target
             THEN past \cup {[handle |-> h, from |-> devices[h].from, to |-> clock',
                              transfers |-> devices[h].transfers]}
             ELSE past
  /\ devices' = [g \in DOMAIN devices \ {h} |-> devices[g]]
  /\ OnDelete(h)
  /\ UNCHANGED arrivals
-----------------------------------------------------------------------------
(* The end of discover_trials().                                           *)

\* Seeded fault for AttributionIsExact: the end of a lifetime belongs to it.
InsideLate(t) ==
  {i \in DOMAIN t.transfers : t.start <= t.transfers[i].time /\ t.transfers[i].time <= t.end}

Inside(t) ==
  {i \in DOMAIN t.transfers : t.start <= t.transfers[i].time /\ t.transfers[i].time < t.end}

\* Seeded fault for EnvelopesAreAccepted: the transfers stay as logged.
RankAsLogged(transfers, at, i) == Cardinality({j \in at : j <= i})

\* Where list.sort() puts one of the transfers at these positions: by the
\* timestamp, and equal ones stay in order.
Rank(transfers, at, i) ==
  Cardinality({j \in at : \/ transfers[j].time < transfers[i].time
                          \/ transfers[j].time = transfers[i].time /\ j <= i})

\* The code sorts, then selects; here what is selected is sorted, which is the same.
Trimmed(t) ==
  [t EXCEPT !.transfers =
     [k \in 1 .. Cardinality(Inside(t)) |->
        t.transfers[CHOOSE i \in Inside(t) : Rank(t.transfers, Inside(t), i) = k]]]

Bounded(t) == t.start # Never /\ t.end # Never /\ t.start < t.end

\* The trials in the order of their starts; handles whose trials start
\* together come in the order in which the first loop met them, which is any.
Orders ==
  {o \in [1 .. Cardinality(handles) -> handles] :
     /\ IsInjective(o)
     /\ \A j, k \in DOMAIN o : j < k => trials[o[j]].start <= trials[o[k]].start}

Targets == {h \in DOMAIN devices : devices[h].target} \cup {d.handle : d \in past}

\* What was going on is of no interest any more.
ForgetCapture == clock' = 0 /\ devices' = <<>> /\ arrivals' = 0 /\ past' = {}

EndOfCapture ==
  /\ stage = "capturing"
  /\ handles = Targets
  /\ IF \A h \in handles : Bounded(trials[h]) /\ Trimmed(trials[h]).transfers # <<>>
     THEN /\ stage' = "discovered"
          /\ \E o \in Orders : trials' = [k \in DOMAIN o |-> Trimmed(trials[o[k]])]
          /\ handles' = {} /\ pipeMap' = <<>>
          /\ UNCHANGED <<kernel, renders, trial, temporary, output>>
     ELSE RefuseExport /\ ForgetCapture
-----------------------------------------------------------------------------
(* render_envelope(): the lines of a trial and the two counts it reports.  *)

Lifetime(t) == t.end - t.start

Activation(t, limit) == {k \in DOMAIN t.transfers : t.transfers[k].time - t.start < limit}

ActivationBytes(t, limit) ==
  Total([k \in DOMAIN t.transfers |->
           IF k \in Activation(t, limit) THEN t.transfers[k].length ELSE 0])

Renders(t, limit) ==
  /\ 0 < limit /\ limit < Lifetime(t)
  /\ Activation(t, limit) # {}
  /\ ActivationBytes(t, limit) <= MaxTotalBytes
  /\ Len(t.transfers) + 4 <= MaxEvents

Marker(marker, time) == [time |-> time, value |-> [type |-> "marker", marker |-> marker]]

Record(t, x) ==
  [time |-> x.time - t.start,
   value |-> [type |-> "transfer", transfer |-> "bulk", endpoint |-> x.endpoint,
              direction |-> IF x.endpoint = "0x02" THEN "out" ELSE "in",
              length |-> x.length]]

\* The events: output-stable stands before the first transfer that is not
\* earlier than it, or after all of them.
Events(t, limit) ==
  LET late == DOMAIN t.transfers \ Activation(t, limit)
      n == CHOOSE m \in 0 .. Len(t.transfers) :
             /\ 1 .. m \subseteq Activation(t, limit)
             /\ m = Len(t.transfers) \/ m + 1 \in late
      records == [k \in DOMAIN t.transfers |-> Record(t, t.transfers[k])]
  IN  <<Marker("capture-start", 0), Marker("action-issued", 0)>>
        \o SubSeq(records, 1, n) \o <<Marker("output-stable", limit)>>
        \o SubSeq(records, n + 1, Len(records)) \o <<Marker("capture-end", Lifetime(t))>>

Envelope(t, limit) ==
  <<[kind |-> "header"], [kind |-> "origin", valid |-> TRUE],
    [kind |-> "device", valid |-> TRUE], [kind |-> "action", valid |-> TRUE]>>
    \o [k \in DOMAIN Events(t, limit) |->
          [kind |-> "event", sequence |-> k - 1,
           time |-> Events(t, limit)[k].time, value |-> Events(t, limit)[k].value]]
-----------------------------------------------------------------------------
(* convert() and write_exclusive().                                        *)

\* The trials are counted.  What render_envelope() makes of each of them is
\* settled now, though the loop asks for it only when it gets there; the devices
\* and the trials themselves are of no interest any more.
CountTrials(limit, expected) ==
  /\ stage = "discovered"
  /\ IF Len(trials) = expected
     THEN /\ stage' = "rendering" /\ trial' = 1
          /\ renders' = [k \in DOMAIN trials |-> Renders(trials[k], limit)]
          /\ trials' = <<>>
          /\ UNCHANGED <<handles, pipeMap, temporary, output>>
     ELSE RefuseExport
  /\ ForgetCapture

Render ==
  /\ stage = "rendering"
  /\ IF renders[trial]
     THEN /\ stage' = "naming"
          /\ UNCHANGED <<handles, pipeMap, trials, renders, trial, temporary, output>>
     ELSE RefuseExport
  /\ UNCHANGED kernel

Keep == UNCHANGED <<kernel, handles, pipeMap, trials, renders>>

\* The name is looked at; then mkstemp().
MakeTemporary ==
  /\ stage = "naming"
  /\ IF output[trial] # Absent THEN RefuseExport /\ UNCHANGED kernel
     ELSE /\ stage' = "writing" /\ temporary' = "partial"
          /\ UNCHANGED <<trial, output>> /\ Keep

\* write(), flush(), fsync().  When one of them fails, or mkstemp() before them,
\* no temporary file is left.
WriteTemporary ==
  /\ stage = "writing"
  /\ \/ stage' = "linking" /\ temporary' = "whole" /\ UNCHANGED <<trial, output>> /\ Keep
     \/ RefuseExport /\ UNCHANGED kernel

Linked == [output EXCEPT ![trial] = [by |-> "this", whole |-> temporary = "whole"]]

\* Seeded fault for PublishedForGood: os.replace() in the place of os.link().
LinkOver ==
  /\ stage = "linking"
  /\ stage' = "unlinking" /\ output' = Linked
  /\ UNCHANGED <<trial, temporary>> /\ Keep

\* link() refuses a name that is there by now.
Link ==
  /\ stage = "linking"
  /\ IF output[trial] # Absent THEN RefuseExport /\ UNCHANGED kernel
     ELSE /\ stage' = "unlinking" /\ output' = Linked
          /\ UNCHANGED <<trial, temporary>> /\ Keep

Unlink ==
  /\ stage = "unlinking"
  /\ temporary' = "none"
  /\ IF trial < Len(renders)
     THEN stage' = "rendering" /\ trial' = trial + 1
     ELSE stage' = "published" /\ UNCHANGED trial
  /\ UNCHANGED output /\ Keep

\* The importer is killed; its temporary file may stay behind.
Die ==
  /\ stage \in {"rendering", "naming", "writing", "linking", "unlinking"}
  /\ stage' = "killed"
  /\ UNCHANGED <<trial, temporary, output>> /\ Keep

\* External: another run of the importer into the same directory.
AnotherRun(name) ==
  /\ stage \in {"rendering", "naming", "writing", "linking", "unlinking"}
  /\ output[name] = Absent
  /\ output' = [output EXCEPT ![name] = [by |-> "another", whole |-> TRUE]]
  /\ UNCHANGED <<stage, trial, temporary>> /\ Keep

Capture ==
  \/ \E h \in Handles, t \in BOOLEAN, p \in Pipes : Arrive(h, t, p)
  \/ \E h \in DOMAIN devices :
       \/ \E p \in Pipes, e \in {"0x02", "0x84"} : Configure(h, p, e)
       \/ \E p \in devices[h].pipes, s \in BOOLEAN, n \in Lengths, l \in 0 .. Lateness :
            CompleteTransfer(h, p, s, n, l)
       \/ Leave(h)

ImportNext ==
  \/ Capture
  \/ EndOfCapture
  \/ \E l \in Limits, n \in Names : CountTrials(l, n)
  \/ Render \/ MakeTemporary \/ WriteTemporary \/ Link \/ Unlink \/ Die
  \/ \E n \in Names : AnotherRun(n)

\* The kernel may do nothing more, and the importer may be killed: no step is
\* promised.
ImportSpec == ImportInit /\ [][ImportNext]_importVars
-----------------------------------------------------------------------------
(* Properties.                                                             *)

Occurrences(x, s) == Cardinality({i \in DOMAIN s : s[i] = x})

IsTrialOf(t, d) ==
  /\ t.handle = d.handle /\ t.start = d.from /\ t.end = d.to
  /\ \A i \in DOMAIN t.transfers : t.transfers[i].time < d.to
  /\ \A x \in {t.transfers[i] : i \in DOMAIN t.transfers}
              \cup {d.transfers[i] : i \in DOMAIN d.transfers} :
       x.time < d.to => Occurrences(x, t.transfers) = Occurrences(x, d.transfers)

\* When the two loops have not refused the export, the trials are the lifetimes
\* of the identified targets, in the order of their arrival, and each has the
\* successful display transfers of its own lifetime and no other: although
\* pipe_map is never cleared, and handles of devices and pipes come back.
AttributionIsExact ==
  stage = "discovered" =>
    /\ \A h \in DOMAIN devices : ~devices[h].target
    /\ Len(trials) = Cardinality(past)
    /\ \A d \in past : \E k \in DOMAIN trials : IsTrialOf(trials[k], d)
    /\ \A j, k \in DOMAIN trials : j < k => trials[j].start <= trials[k].start

\* What db_activation_parse() makes of the lines.
AfterLine(before, line) ==
  LET outcome == LineOutcome(before.env, line)
  IN  IF before.outcome # "ok" THEN before
      ELSE IF outcome = "ok" THEN [outcome |-> "ok", env |-> WithLine(before.env, line)]
      ELSE [outcome |-> outcome, env |-> before.env]

Parsed(lines) ==
  LET after[n \in 0 .. Len(lines)] ==
        IF n = 0 THEN [outcome |-> "ok", env |-> BlankEnvelope]
        ELSE AfterLine(after[n - 1], lines[n])
  IN  after[Len(lines)]

\* An envelope that the importer renders is one that the parser of the same
\* project accepts, and both count the same transfers and bytes before the
\* output was stable: one by the timestamps, the other by the markers.
EnvelopesAreAccepted ==
  stage = "discovered" =>
    \A k \in DOMAIN trials : \A limit \in {l \in Limits : Renders(trials[k], l)} :
      LET t == trials[k]
          parsed == Parsed(Envelope(t, limit))
      IN  /\ parsed.outcome = "ok" /\ EndOutcome(parsed.env) = "ok"
          /\ parsed.env.windowTransfers = Cardinality(Activation(t, limit))
          /\ parsed.env.windowBytes = ActivationBytes(t, limit)

\* A name goes from absent to a whole envelope, whichever run publishes it, and
\* stays as it is whatever happens to the run that published it.  A run that
\* succeeds has published every trial itself.
PublishedForGood ==
  [][/\ \A n \in Names : output'[n] # output[n] =>
                            output[n] = Absent /\ output'[n].whole
     /\ stage' = "published" =>
          \A n \in DOMAIN renders : output'[n].by = "this"]_importVars
=============================================================================
